------------------------------- MODULE Framing --------------------------------
(***************************************************************************)
(* Reading a connection's inbound buffer: Peek, Next, Discard and the      *)
(* default decoder (connection_unix.go, glibevent.go).  client.go and      *)
(* connection_windows.go have the same code over the same buffer.          *)
(*                                                                         *)
(* An answer is [ok, data, b]: whether err is nil, the bytes, the buffer.  *)
(***************************************************************************)
EXTENDS Integers, Sequences

CONSTANTS
  HeadLen,      \* bytes of a header
  BodyLen,      \* the body length its first byte stands for, a function; any sign
  Nil, DefaultBufferSize, GrowThreshold, MinRead, Junk, WordBits

In == INSTANCE ElasticRing

Answer(ok, data, b) == [ok |-> ok, data |-> data, b |-> b]
ErrShort(b)         == Answer(FALSE, << >>, b)

\* A number of bytes that is not positive stands for all.
OrAll(n, b) == IF n <= 0 THEN In!Buffered(b) ELSE n

Peek(b, n) ==
  IF n > In!Buffered(b) \/ In!IsEmpty(b) THEN ErrShort(b)
  ELSE LET p == In!Peek(b, OrAll(n, b)) IN Answer(TRUE, p[1] \o p[2], b)

\* The bytes that are left and the buffer without them.
Discard(b, n) == IF In!Buffered(b) < n \/ n <= 0 THEN In!Reset(b) ELSE In!Discard(b, n)

Next(b, n) == IF ~Peek(b, n).ok THEN Peek(b, n)
              ELSE Answer(TRUE, Peek(b, n).data, In!Discard(b, OrAll(n, b)))

\* One message: its header and its body, or an error when it is not complete; by
\* then the header may be gone.
Decode(b) ==
  LET head == Peek(b, HeadLen)
      n    == BodyLen[head.data[1]]
      b1   == Discard(b, HeadLen)
      body == Peek(b1, n)
  IN  CASE In!Buffered(b) < HeadLen     -> ErrShort(b)
        [] In!Buffered(b) >= HeadLen /\ In!Buffered(b) < HeadLen + n -> ErrShort(b)
        [] In!Buffered(b) >= HeadLen /\ In!Buffered(b) >= HeadLen + n /\ ~body.ok -> ErrShort(b1)
        [] OTHER -> Answer(TRUE, head.data \o body.data, Discard(b1, n))

\* The copies of this code in client.go and connection_windows.go.
ClientPeek(b, n)     == Peek(b, n)
ClientDiscard(b, n)  == Discard(b, n)
ClientDecode(b)      == Decode(b)
WindowsPeek(b, n)    == Peek(b, n)
WindowsDiscard(b, n) == Discard(b, n)
=============================================================================

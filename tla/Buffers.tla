------------------------------- MODULE Buffers --------------------------------
(***************************************************************************)
(* One buffer under every sequence of its calls: the inbound buffer of a   *)
(* connection (elastic.RingBuffer with Framing on top) or an outbound one  *)
(* (elastic.Buffer).  A buffer is used by one goroutine at a time; only    *)
(* ReadFrom takes several steps, one per call of its reader.               *)
(***************************************************************************)
EXTENDS Integers, Sequences

CONSTANTS
  DefaultBufferSize, GrowThreshold, MinRead, WordBits,  \* of the ring, scaled down
  MaxStatic,     \* maxStaticBytes of the elastic.Buffer
  HeadLen, BodyLen, Numbers, Nil, Junk,
  PoolSizes,     \* sizes of the rings the pool may hand out
  MaxBytes       \* bound on the bytes in the buffer

Ring    == INSTANCE RingBuffer
List    == INSTANCE LinkedList
Inbound == INSTANCE ElasticRing
Conn    == INSTANCE Framing
Mixed   == INSTANCE ElasticBuffer

\* What a buffer holds: numbered bytes, and what a pooled slice held before.
Byte == (0..Numbers - 1) \cup {Junk}

\* The loop n += n / 4 ends from 4 slots on.
ASSUME ScaleAssumption ==
  /\ MinRead \in Nat \ {0} /\ DefaultBufferSize \in Nat /\ DefaultBufferSize >= MinRead
  /\ GrowThreshold \in Nat /\ GrowThreshold > DefaultBufferSize /\ GrowThreshold >= 4
  /\ MaxStatic \in Nat \ {0} /\ PoolSizes \subseteq Nat
ASSUME NilAssumption == Nil \notin [buf : Seq(Byte), r : Nat, w : Nat, empty : BOOLEAN]
\* No number is there twice.
ASSUME StreamAssumption ==
  /\ Numbers \in Nat \ {0} /\ MaxBytes \in 0..Numbers
  /\ HeadLen \in Nat \ {0} /\ BodyLen \in [Byte -> Int]

\* A first write of up to MaxBytes bytes finds room: WordBits bits are enough to round it up.
ASSUME CeilAssumption ==
  \A n \in 1..MaxBytes : Ring!CeilToPowerOfTwo(n) \in Nat /\ n <= Ring!CeilToPowerOfTwo(n)

\* The byte slices' size classes: what is taken fits, what is put back is not
\* given out as larger than it is.
ASSUME SizeClasses == \A n \in 1..2^WordBits : n <= 2^Ring!GetClass(n) /\ 2^Ring!PutClass(n) <= n

VARIABLES
  kind,    \* "conn" or "elastic"
  ring,    \* b.rb, or Nil
  list,    \* listBuffer of an elastic.Buffer
  loop,    \* ReadFrom in progress: "no", or the r.Read that is next
  next,    \* number of the next byte put in (history)
  call     \* the last call and what it returned (history)

vars == <<kind, ring, list, loop, next, call>>

mb == [ring |-> ring, list |-> list]
Content == Mixed!Content(mb)

Queue == INSTANCE ByteQueue WITH content <- Content

Init == /\ kind \in {"conn", "elastic"}
        /\ ring = Nil /\ list = << >> /\ loop = "no" /\ next = 0
        /\ call = [op |-> "clear", n |-> 0, ret |-> << >>]

-----------------------------------------------------------------------------

\* A slot that holds no byte of the buffer is Junk: nobody may read it again.
Scrub(b) ==
  LET held(i) == ~b.empty /\ IF b.r < b.w THEN b.r < i /\ i <= b.w ELSE b.r < i \/ i <= b.w
  IN  IF b = Nil THEN Nil ELSE [b EXCEPT !.buf = [i \in DOMAIN @ |-> IF held(i) THEN @[i] ELSE Junk]]

\* What a call leaves, was asked for and returned.
Is(op, n, ret) == call' = [op |-> op, n |-> n, ret |-> ret]
Becomes(b, l)  == ring' = Scrub(b) /\ list' = l /\ UNCHANGED kind
Idle           == loop = "no" /\ UNCHANGED loop
Unread         == UNCHANGED next

\* The bytes put in are the next k of the stream; there is room for them.
Incoming(k) == [i \in 1..k |-> (next + i - 1) % Numbers]
Sizes       == 0..(MaxBytes - Len(Content))
Comes(k)    == next' = (next + k) % Numbers /\ Is("put", k, << >>)
Counts      == 0..(MaxBytes + 1)

\* What the pool gives: a new ring, or any that was put back.
Pooled == {Ring!New(0)} \cup {[Ring!New(0) EXCEPT !.buf = Ring!Get(s)] : s \in PoolSizes}

-----------------------------------------------------------------------------
(* The inbound buffer of a connection, and the ring calls no connection makes *)

ConnWrite == /\ Idle /\ kind = "conn"
             /\ \E k \in Sizes, p \in Pooled :
                  Comes(k) /\ Becomes(Inbound!Write(ring, Incoming(k), p), list)

\* WriteByte, and the index out of range it may end in, after grow(1).
RingWriteByte ==
  /\ kind = "conn" /\ Idle /\ 1 \in Sizes
  /\ \E p \in Pooled :
       LET b == Inbound!instance(ring, p) IN
       IF Ring!WriteBytePanics(b) THEN Is("panic", 1, << >>) /\ Unread /\ Becomes(Ring!grow(b, 1), list)
       ELSE Comes(1) /\ Becomes(Inbound!WriteByte(ring, next, p), list)

ConnRead == /\ kind = "conn" /\ Idle /\ Unread
            /\ \E n \in Counts :
                 Is("take", n, Inbound!Taken(ring, n)) /\ Becomes(Inbound!Read(ring, n), list)

ConnNext == /\ kind = "conn" /\ Idle /\ Unread
            /\ \E n \in Counts : LET a == Conn!Next(ring, n) IN
                 Is("next", n, a.data) /\ Becomes(a.b, list)

ConnPeek == /\ kind = "conn" /\ Idle /\ Unread
            /\ \E n \in Counts : Is("look", n, Conn!Peek(ring, n).data) /\ Becomes(ring, list)

ConnDiscard == /\ kind = "conn" /\ Idle /\ Unread
               /\ \E n \in Counts : Is("skip", n, << >>) /\ Becomes(Conn!Discard(ring, n), list)

ConnDecode == /\ kind = "conn" /\ Idle /\ Unread
              /\ LET a == Conn!Decode(ring) IN Is("decode", 0, a.data) /\ Becomes(a.b, list)

RingWriteTo == /\ kind = "conn" /\ Idle /\ Unread
               /\ \E k \in 0..Len(Content) :
                    Is("write", k, Inbound!Taken(ring, k)) /\ Becomes(Inbound!WriteTo(ring, k), list)

ConnReset   == kind = "conn" /\ Idle /\ Unread /\ Is("clear", 0, << >>) /\ Becomes(Inbound!Reset(ring), list)
ConnRelease == kind = "conn" /\ Idle /\ Unread /\ Is("clear", 0, << >>) /\ Becomes(Nil, list)

CopyFromSocket ==
  /\ kind = "conn" /\ Idle /\ ring # Nil
  /\ \E k \in Sizes : /\ k <= Ring!Available(Ring!SocketTarget(ring))
                      /\ Comes(k) /\ Becomes(Ring!CopyFromSocket(ring, Incoming(k)), list)

Rewind == /\ kind = "conn" /\ Idle /\ ring # Nil /\ Unread
          /\ IF Ring!RewindPanics(ring) THEN Is("panic", 0, << >>) /\ Becomes(ring, list)
             ELSE Is("internal", 0, << >>) /\ Becomes(Ring!Rewind(ring), list)

-----------------------------------------------------------------------------
(* elastic.Buffer *)

Puts(m) == Becomes(m.ring, m.list)

ElasticWrite == /\ kind = "elastic" /\ Idle
                /\ \E k \in Sizes, p \in Pooled : Comes(k) /\ Puts(Mixed!Write(mb, Incoming(k), p))

\* writev in two slices of which the socket has taken the first sent bytes: what is
\* left goes to Writev, beginning with the slice that was not sent whole.
Leftover(bs, sent) == List!Discard(bs, sent)
ElasticWritev ==
  /\ kind = "elastic" /\ Idle
  /\ \E k \in Sizes, p \in Pooled : \E i \in 0..k, sent \in {0, 1} :
       /\ k + sent <= MaxBytes
       /\ LET data == [j \in 1..(sent + k) |-> (next + j - 1 - sent) % Numbers]
              bs   == <<SubSeq(data, 1, sent + i), SubSeq(data, sent + i + 1, sent + k)>>
          IN  Comes(k) /\ Puts(Mixed!Writev(mb, Leftover(bs, sent), p))

ElasticRead == /\ kind = "elastic" /\ Idle /\ Unread
               /\ \E n \in Counts : Is("take", n, Mixed!Taken(mb, n)) /\ Puts(Mixed!Read(mb, n))

ElasticPeek == /\ kind = "elastic" /\ Idle /\ Unread
               /\ \E n \in Counts : Is("peek", n, List!Content(Mixed!Peek(mb, n))) /\ Puts(mb)

ElasticDiscard == /\ kind = "elastic" /\ Idle /\ Unread
                  /\ \E n \in Counts : Is("discard", n, << >>) /\ Puts(Mixed!Discard(mb, n))

\* The writer takes k bytes and then no more, or fails.
ElasticWriteTo ==
  /\ kind = "elastic" /\ Idle /\ Unread
  /\ \E k \in 0..Len(Content), err \in BOOLEAN :
       /\ Is(IF err THEN "writefail" ELSE "write", k,
             IF Inbound!IsEmpty(ring) THEN << >> ELSE Mixed!Taken(mb, k))
       /\ Puts(Mixed!WriteTo(mb, k, err))

ElasticReset   == kind = "elastic" /\ Idle /\ Unread /\ Is("clear", 0, << >>) /\ Puts(Mixed!Reset(mb))
ElasticRelease == kind = "elastic" /\ Idle /\ Unread /\ Is("clear", 0, << >>) /\ Puts(Mixed!Release(mb))

-----------------------------------------------------------------------------
(* ReadFrom; err stands for io.EOF and for any other error.  A reader gives at   *)
(* least a byte when there is room and no error.                               *)

ReadFrom ==
  /\ loop = "no" /\ Is("internal", 0, << >>) /\ Unread
  /\ IF kind = "elastic" /\ Mixed!ReadsToList(mb)
       THEN loop' = "list" /\ Becomes(ring, list)
       ELSE /\ loop' = "first"
            /\ \E p \in Pooled : Becomes(Ring!ReadFromRoom(Inbound!instance(ring, p)), list)

ReadFirst ==
  /\ loop = "first"
  /\ \E k \in Sizes, err \in BOOLEAN :
       LET b == Ring!FirstRead(ring, Incoming(k)) IN
       /\ k <= Ring!FirstRoom(ring) /\ Comes(k) /\ (k = 0 => err)
       /\ loop' = CASE err -> "no" [] ~err /\ ring.w >= ring.r -> "second" [] OTHER -> "first"
       /\ Becomes(IF loop' = "first" THEN Ring!ReadFromRoom(b) ELSE b, list)

ReadSecond ==
  /\ loop = "second"
  /\ \E k \in Sizes, err \in BOOLEAN :
       LET b == Ring!SecondRead(ring, Incoming(k)) IN
       /\ k <= ring.r /\ Comes(k) /\ (k = 0 => err \/ ring.r = 0)
       /\ loop' = IF err THEN "no" ELSE "first"
       /\ Becomes(IF err THEN b ELSE Ring!ReadFromRoom(b), list)

ReadToList ==
  /\ loop = "list"
  /\ \E k \in Sizes, err \in BOOLEAN :
       /\ k <= MinRead /\ Comes(k) /\ (k = 0 => err)
       /\ loop' = IF err THEN "no" ELSE "list"
       /\ Becomes(ring, List!ReadFrom(list, Incoming(k), err))

\* Bound: nothing is asked of a buffer whose bytes are no longer the last ones of the
\* stream; the step that broke it is one of Defect below.
Intact == Content = [i \in 1..Len(Content) |-> (next + Numbers - Len(Content) + i - 1) % Numbers]

Call ==
  \/ ConnWrite \/ RingWriteByte \/ ConnRead \/ ConnNext \/ ConnPeek \/ ConnDiscard
  \/ ConnDecode \/ RingWriteTo \/ ConnReset \/ ConnRelease \/ CopyFromSocket \/ Rewind
  \/ ElasticWrite \/ ElasticWritev \/ ElasticRead \/ ElasticPeek \/ ElasticDiscard
  \/ ElasticWriteTo \/ ElasticReset \/ ElasticRelease
  \/ ReadFrom \/ ReadFirst \/ ReadSecond \/ ReadToList

\* A panic is the last thing a buffer does: nothing in the code recovers from one.
Next == call.op # "panic" /\ Intact /\ Call

Spec == Init /\ [][Next]_vars

-----------------------------------------------------------------------------
(* What goes wrong: exactly in these steps a buffer is not a byte queue. *)

\* A full ring of GrowThreshold bytes or more: WriteByte's grow(1) makes no room.
FullRingPanics == call'.op = "panic"

\* The reader's first answer is empty, and so is the ring: it now looks full.
EmptyReadFills == loop = "first" /\ call'.n = 0 /\ ring.empty

\* The second read of a turn goes to the start of the buffer although the first
\* did not reach its end.
SecondReadMisplaced == loop = "second" /\ call'.n > 0 /\ ring.w # 0

\* The writer takes nothing from a ring that is full from its first slot to its
\* last: r = w is taken for empty.
NothingTakenDropsAll == call'.op \in {"write", "writefail"} /\ call'.n = 0
                        /\ Inbound!IsFull(ring) /\ ring.r = 0

\* Rewind compares nothing with r: full and wrapped contents are rotated.
RewindRotates == call'.op = "internal" /\ loop = "no" /\ loop' = "no"
                 /\ Inbound!IsFull(ring) /\ ring.w # 0 /\ Ring!Size(ring) - ring.w < DefaultBufferSize

\* Bytes that come with an error, io.EOF too, are not put into the list.
BytesWithErrorDropped == loop = "list" /\ loop' = "no" /\ call'.n > 0

\* The node in the writer's hands when it fails is gone.
NodeLostOnError == call'.op = "writefail" /\ ~Inbound!IsEmpty(ring)
                   /\ call'.n >= Inbound!Buffered(ring) /\ call'.n < Len(Content)

\* An empty ring is an error, so the list is not written at all.
ListNotReached == call'.op \in {"write", "writefail"} /\ Inbound!IsEmpty(ring) /\ call'.n > 0

\* A body length of 0 or less stands for everything that is buffered.
EmptyBodyTakesAll == call'.op = "decode" /\ Len(Content) >= HeadLen /\ BodyLen[Content[1]] <= 0

Defect == FullRingPanics \/ EmptyReadFills \/ SecondReadMisplaced \/ NothingTakenDropsAll
          \/ RewindRotates \/ BytesWithErrorDropped \/ NodeLostOnError \/ ListNotReached
          \/ EmptyBodyTakesAll

-----------------------------------------------------------------------------

\* The flag that tells empty from full and the two positions agree after every
\* call that returns (ring_buffer.go:483, Reset at every place where r reaches w), and a ring
\* with no slot holds nothing.
RingShape ==
  call.op # "panic" /\ ring # Nil =>
    /\ ring.r \in 0..Len(ring.buf) /\ ring.w \in 0..Len(ring.buf)
    /\ ring.buf # << >> => ring.r < Len(ring.buf) /\ ring.w < Len(ring.buf)
    /\ ring.empty => ring.r = 0 /\ ring.w = 0
    /\ ring.buf = << >> => ring.empty

\* Ring, list and framing over them are one queue of bytes: every call outside the
\* Defect steps returns and leaves what a byte queue would, across growth,
\* wrap-around, the pool and the split between ring and list.
ActsAsQueue == [][Defect \/ Queue!Next]_vars

\* The list is used only when the ring is filled to maxStaticBytes or to its
\* capacity beyond it, and a ring that is that large does not grow any more but in
\* ReadFrom (elastic_ring_list_buffer.go:27 and :82-130).
StaticLimit ==
  [][kind = "elastic" =>
       /\ list = << >> /\ list' # << >> => Inbound!Buffered(ring') >= MaxStatic
       /\ loop = "no" /\ loop' = "no" /\ Inbound!Len0(ring) >= MaxStatic =>
            Inbound!Len0(ring') <= Inbound!Len0(ring)]_vars
=============================================================================

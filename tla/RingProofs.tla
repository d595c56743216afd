------------------------------ MODULE RingProofs ------------------------------
(***************************************************************************)
(* What the operations of ring.Buffer do to the bytes in it, for rings of  *)
(* every size, positions anywhere, and bytes of any kind: each takes from  *)
(* the front or adds at the end of Bytes, across wrap-around and growth,   *)
(* and leaves a ring whose positions and flag agree.                       *)
(*                                                                         *)
(* The argument is one of slots: the i-th byte that is buffered lies in    *)
(* ReadSlot(b, i) (BytesOf, and BytesAre the other way round); a read      *)
(* position that moves renumbers the slots (SkipFront), a store from w on  *)
(* fills exactly the slots behind the last byte and none that holds one    *)
(* (StoreAppends), and a growth puts byte i into slot i (GrowKeeps).       *)
(***************************************************************************)
EXTENDS RingBuffer, SequenceTheorems, WellFoundedInduction, TLAPS

(* A ring over the bytes S whose positions and flag agree. *)
Shape(b) ==
  /\ b.r \in 0..Len(b.buf) /\ b.w \in 0..Len(b.buf)
  /\ b.buf # << >> => b.r < Len(b.buf) /\ b.w < Len(b.buf)
  /\ b.empty => b.r = 0 /\ b.w = 0
  /\ b.buf = << >> => b.empty

Rings(S) == {b \in [buf : Seq(S), r : Nat, w : Nat, empty : BOOLEAN] : Shape(b)}

(* The slots of the i-th byte that is buffered and of the j-th that may come. *)
ReadSlot(b, i)  == IF b.r + i <= Len(b.buf) THEN b.r + i ELSE (b.r + i) - Len(b.buf)
WriteSlot(b, j) == IF b.w + j <= Len(b.buf) THEN b.w + j ELSE (b.w + j) - Len(b.buf)

(* Modulo the size, of a position that has not passed the end, ... *)
LEMMA ModSmall ==
  ASSUME NEW a \in Nat, NEW s \in Nat \ {0}, a < s
  PROVE  a % s = a
OBVIOUS

(* ... and of one that has passed it once. *)
LEMMA ModOnce ==
  ASSUME NEW a \in Nat, NEW s \in Nat \ {0}, s <= a, a < s + s
  PROVE  a % s = a - s
OBVIOUS

(* s[lo:hi], byte by byte. *)
LEMMA SliceOf ==
  ASSUME NEW S, NEW s \in Seq(S), NEW lo \in Nat, NEW hi \in Nat, lo <= hi, hi <= Len(s)
  PROVE  /\ Slice(s, lo, hi) \in Seq(S) /\ Len(Slice(s, lo, hi)) = hi - lo
         /\ \A i \in 1..(hi - lo) : Slice(s, lo, hi)[i] = s[lo + i]
<1>1. lo + 1 \in 1..(Len(s) + 1) /\ hi \in lo..Len(s) OBVIOUS
<1>2. SubSeq(s, lo + 1, hi) \in Seq(S)
  <2>1. \A i \in (lo + 1)..hi : s[i] \in S OBVIOUS
  <2> QED BY <2>1, SubSeqProperties
<1>3. /\ Len(SubSeq(s, lo + 1, hi)) = hi - lo
      /\ \A i \in 1..(hi - lo) : SubSeq(s, lo + 1, hi)[i] = s[lo + i]
  <2>1. Len(SubSeq(s, lo + 1, hi)) = IF lo + 1 <= hi THEN (hi - (lo + 1)) + 1 ELSE 0 BY SubSeqProperties
  <2>2. \A i \in 1..(hi - lo) : (lo + 1) + i - 1 = lo + i /\ i \in 1..((hi - (lo + 1)) + 1) OBVIOUS
  <2> QED BY <2>1, <2>2
<1> QED BY <1>2, <1>3 DEF Slice

(* One sequence behind the other, byte by byte. *)
LEMMA ConcatOf ==
  ASSUME NEW S, NEW s \in Seq(S), NEW t \in Seq(S)
  PROVE  /\ s \o t \in Seq(S) /\ Len(s \o t) = Len(s) + Len(t)
         /\ \A i \in 1..Len(s) : (s \o t)[i] = s[i]
         /\ \A j \in 1..Len(t) : (s \o t)[Len(s) + j] = t[j]
OBVIOUS

(* What the type and the shape of a ring say about the numbers in it. *)
LEMMA RingFacts ==
  ASSUME NEW S, NEW b \in Rings(S)
  PROVE  /\ b.buf \in Seq(S) /\ Len(b.buf) \in Nat /\ b.r \in Nat /\ b.w \in Nat /\ b.empty \in BOOLEAN
         /\ Len(b.buf) > 0 => b.r < Len(b.buf) /\ b.w < Len(b.buf)
         /\ Len(b.buf) = 0 => b.empty
         /\ b.empty => b.r = 0 /\ b.w = 0
         /\ Buffered(b) = IF b.empty THEN 0 ELSE IF b.w > b.r THEN b.w - b.r ELSE (Len(b.buf) - b.r) + b.w
         /\ Buffered(b) \in 0..Len(b.buf)
         /\ (Buffered(b) = 0) <=> b.empty
         /\ Available(b) = Len(b.buf) - Buffered(b)
<1>1. /\ b.buf \in Seq(S) /\ b.r \in Nat /\ b.w \in Nat /\ b.empty \in BOOLEAN /\ Shape(b)
  BY DEF Rings
<1>2. Len(b.buf) \in Nat /\ (Len(b.buf) = 0 <=> b.buf = << >>) BY <1>1
<1>3. /\ Len(b.buf) > 0 => b.r < Len(b.buf) /\ b.w < Len(b.buf)
      /\ Len(b.buf) = 0 => b.empty
      /\ b.empty => b.r = 0 /\ b.w = 0
  BY <1>1, <1>2 DEF Shape
<1>4. Buffered(b) = IF b.empty THEN 0 ELSE IF b.w > b.r THEN b.w - b.r ELSE (Len(b.buf) - b.r) + b.w
  BY <1>1, <1>2, <1>3 DEF Buffered, Size
<1>5. Available(b) = IF b.empty THEN Len(b.buf) ELSE IF b.w < b.r THEN b.r - b.w
                     ELSE IF b.w = b.r THEN 0 ELSE (Len(b.buf) - b.w) + b.r
  BY <1>1, <1>2, <1>3 DEF Available, Size
<1>6. Buffered(b) \in 0..Len(b.buf) /\ ((Buffered(b) = 0) <=> b.empty)
  BY <1>1, <1>2, <1>3, <1>4
<1>7. Available(b) = Len(b.buf) - Buffered(b) BY <1>1, <1>2, <1>3, <1>4, <1>5
<1> QED BY <1>1, <1>2, <1>3, <1>4, <1>6, <1>7

(* Bytes, byte by byte. *)
LEMMA BytesOf ==
  ASSUME NEW S, NEW b \in Rings(S)
  PROVE  /\ Bytes(b) \in Seq(S) /\ Len(Bytes(b)) = Buffered(b)
         /\ \A i \in 1..Buffered(b) : ReadSlot(b, i) \in 1..Len(b.buf) /\ Bytes(b)[i] = b.buf[ReadSlot(b, i)]
<1> DEFINE s == Len(b.buf)
<1>1. /\ b.buf \in Seq(S) /\ s \in Nat /\ b.r \in Nat /\ b.w \in Nat /\ b.empty \in BOOLEAN
      /\ s > 0 => b.r < s /\ b.w < s
      /\ s = 0 => b.empty
      /\ b.empty => b.r = 0 /\ b.w = 0
      /\ Buffered(b) = IF b.empty THEN 0 ELSE IF b.w > b.r THEN b.w - b.r ELSE (s - b.r) + b.w
      /\ Buffered(b) \in 0..s
  BY RingFacts
<1>2. CASE b.empty
  <2>1. Bytes(b) = << >> /\ Buffered(b) = 0 BY <1>1, <1>2 DEF Bytes
  <2> QED BY <2>1
<1>3. CASE ~b.empty /\ b.w > b.r
  <2>1. Bytes(b) = Slice(b.buf, b.r, b.w) /\ Buffered(b) = b.w - b.r BY <1>1, <1>3 DEF Bytes
  <2>2. /\ Bytes(b) \in Seq(S) /\ Len(Bytes(b)) = b.w - b.r
        /\ \A i \in 1..(b.w - b.r) : Bytes(b)[i] = b.buf[b.r + i]
    <3> DEFINE v == b.buf
               lo == b.r
               hi == b.w
               u == Bytes(b)
    <3>1. v \in Seq(S) /\ lo \in Nat /\ hi \in Nat /\ lo <= hi /\ hi <= Len(v) BY <1>1, <1>3
    <3>2. u = Slice(v, lo, hi) BY <2>1
    <3> HIDE DEF v, lo, hi, u
    <3>3. u \in Seq(S) /\ Len(u) = hi - lo /\ \A i \in 1..(hi - lo) : u[i] = v[lo + i]
      BY ONLY <3>1, <3>2, SliceOf
    <3> QED BY <3>3 DEF v, lo, hi, u
  <2>3. \A i \in 1..(b.w - b.r) : ReadSlot(b, i) = b.r + i /\ b.r + i \in 1..s BY <1>1, <1>3 DEF ReadSlot
  <2> QED BY <2>1, <2>2, <2>3
<1>4. CASE ~b.empty /\ ~(b.w > b.r)
  <2> DEFINE h == Slice(b.buf, b.r, s)
             t == Slice(b.buf, 0, b.w)
  <2>1. Bytes(b) = h \o t /\ Buffered(b) = (s - b.r) + b.w BY <1>1, <1>4 DEF Bytes, Size
  <2>2. /\ h \in Seq(S) /\ Len(h) = s - b.r /\ \A i \in 1..(s - b.r) : h[i] = b.buf[b.r + i]
    <3> DEFINE v == b.buf
               lo == b.r
    <3>1. v \in Seq(S) /\ lo \in Nat /\ s \in Nat /\ lo <= s /\ s <= Len(v) BY <1>1, <1>4
    <3>2. h = Slice(v, lo, s) OBVIOUS
    <3> HIDE DEF h, s, v, lo
    <3>3. h \in Seq(S) /\ Len(h) = s - lo /\ \A i \in 1..(s - lo) : h[i] = v[lo + i]
      BY ONLY <3>1, <3>2, SliceOf
    <3> QED BY <3>3 DEF v, lo
  <2>3. /\ t \in Seq(S) /\ Len(t) = b.w /\ \A i \in 1..b.w : t[i] = b.buf[i]
    <3> DEFINE v == b.buf
               lo == 0
               hi == b.w
    <3>1. v \in Seq(S) /\ lo \in Nat /\ hi \in Nat /\ lo <= hi /\ hi <= Len(v) BY <1>1, <1>4
    <3>2. t = Slice(v, lo, hi) OBVIOUS
    <3>4. hi - lo = hi /\ \A i \in 1..hi : lo + i = i BY <3>1
    <3> HIDE DEF t, v, lo, hi
    <3>3. t \in Seq(S) /\ Len(t) = hi - lo /\ \A i \in 1..(hi - lo) : t[i] = v[lo + i]
      BY ONLY <3>1, <3>2, SliceOf
    <3>5. t \in Seq(S) /\ Len(t) = hi /\ \A i \in 1..hi : t[i] = v[i] BY ONLY <3>3, <3>4
    <3> QED BY <3>5 DEF v, hi
  <2> HIDE DEF h, t
  <2>c. /\ Bytes(b) \in Seq(S) /\ Len(Bytes(b)) = Len(h) + Len(t)
        /\ \A i \in 1..Len(h) : Bytes(b)[i] = h[i]
        /\ \A k \in 1..Len(t) : Bytes(b)[Len(h) + k] = t[k]
    <3> DEFINE g == Bytes(b)
    <3>1. g = h \o t /\ h \in Seq(S) /\ t \in Seq(S) BY <2>1, <2>2, <2>3
    <3> HIDE DEF g
    <3>2. /\ g \in Seq(S) /\ Len(g) = Len(h) + Len(t)
          /\ \A i \in 1..Len(h) : g[i] = h[i]
          /\ \A k \in 1..Len(t) : g[Len(h) + k] = t[k]
      BY ONLY <3>1, ConcatOf
    <3> QED BY <3>2 DEF g
  <2>4. Bytes(b) \in Seq(S) /\ Len(Bytes(b)) = Buffered(b) BY <1>1, <2>1, <2>2, <2>3, <2>c
  <2>5. ASSUME NEW i \in 1..Buffered(b)
        PROVE  ReadSlot(b, i) \in 1..s /\ Bytes(b)[i] = b.buf[ReadSlot(b, i)]
    <3>1. CASE i <= s - b.r
      <4>1. ReadSlot(b, i) = b.r + i /\ i \in 1..(s - b.r) BY <1>1, <3>1 DEF ReadSlot
      <4>2. Bytes(b)[i] = h[i] BY <2>2, <2>c, <4>1
      <4> QED BY <1>1, <2>2, <4>1, <4>2
    <3>2. CASE ~(i <= s - b.r)
      <4> DEFINE j == i - (s - b.r)
      <4>0. i \in Int /\ i <= (s - b.r) + b.w /\ s \in Nat /\ b.r \in Nat /\ b.w \in Nat /\ ~(i <= s - b.r)
        BY <1>1, <2>1, <3>2
      <4>r. ReadSlot(b, i) = IF b.r + i <= s THEN b.r + i ELSE (b.r + i) - s BY DEF ReadSlot
      <4>1. ReadSlot(b, i) = j /\ j \in 1..b.w /\ i = (s - b.r) + j
        <5> HIDE DEF s
        <5> QED BY ONLY <4>0, <4>r
      <4>2. Bytes(b)[i] = t[j] BY <2>2, <2>3, <2>c, <4>1
      <4>3. j \in 1..s BY <1>1, <1>4, <4>1
      <4> HIDE DEF j
      <4> QED BY <2>3, <4>1, <4>2, <4>3
    <3> QED BY <3>1, <3>2
  <2> QED BY <2>4, <2>5
<1> QED BY <1>1, <1>2, <1>3, <1>4

(* The sequence that is buffered is Bytes. *)
LEMMA BytesAre ==
  ASSUME NEW S, NEW b \in Rings(S), NEW c \in Seq(S), Len(c) = Buffered(b),
         \A i \in 1..Len(c) : c[i] = b.buf[ReadSlot(b, i)]
  PROVE  Bytes(b) = c
<1>1. /\ Bytes(b) \in Seq(S) /\ Len(Bytes(b)) = Buffered(b)
      /\ \A i \in 1..Buffered(b) : Bytes(b)[i] = b.buf[ReadSlot(b, i)]
  BY BytesOf
<1>2. \A i \in 1..Len(Bytes(b)) : Bytes(b)[i] = c[i] BY <1>1
<1> QED BY <1>1, <1>2, SeqEqual

(* A record whose fields agree is a ring. *)
LEMMA RingIs ==
  ASSUME NEW S, NEW buf \in Seq(S), NEW r \in Nat, NEW w \in Nat, NEW empty \in BOOLEAN,
         Len(buf) > 0 => r < Len(buf) /\ w < Len(buf),
         Len(buf) = 0 => empty,
         empty => r = 0 /\ w = 0
  PROVE  [buf |-> buf, r |-> r, w |-> w, empty |-> empty] \in Rings(S)
<1> DEFINE b == [buf |-> buf, r |-> r, w |-> w, empty |-> empty]
<1>1. Len(buf) \in Nat /\ (Len(buf) = 0 <=> buf = << >>) OBVIOUS
<1>2. b \in [buf : Seq(S), r : Nat, w : Nat, empty : BOOLEAN] OBVIOUS
<1>3. b.buf = buf /\ b.r = r /\ b.w = w /\ b.empty = empty OBVIOUS
<1>4. Shape(b)
  <2> HIDE DEF b
  <2>1. r \in 0..Len(buf) /\ w \in 0..Len(buf) BY <1>1
  <2> QED BY <1>1, <1>3, <2>1 DEF Shape
<1> HIDE DEF b
<1>5. b \in Rings(S) BY <1>2, <1>4 DEF Rings
<1> QED BY <1>5 DEF b

(* A ring whose read position is changed. *)
LEMMA RingExcept ==
  ASSUME NEW S, NEW b \in Rings(S), NEW x
  PROVE  [b EXCEPT !.r = x] = [buf |-> b.buf, r |-> x, w |-> b.w, empty |-> b.empty]
<1> DEFINE f == [b EXCEPT !.r = x]
<1>1. b \in [buf : Seq(S), r : Nat, w : Nat, empty : BOOLEAN] BY DEF Rings
<1>2. f \in [buf : {b.buf}, r : {x}, w : {b.w}, empty : {b.empty}] BY <1>1
<1> HIDE DEF f
<1>3. f = [buf |-> b.buf, r |-> x, w |-> b.w, empty |-> b.empty] BY <1>2
<1> QED BY <1>3 DEF f

-----------------------------------------------------------------------------
(* Taking bytes out *)

(* Reset leaves an empty ring of the same size. *)
LEMMA ResetEmpties ==
  ASSUME NEW S, NEW b \in Rings(S)
  PROVE  Reset(b) \in Rings(S) /\ Bytes(Reset(b)) = << >> /\ Reset(b).buf = b.buf
<1>1. b.buf \in Seq(S) BY RingFacts
<1>2. Reset(b) = [buf |-> b.buf, r |-> 0, w |-> 0, empty |-> TRUE]
  <2>1. b \in [buf : Seq(S), r : Nat, w : Nat, empty : BOOLEAN] BY DEF Rings
  <2>2. Reset(b) \in [buf : {b.buf}, r : {0}, w : {0}, empty : {TRUE}] BY <2>1 DEF Reset
  <2> QED BY <2>2
<1>3. [buf |-> b.buf, r |-> 0, w |-> 0, empty |-> TRUE] \in Rings(S)
  <2>1. Len(b.buf) > 0 => 0 < Len(b.buf) OBVIOUS
  <2> QED BY <1>1, <2>1, RingIs
<1> QED BY <1>2, <1>3 DEF Bytes

(* The arithmetic of the read position m that has moved over n of the bytes. *)
LEMMA Moved ==
  ASSUME NEW s \in Nat, NEW r \in Nat, NEW w \in Nat, NEW n \in Nat, NEW i \in Nat \ {0}, NEW m,
         r < s, w < s, NEW k, k = IF w > r THEN w - r ELSE (s - r) + w, n < k,
         m = IF r + n < s THEN r + n ELSE (r + n) - s
  PROVE  /\ (IF w > m THEN w - m ELSE (s - m) + w) = k - n
         /\ i <= k - n => (IF m + i <= s THEN m + i ELSE (m + i) - s)
                           = IF r + (n + i) <= s THEN r + (n + i) ELSE (r + (n + i)) - s
OBVIOUS

(* The read position moves over n bytes of more than n. *)
LEMMA SkipFront ==
  ASSUME NEW S, NEW b \in Rings(S), ~b.empty, NEW n \in Nat, n < Buffered(b),
         NEW m, m = IF b.r + n < Len(b.buf) THEN b.r + n ELSE (b.r + n) - Len(b.buf),
         NEW h, h = [buf |-> b.buf, r |-> m, w |-> b.w, empty |-> FALSE]
  PROVE  h \in Rings(S) /\ Bytes(h) = SubSeq(Bytes(b), n + 1, Buffered(b))
<1> DEFINE s == Len(b.buf)
<1>1. /\ b.buf \in Seq(S) /\ s \in Nat \ {0} /\ b.r \in Nat /\ b.w \in Nat
      /\ b.r < s /\ b.w < s
      /\ Buffered(b) = IF b.w > b.r THEN b.w - b.r ELSE (s - b.r) + b.w
      /\ Buffered(b) \in 1..s
  BY RingFacts
<1>3. m \in Nat /\ m < s
  <2>1. CASE b.r + n < s BY <1>1, <2>1
  <2>2. CASE ~(b.r + n < s)
    <3> DEFINE r == b.r
    <3>1. s \in Nat /\ r \in Nat /\ n \in Nat /\ m = (r + n) - s /\ n <= s /\ r < s /\ ~(r + n < s) BY <1>1, <2>2
    <3> HIDE DEF r, s
    <3> QED BY ONLY <3>1
  <2> QED BY <2>1, <2>2
<1>4. h.buf = b.buf /\ h.r = m /\ h.w = b.w /\ h.empty = FALSE OBVIOUS
<1>5. h \in Rings(S) BY <1>1, <1>3, RingIs
<1>6. Buffered(h) = IF b.w > m THEN b.w - m ELSE (s - m) + b.w BY <1>4, <1>5, RingFacts
<1>7. Buffered(h) = Buffered(b) - n
  <2>1. (IF b.w > m THEN b.w - m ELSE (s - m) + b.w) = Buffered(b) - n
    <3> DEFINE r == b.r
               w == b.w
               k == Buffered(b)
    <3>1. /\ s \in Nat /\ r \in Nat /\ w \in Nat /\ n \in Nat /\ 1 \in Nat \ {0} /\ r < s /\ w < s /\ n < k
          /\ k = IF w > r THEN w - r ELSE (s - r) + w
          /\ m = IF r + n < s THEN r + n ELSE (r + n) - s
      BY <1>1
    <3> HIDE DEF s, r, w, k
    <3>2. (IF w > m THEN w - m ELSE (s - m) + w) = k - n BY ONLY <3>1, Moved
    <3> QED BY <3>2 DEF r, w, k
  <2> QED BY <1>6, <2>1
<1> DEFINE c == SubSeq(Bytes(b), n + 1, Buffered(b))
<1>8. /\ Bytes(b) \in Seq(S) /\ Len(Bytes(b)) = Buffered(b)
      /\ \A i \in 1..Buffered(b) : Bytes(b)[i] = b.buf[ReadSlot(b, i)]
  BY BytesOf
<1>9. c \in Seq(S) /\ Len(c) = Buffered(b) - n /\ \A i \in 1..(Buffered(b) - n) : c[i] = Bytes(b)[n + i]
  <2>1. n <= Buffered(b) /\ Buffered(b) <= Len(Bytes(b)) /\ Buffered(b) \in Nat BY <1>1, <1>8
  <2> QED BY <1>8, <2>1, SliceOf DEF Slice
<1> HIDE DEF c
<1>10. ASSUME NEW i \in 1..(Buffered(b) - n) PROVE c[i] = h.buf[ReadSlot(h, i)]
  <2>1. n + i \in 1..Buffered(b) BY <1>1
  <2>2. ReadSlot(h, i) = IF m + i <= s THEN m + i ELSE (m + i) - s BY <1>4 DEF ReadSlot
  <2>3. ReadSlot(b, n + i) = IF b.r + (n + i) <= s THEN b.r + (n + i) ELSE (b.r + (n + i)) - s BY DEF ReadSlot
  <2>4. i \in Nat \ {0} /\ i <= Buffered(b) - n BY <1>1
  <2>5. (IF m + i <= s THEN m + i ELSE (m + i) - s)
          = IF b.r + (n + i) <= s THEN b.r + (n + i) ELSE (b.r + (n + i)) - s
    <3> DEFINE r == b.r
               w == b.w
               k == Buffered(b)
    <3>1. /\ s \in Nat /\ r \in Nat /\ w \in Nat /\ n \in Nat /\ i \in Nat \ {0} /\ r < s /\ w < s /\ n < k
          /\ k = IF w > r THEN w - r ELSE (s - r) + w
          /\ m = IF r + n < s THEN r + n ELSE (r + n) - s
          /\ i <= k - n
      BY <1>1, <2>4
    <3> HIDE DEF s, r, w, k
    <3>2. (IF m + i <= s THEN m + i ELSE (m + i) - s)
            = IF r + (n + i) <= s THEN r + (n + i) ELSE (r + (n + i)) - s
      BY ONLY <3>1, Moved
    <3> QED BY <3>2 DEF r
  <2>6. ReadSlot(h, i) = ReadSlot(b, n + i) BY <2>2, <2>3, <2>5
  <2> QED BY <1>4, <1>8, <1>9, <2>1, <2>6
<1>11. Bytes(h) = c BY <1>5, <1>7, <1>9, <1>10, BytesAre
<1> QED BY <1>5, <1>11 DEF c

(* The read position, modulo the size. *)
LEMMA Modulo ==
  ASSUME NEW s \in Nat \ {0}, NEW a \in Nat, NEW n \in Nat, a < s, n <= s
  PROVE  (a + n) % s = IF a + n < s THEN a + n ELSE (a + n) - s
<1>1. a + n \in Nat /\ a + n < s + s OBVIOUS
<1>2. CASE a + n < s BY <1>1, <1>2, ModSmall
<1>3. CASE ~(a + n < s) BY <1>1, <1>3, ModOnce
<1> QED BY <1>2, <1>3

(* Discard of n bytes takes exactly the first n away, or all if there are fewer
   (ring_buffer.go, Discard). *)
THEOREM DiscardDrops ==
  ASSUME NEW S, NEW b \in Rings(S), NEW n \in Int
  PROVE  /\ Discard(b, n) \in Rings(S)
         /\ n <= 0 => Discard(b, n) = b
         /\ n > 0 /\ n < Buffered(b) => Bytes(Discard(b, n)) = SubSeq(Bytes(b), n + 1, Buffered(b))
         /\ n > 0 /\ n >= Buffered(b) => Bytes(Discard(b, n)) = << >>
<1>1. Buffered(b) \in Nat /\ (Buffered(b) = 0 <=> b.empty) /\ b.empty \in BOOLEAN BY RingFacts
<1>2. CASE n <= 0
  <2>1. Discard(b, n) = b BY <1>2 DEF Discard
  <2> QED BY <1>2, <2>1
<1>3. CASE n > 0 /\ n < Buffered(b)
  <2>1. ~b.empty BY <1>1, <1>3
  <2>2. Discard(b, n) = [b EXCEPT !.r = (@ + n) % Len(b.buf)] BY <1>1, <1>3 DEF Discard, Size
  <2> DEFINE m == (b.r + n) % Len(b.buf)
  <2>3. Discard(b, n) = [buf |-> b.buf, r |-> m, w |-> b.w, empty |-> FALSE]
    <3>1. b.empty = FALSE BY <1>1, <2>1
    <3> QED BY <2>2, <3>1, RingExcept
  <2>4. n \in Nat BY <1>3
  <2>5. m = IF b.r + n < Len(b.buf) THEN b.r + n ELSE (b.r + n) - Len(b.buf)
    <3>1. /\ Len(b.buf) \in Nat \ {0} /\ b.r \in Nat /\ b.r < Len(b.buf) /\ n <= Len(b.buf)
      BY <1>3, <2>1, <2>4, RingFacts
    <3> QED BY <2>4, <3>1, Modulo
  <2> HIDE DEF m
  <2>6. /\ Discard(b, n) \in Rings(S)
        /\ Bytes(Discard(b, n)) = SubSeq(Bytes(b), n + 1, Buffered(b))
    BY <1>3, <2>1, <2>3, <2>4, <2>5, SkipFront
  <2>7. ~(n <= 0) /\ ~(n >= Buffered(b)) BY <1>1, <1>3
  <2> QED BY <2>6, <2>7
<1>4. CASE n > 0 /\ n >= Buffered(b)
  <2>1. Discard(b, n) = Reset(b) BY <1>1, <1>4 DEF Discard
  <2> QED BY <1>1, <1>4, <2>1, ResetEmpties
<1> QED BY <1>1, <1>2, <1>3, <1>4

(* Advance over n bytes, of which there are as many. *)
LEMMA AdvanceDrops ==
  ASSUME NEW S, NEW b \in Rings(S), ~b.empty, NEW n \in Nat, n <= Buffered(b)
  PROVE  /\ Advance(b, n) \in Rings(S)
         /\ n > 0 \/ b.r # b.w => Bytes(Advance(b, n)) = SubSeq(Bytes(b), n + 1, Buffered(b))
<1> DEFINE s == Len(b.buf)
           m == (b.r + n) % s
<1>1. /\ b.buf \in Seq(S) /\ s \in Nat \ {0} /\ b.r \in Nat /\ b.w \in Nat /\ b.empty \in BOOLEAN
      /\ b.r < s /\ b.w < s
      /\ Buffered(b) = IF b.w > b.r THEN b.w - b.r ELSE (s - b.r) + b.w
      /\ Buffered(b) \in 1..s
  BY RingFacts
<1>2. m = IF b.r + n < s THEN b.r + n ELSE (b.r + n) - s
  <2>1. n <= s BY <1>1
  <2> QED BY <1>1, <2>1, Modulo
<1>3. Advance(b, n) = IF m = b.w THEN Reset(b) ELSE [b EXCEPT !.r = m] BY DEF Advance, Size
<1> HIDE DEF m
<1>4. [b EXCEPT !.r = m] = [buf |-> b.buf, r |-> m, w |-> b.w, empty |-> FALSE]
  <2>1. b.empty = FALSE BY <1>1
  <2> QED BY <2>1, RingExcept
<1>5. CASE n < Buffered(b) /\ m # b.w
  <2>1. Advance(b, n) = [buf |-> b.buf, r |-> m, w |-> b.w, empty |-> FALSE] BY <1>3, <1>4, <1>5
  <2> QED BY <1>2, <1>5, <2>1, SkipFront
<1>6. CASE m = b.w
  <2>1. Advance(b, n) = Reset(b) BY <1>3, <1>6
  <2>2. Advance(b, n) \in Rings(S) /\ Bytes(Advance(b, n)) = << >> BY <2>1, ResetEmpties
  <2>3. n > 0 \/ b.r # b.w => n = Buffered(b) BY <1>1, <1>2, <1>6
  <2>4. Bytes(b) \in Seq(S) /\ Len(Bytes(b)) = Buffered(b) BY BytesOf
  <2>5. SubSeq(Bytes(b), Buffered(b) + 1, Buffered(b)) = << >> BY <1>1, <2>4, SubSeqEmpty
  <2> QED BY <2>2, <2>3, <2>5
<1>7. n = Buffered(b) => m = b.w
  <2> DEFINE r == b.r
             w == b.w
             k == Buffered(b)
  <2>1. /\ s \in Nat /\ r \in Nat /\ w \in Nat /\ r < s /\ w < s
        /\ k = IF w > r THEN w - r ELSE (s - r) + w
        /\ m = IF r + n < s THEN r + n ELSE (r + n) - s
    BY <1>1, <1>2
  <2> HIDE DEF s, r, w, k
  <2>2. n = k => m = w BY ONLY <2>1
  <2> QED BY <2>2 DEF k, w
<1> QED BY <1>1, <1>5, <1>6, <1>7

(* The first bytes of a sequence, one by one. *)
LEMMA FrontOf ==
  ASSUME NEW S, NEW s \in Seq(S), NEW m \in Nat, m <= Len(s)
  PROVE  /\ SubSeq(s, 1, m) \in Seq(S) /\ Len(SubSeq(s, 1, m)) = m
         /\ \A i \in 1..m : SubSeq(s, 1, m)[i] = s[i]
<1>1. /\ Slice(s, 0, m) \in Seq(S) /\ Len(Slice(s, 0, m)) = m - 0
      /\ \A i \in 1..(m - 0) : Slice(s, 0, m)[i] = s[0 + i]
  BY SliceOf, 0 \in Nat, 0 <= m
<1>2. Slice(s, 0, m) = SubSeq(s, 1, m) BY DEF Slice
<1>3. m - 0 = m /\ \A i \in 1..m : 0 + i = i OBVIOUS
<1> QED BY <1>1, <1>2, <1>3

(* The two slices of a ring that Peek returns for m bytes. *)
Parts(b, m) == IF b.r + m <= Size(b)
               THEN <<Slice(b.buf, b.r, b.r + m), << >>>>
               ELSE <<Slice(b.buf, b.r, Size(b)), Slice(b.buf, 0, m - (Size(b) - b.r))>>

(* They are the first m bytes, one behind the other. *)
LEMMA PartsAreFront ==
  ASSUME NEW S, NEW b \in Rings(S), NEW m \in Nat, m <= Buffered(b)
  PROVE  /\ Parts(b, m)[1] \in Seq(S) /\ Parts(b, m)[2] \in Seq(S)
         /\ Parts(b, m)[1] \o Parts(b, m)[2] = SubSeq(Bytes(b), 1, m)
<1> DEFINE s == Len(b.buf)
           f == SubSeq(Bytes(b), 1, m)
<1>1. /\ b.buf \in Seq(S) /\ s \in Nat /\ b.r \in Nat /\ b.w \in Nat
      /\ s > 0 => b.r < s /\ b.w < s
      /\ s = 0 => b.r = 0
      /\ Buffered(b) \in 0..s
  BY RingFacts
<1>2. /\ Bytes(b) \in Seq(S) /\ Len(Bytes(b)) = Buffered(b)
      /\ \A i \in 1..Buffered(b) : Bytes(b)[i] = b.buf[ReadSlot(b, i)]
  BY BytesOf
<1>3. f \in Seq(S) /\ Len(f) = m /\ \A i \in 1..m : f[i] = b.buf[ReadSlot(b, i)]
  <2>1. f \in Seq(S) /\ Len(f) = m /\ \A i \in 1..m : f[i] = Bytes(b)[i] BY <1>2, FrontOf
  <2>2. \A i \in 1..m : i \in 1..Buffered(b) BY <1>1
  <2> QED BY <1>2, <2>1, <2>2
<1> HIDE DEF f
<1>4. CASE b.r + m <= s
  <2> DEFINE h == Slice(b.buf, b.r, b.r + m)
  <2>1. Parts(b, m) = <<h, << >>>> BY <1>4 DEF Parts, Size
  <2>2. h \in Seq(S) /\ Len(h) = (b.r + m) - b.r /\ \A i \in 1..((b.r + m) - b.r) : h[i] = b.buf[b.r + i]
    <3> DEFINE hi == b.r + m
               lo == b.r
               v == b.buf
    <3>1. v \in Seq(S) /\ lo \in Nat /\ hi \in Nat /\ lo <= hi /\ hi <= Len(v) BY <1>1, <1>4
    <3>2. h = Slice(v, lo, hi) OBVIOUS
    <3> HIDE DEF hi, lo, v, h
    <3>3. h \in Seq(S) /\ Len(h) = hi - lo /\ \A i \in 1..(hi - lo) : h[i] = v[lo + i]
      BY ONLY <3>1, <3>2, SliceOf
    <3> QED BY <3>3 DEF hi, lo, v
  <2> HIDE DEF h
  <2>3. (b.r + m) - b.r = m BY <1>1
  <2>4. \A i \in 1..m : ReadSlot(b, i) = b.r + i BY <1>1, <1>4 DEF ReadSlot
  <2>5. h = f
    <3>1. Len(h) = Len(f) /\ \A i \in 1..Len(f) : h[i] = f[i] BY <1>3, <2>2, <2>3, <2>4
    <3> QED BY <1>3, <2>2, <3>1, SeqEqual
  <2>6. Parts(b, m)[1] = h /\ Parts(b, m)[2] = << >> /\ << >> \in Seq(S) BY <2>1
  <2>7. h \o << >> = h BY <2>2, ConcatEmptySeq
  <2> QED BY <2>2, <2>5, <2>6, <2>7 DEF f
<1>5. CASE ~(b.r + m <= s)
  <2> DEFINE h == Slice(b.buf, b.r, s)
             t == Slice(b.buf, 0, m - (s - b.r))
             k == m - (s - b.r)
  <2>0. k \in Nat /\ k <= s /\ b.r <= s BY <1>1, <1>5
  <2>1. Parts(b, m) = <<h, t>> BY <1>5 DEF Parts, Size
  <2>2. h \in Seq(S) /\ Len(h) = s - b.r /\ \A i \in 1..(s - b.r) : h[i] = b.buf[b.r + i]
    <3> DEFINE lo == b.r
               hi == Len(b.buf)
               v == b.buf
    <3>1. v \in Seq(S) /\ lo \in Nat /\ hi \in Nat /\ lo <= hi /\ hi <= Len(v) BY <1>1, <2>0
    <3>2. h = Slice(v, lo, hi) OBVIOUS
    <3> HIDE DEF hi, lo, v, h
    <3>3. h \in Seq(S) /\ Len(h) = hi - lo /\ \A i \in 1..(hi - lo) : h[i] = v[lo + i]
      BY ONLY <3>1, <3>2, SliceOf
    <3> QED BY <3>3 DEF hi, lo, v
  <2>3. t \in Seq(S) /\ Len(t) = k /\ \A i \in 1..k : t[i] = b.buf[i]
    <3>1. Slice(b.buf, 0, k) = SubSeq(b.buf, 1, k) BY DEF Slice
    <3> HIDE DEF k
    <3>2. SubSeq(b.buf, 1, k) \in Seq(S) /\ Len(SubSeq(b.buf, 1, k)) = k
          /\ \A i \in 1..k : SubSeq(b.buf, 1, k)[i] = b.buf[i]
      BY <1>1, <2>0, FrontOf
    <3> QED BY <3>1, <3>2 DEF k
  <2> HIDE DEF h, t, k
  <2>4. /\ h \o t \in Seq(S) /\ Len(h \o t) = Len(h) + Len(t)
        /\ \A i \in 1..Len(h) : (h \o t)[i] = h[i]
        /\ \A j \in 1..Len(t) : (h \o t)[Len(h) + j] = t[j]
    <3>1. h \in Seq(S) /\ t \in Seq(S) BY <2>2, <2>3
    <3> QED BY <3>1, ConcatOf
  <2>5. Len(h \o t) = m BY <1>1, <2>2, <2>3, <2>4 DEF k
  <2>6. ASSUME NEW i \in 1..m PROVE (h \o t)[i] = f[i]
    <3>1. CASE i <= s - b.r
      <4>1. ReadSlot(b, i) = b.r + i /\ i \in 1..(s - b.r) BY <1>1, <3>1 DEF ReadSlot
      <4> QED BY <1>3, <2>2, <2>4, <4>1
    <3>2. CASE ~(i <= s - b.r)
      <4>1. PICK j \in 1..k : i = (s - b.r) + j /\ ReadSlot(b, i) = j
        <5>1. i - (s - b.r) \in 1..k /\ i = (s - b.r) + (i - (s - b.r)) /\ ReadSlot(b, i) = i - (s - b.r)
          BY <1>1, <3>2 DEF ReadSlot, k
        <5> QED BY <5>1
      <4>2. (h \o t)[i] = t[j] BY <2>2, <2>3, <2>4, <4>1
      <4> QED BY <1>3, <2>3, <4>1, <4>2
    <3> QED BY <3>1, <3>2
  <2>7. h \o t = f BY <1>3, <2>4, <2>5, <2>6, SeqEqual
  <2>8. Parts(b, m)[1] = h /\ Parts(b, m)[2] = t BY <2>1
  <2> QED BY <2>2, <2>3, <2>7, <2>8 DEF f
<1> QED BY <1>4, <1>5

(* Peek shows the first n bytes, or all that there are, and all for n <= 0
   (ring_buffer.go, Peek), whether or not they wrap round. *)
THEOREM PeekShowsFront ==
  ASSUME NEW S, NEW b \in Rings(S), NEW n \in Int
  PROVE  /\ Peek(b, n)[1] \in Seq(S) /\ Peek(b, n)[2] \in Seq(S)
         /\ n <= 0 => Peek(b, n)[1] \o Peek(b, n)[2] = Bytes(b)
         /\ n > 0 => Peek(b, n)[1] \o Peek(b, n)[2] = SubSeq(Bytes(b), 1, Least(n, Buffered(b)))
<1> DEFINE m == IF n <= 0 THEN Buffered(b) ELSE Least(n, Buffered(b))
<1>1. Buffered(b) \in Nat BY RingFacts
<1>2. m \in Nat /\ m <= Buffered(b) BY <1>1 DEF Least
<1>3. Peek(b, n) = Parts(b, m) BY DEF Peek, Parts
<1>4. /\ Peek(b, n)[1] \in Seq(S) /\ Peek(b, n)[2] \in Seq(S)
      /\ Peek(b, n)[1] \o Peek(b, n)[2] = SubSeq(Bytes(b), 1, m)
  <2> HIDE DEF m
  <2> QED BY <1>2, <1>3, PartsAreFront
<1>5. Bytes(b) \in Seq(S) /\ Len(Bytes(b)) = Buffered(b) BY BytesOf
<1>6. SubSeq(Bytes(b), 1, Buffered(b)) = Bytes(b) BY <1>5, SubSeqFull
<1>7. CASE n <= 0
  <2>1. m = Buffered(b) /\ ~(n > 0) BY <1>7
  <2> HIDE DEF m
  <2> QED BY <1>4, <1>6, <1>7, <2>1
<1>8. CASE n > 0
  <2>1. m = Least(n, Buffered(b)) /\ ~(n <= 0) BY <1>8
  <2> HIDE DEF m
  <2> QED BY <1>4, <1>8, <2>1
<1>9. n <= 0 \/ n > 0 OBVIOUS
<1> HIDE DEF m
<1> QED BY <1>7, <1>8, <1>9, Zenon

(* Read into n bytes returns the first n bytes, or all that there are, and leaves
   exactly the others (ring_buffer.go, Read). *)
THEOREM ReadTakesFront ==
  ASSUME NEW S, NEW b \in Rings(S), NEW n \in Nat, NEW m, m = Least(n, Buffered(b))
  PROVE  /\ Taken(b, n) = SubSeq(Bytes(b), 1, m)
         /\ Read(b, n) \in Rings(S)
         /\ Bytes(Read(b, n)) = SubSeq(Bytes(b), m + 1, Buffered(b))
<1>1. Buffered(b) \in Nat /\ (Buffered(b) = 0 <=> b.empty) /\ b.empty \in BOOLEAN BY RingFacts
<1>2. m \in Nat /\ m <= Buffered(b) BY <1>1 DEF Least
<1>3. Bytes(b) \in Seq(S) /\ Len(Bytes(b)) = Buffered(b) BY BytesOf
<1>4. CASE n = 0 \/ b.empty
  <2>1. m = 0 BY <1>1, <1>4 DEF Least
  <2>2. Taken(b, n) = << >> /\ Read(b, n) = b BY <1>4 DEF Taken, Read
  <2>3. SubSeq(Bytes(b), 1, 0) = << >> BY <1>3, SubSeqEmpty
  <2>4. SubSeq(Bytes(b), 1, Buffered(b)) = Bytes(b) BY <1>3, SubSeqFull
  <2>5. 0 + 1 = 1 OBVIOUS
  <2> QED BY <2>1, <2>2, <2>3, <2>4, <2>5
<1>5. CASE ~(n = 0 \/ b.empty)
  <2>1. n > 0 /\ m > 0 /\ ~b.empty BY <1>1, <1>5 DEF Least
  <2>2. Taken(b, n) = Peek(b, n)[1] \o Peek(b, n)[2] BY <1>5 DEF Taken
  <2>3. Peek(b, n)[1] \o Peek(b, n)[2] = SubSeq(Bytes(b), 1, m)
    <3>1. n \in Int OBVIOUS
    <3> QED BY <2>1, <3>1, PeekShowsFront
  <2>4. Read(b, n) = Advance(b, m) BY <1>5 DEF Read
  <2>5. /\ Advance(b, m) \in Rings(S)
        /\ m > 0 \/ b.r # b.w => Bytes(Advance(b, m)) = SubSeq(Bytes(b), m + 1, Buffered(b))
    BY <1>2, <2>1, AdvanceDrops
  <2> QED BY <2>1, <2>2, <2>3, <2>4, <2>5
<1> QED BY <1>4, <1>5

(* WriteTo a writer that takes k bytes leaves the others, unless it takes none of a
   ring that is full from its first slot on (ring_buffer.go, WriteTo). *)
THEOREM WriteToDrops ==
  ASSUME NEW S, NEW b \in Rings(S), ~b.empty, NEW k \in Nat, k <= Buffered(b)
  PROVE  /\ WriteTo(b, k) \in Rings(S)
         /\ ~(k = 0 /\ b.r = 0 /\ b.w = 0) =>
              Bytes(WriteTo(b, k)) = SubSeq(Bytes(b), k + 1, Buffered(b))
<1> DEFINE s == Len(b.buf)
<1>1. /\ s \in Nat \ {0} /\ b.r \in Nat /\ b.w \in Nat /\ b.r < s /\ b.w < s /\ b.empty \in BOOLEAN
      /\ Buffered(b) = IF b.w > b.r THEN b.w - b.r ELSE (s - b.r) + b.w
  BY RingFacts
<1>2. CASE b.w > b.r \/ b.w = 0 \/ k >= s - b.r
  <2>1. WriteTo(b, k) = Advance(b, k) BY <1>2 DEF WriteTo, Size
  <2>2. /\ Advance(b, k) \in Rings(S)
        /\ k > 0 \/ b.r # b.w => Bytes(Advance(b, k)) = SubSeq(Bytes(b), k + 1, Buffered(b))
    BY AdvanceDrops
  <2>3. ~(k = 0 /\ b.r = 0 /\ b.w = 0) => k > 0 \/ b.r # b.w BY <1>1, <1>2
  <2> QED BY <2>1, <2>2, <2>3
<1>3. CASE ~(b.w > b.r \/ b.w = 0 \/ k >= s - b.r)
  <2> DEFINE m == b.r + k
  <2>1. WriteTo(b, k) = [b EXCEPT !.r = m] BY <1>3 DEF WriteTo, Size
  <2>2. b.empty = FALSE BY <1>1
  <2>3. [b EXCEPT !.r = m] = [buf |-> b.buf, r |-> m, w |-> b.w, empty |-> FALSE] BY <2>2, RingExcept
  <2>4. m = IF b.r + k < Len(b.buf) THEN b.r + k ELSE (b.r + k) - Len(b.buf) BY <1>1, <1>3
  <2>5. k < Buffered(b) BY <1>1, <1>3
  <2> DEFINE h == [buf |-> b.buf, r |-> m, w |-> b.w, empty |-> FALSE]
  <2>6. WriteTo(b, k) = h BY <2>1, <2>3
  <2>7. h = [buf |-> b.buf, r |-> m, w |-> b.w, empty |-> FALSE] OBVIOUS
  <2> HIDE DEF m, h
  <2>8. h \in Rings(S) /\ Bytes(h) = SubSeq(Bytes(b), k + 1, Buffered(b))
    BY <2>4, <2>5, <2>7, SkipFront
  <2> QED BY <2>6, <2>8
<1> QED BY <1>2, <1>3

(* From an empty ring there is nothing to write: it is reset. *)
LEMMA WriteToOfEmpty ==
  ASSUME NEW S, NEW b \in Rings(S), b.empty, Size(b) > 0
  PROVE  WriteTo(b, 0) \in Rings(S) /\ Bytes(WriteTo(b, 0)) = << >>
<1>1. b.r = 0 /\ b.w = 0 /\ Size(b) \in Nat BY RingFacts DEF Size
<1>2. (b.r + 0) % Size(b) = 0
  <2> DEFINE s == Size(b)
  <2>1. s \in Nat \ {0} /\ 0 \in Nat /\ 0 < s BY <1>1
  <2> HIDE DEF s
  <2>2. 0 % s = 0 BY <2>1, ModSmall
  <2>3. b.r + 0 = 0 BY <1>1
  <2> QED BY <2>2, <2>3 DEF s
<1>3. Advance(b, 0) = Reset(b) BY <1>1, <1>2 DEF Advance
<1>4. WriteTo(b, 0) = Advance(b, 0) BY <1>1 DEF WriteTo
<1> QED BY <1>3, <1>4, ResetEmpties

(* What takes bytes out leaves the slots alone. *)
LEMMA TakingKeepsSlots ==
  ASSUME NEW S, NEW b \in Rings(S), NEW n \in Int
  PROVE  Discard(b, n).buf = b.buf /\ Read(b, n).buf = b.buf /\ WriteTo(b, n).buf = b.buf
<1>1. \A x : [b EXCEPT !.r = x].buf = b.buf
  <2> TAKE x
  <2>1. [b EXCEPT !.r = x] = [buf |-> b.buf, r |-> x, w |-> b.w, empty |-> b.empty] BY RingExcept
  <2> QED BY <2>1
<1>2. Reset(b).buf = b.buf BY ResetEmpties
<1>3. \A m : Advance(b, m).buf = b.buf BY <1>1, <1>2 DEF Advance
<1>4. Read(b, n).buf = b.buf BY <1>3 DEF Read
<1>5. WriteTo(b, n).buf = b.buf BY <1>1, <1>3 DEF WriteTo
<1>6. Discard(b, n).buf = b.buf BY <1>1, <1>2 DEF Discard
<1> QED BY <1>4, <1>5, <1>6

-----------------------------------------------------------------------------
(* Putting bytes in *)

(* copy(s[at:], p), byte by byte. *)
LEMMA CopyOf ==
  ASSUME NEW S, NEW s \in Seq(S), NEW p \in Seq(S), NEW at \in Nat, at + Len(p) <= Len(s)
  PROVE  /\ Copy(s, at, p) \in Seq(S) /\ Len(Copy(s, at, p)) = Len(s)
         /\ \A i \in 1..Len(s) :
              Copy(s, at, p)[i] = IF at < i /\ i <= at + Len(p) THEN p[i - at] ELSE s[i]
<1> DEFINE c == Copy(s, at, p)
           n == Len(s)
           k == Len(p)
<1>1. DOMAIN s = 1..n /\ DOMAIN p = 1..k /\ n \in Nat /\ k \in Nat OBVIOUS
<1>2. c = [i \in 1..n |-> IF i - at \in 1..k THEN p[i - at] ELSE s[i]] BY <1>1 DEF Copy
<1>3. \A i \in 1..n : i - at \in 1..k <=> at < i /\ i <= at + k BY <1>1
<1>4. \A i \in 1..k : p[i] \in S BY <1>1
<1>5. \A i \in 1..n : s[i] \in S BY <1>1
<1> HIDE DEF n, k, c
<1>6. \A i \in 1..n : c[i] = IF i - at \in 1..k THEN p[i - at] ELSE s[i] BY <1>2
<1>7. c \in [1..n -> S] BY <1>2, <1>4, <1>5
<1>8. c \in Seq(S) /\ Len(c) = n BY <1>1, <1>2, <1>7
<1>9. \A i \in 1..n : c[i] = IF at < i /\ i <= at + k THEN p[i - at] ELSE s[i] BY <1>3, <1>6
<1> QED BY <1>8, <1>9 DEF c, n, k

(* What a ring's slots hold once p is stored from w on, in two pieces. *)
LEMMA Stored ==
  ASSUME NEW S, NEW s \in Seq(S), NEW p \in Seq(S), NEW w \in Nat, w < Len(s), Len(p) <= Len(s),
         NEW right, right = Least(Len(s) - w, Len(p)),
         NEW q, q = Copy(Copy(s, w, Slice(p, 0, right)), 0, Slice(p, right, Len(p)))
  PROVE  /\ right \in Nat /\ right <= Len(p) /\ q \in Seq(S) /\ Len(q) = Len(s)
         /\ \A i \in 1..Len(s) : q[i] = IF i <= Len(p) - right THEN p[right + i]
                                        ELSE IF w < i /\ i <= w + right THEN p[i - w] ELSE s[i]
<1> DEFINE h == Slice(p, 0, right)
           t == Slice(p, right, Len(p))
           c == Copy(s, w, h)
           n == Len(p)
           z == Len(s)
<1>1. n \in Nat /\ z \in Nat OBVIOUS
<1>2. right \in Nat /\ right <= n /\ w + right <= z /\ 0 + (n - right) <= z BY <1>1 DEF Least
<1>3. h \in Seq(S) /\ Len(h) = right /\ \A i \in 1..right : h[i] = p[i]
  <2>1. h = SubSeq(p, 1, right) BY DEF Slice
  <2> HIDE DEF h
  <2> QED BY <1>2, <2>1, FrontOf
<1>4. t \in Seq(S) /\ Len(t) = n - right /\ \A i \in 1..(n - right) : t[i] = p[right + i]
  <2> DEFINE hi == Len(p)
  <2>1. p \in Seq(S) /\ hi \in Nat /\ right \in Nat /\ right <= hi /\ hi <= Len(p) BY <1>1, <1>2
  <2>2. t = Slice(p, right, hi) OBVIOUS
  <2> HIDE DEF hi, t
  <2>3. t \in Seq(S) /\ Len(t) = hi - right /\ \A i \in 1..(hi - right) : t[i] = p[right + i]
    BY ONLY <2>1, <2>2, SliceOf
  <2> QED BY <2>3 DEF hi
<1>5. q = Copy(c, 0, t) OBVIOUS
<1> HIDE DEF h, t
<1>6. /\ c \in Seq(S) /\ Len(c) = z
      /\ \A i \in 1..z : c[i] = IF w < i /\ i <= w + right THEN h[i - w] ELSE s[i]
  <2>1. w + Len(h) <= Len(s) BY <1>2, <1>3
  <2>2. /\ Copy(s, w, h) \in Seq(S) /\ Len(Copy(s, w, h)) = Len(s)
        /\ \A i \in 1..Len(s) :
             Copy(s, w, h)[i] = IF w < i /\ i <= w + Len(h) THEN h[i - w] ELSE s[i]
    BY <1>3, <2>1, CopyOf
  <2> QED BY <1>3, <2>2
<1> HIDE DEF c
<1>7. /\ q \in Seq(S) /\ Len(q) = z
      /\ \A i \in 1..z : q[i] = IF 0 < i /\ i <= 0 + (n - right) THEN t[i - 0] ELSE c[i]
  <2>1. 0 \in Nat /\ 0 + Len(t) <= Len(c) BY <1>2, <1>4, <1>6
  <2>2. /\ Copy(c, 0, t) \in Seq(S) /\ Len(Copy(c, 0, t)) = Len(c)
        /\ \A i \in 1..Len(c) :
             Copy(c, 0, t)[i] = IF 0 < i /\ i <= 0 + Len(t) THEN t[i - 0] ELSE c[i]
    BY <1>4, <1>6, <2>1, CopyOf
  <2> QED BY <1>4, <1>5, <1>6, <2>2
<1>8. ASSUME NEW i \in 1..z
      PROVE  q[i] = IF i <= n - right THEN p[right + i]
                    ELSE IF w < i /\ i <= w + right THEN p[i - w] ELSE s[i]
  <2>1. q[i] = IF 0 < i /\ i <= 0 + (n - right) THEN t[i - 0] ELSE c[i] BY <1>7
  <2>2. CASE i <= n - right
    <3>1. i \in 1..(n - right) /\ i - 0 = i /\ 0 < i /\ i <= 0 + (n - right) BY <1>1, <1>2, <2>2
    <3>2. q[i] = t[i] BY <2>1, <3>1
    <3> QED BY <1>4, <2>2, <3>1, <3>2
  <2>3. CASE ~(i <= n - right)
    <3>1. ~(i <= 0 + (n - right)) BY <1>1, <1>2, <2>3
    <3>2. q[i] = c[i] BY <2>1, <3>1
    <3>3. w < i /\ i <= w + right => i - w \in 1..right BY <1>2
    <3> QED BY <1>3, <1>6, <2>3, <3>2, <3>3
  <2> QED BY <2>2, <2>3
<1> QED BY <1>2, <1>7, <1>8

(* The arithmetic of n bytes stored behind k of a ring of s slots: how many are behind
   the write position m then, ... *)
LEMMA Stretched ==
  ASSUME NEW s \in Nat, NEW r \in Nat, NEW w \in Nat, NEW n \in Nat \ {0}, NEW k \in Nat, NEW m,
         r < s, w < s, k = 0 => r = 0 /\ w = 0,
         k > 0 => k = IF w > r THEN w - r ELSE (s - r) + w, n <= s - k,
         m = IF w + n < s THEN w + n ELSE (w + n) - s
  PROVE  (IF m > r THEN m - r ELSE (s - r) + m) = k + n
OBVIOUS

(* ... and the slots of the k that were there, none of which is written to. *)
LEMMA KeptSlot ==
  ASSUME NEW s \in Nat, NEW r \in Nat, NEW w \in Nat, NEW n \in Nat \ {0}, NEW k \in Nat,
         r < s, w < s, NEW i \in 1..k, n <= s - k,
         k = IF w > r THEN w - r ELSE (s - r) + w,
         NEW right, right = IF s - w < n THEN s - w ELSE n,
         NEW x, x = IF r + i <= s THEN r + i ELSE (r + i) - s
  PROVE  x \in 1..s /\ ~(x <= n - right) /\ ~(w < x /\ x <= w + right)
OBVIOUS

(* The slot of the new byte j, behind the k old ones, is one that was written with it. *)
LEMMA NewSlot ==
  ASSUME NEW s \in Nat, NEW r \in Nat, NEW w \in Nat, NEW k \in Nat, NEW n \in Nat, NEW j \in 1..n,
         r < s, w < s, n <= s - k,
         k = 0 => r = 0 /\ w = 0,
         k > 0 => k = IF w > r THEN w - r ELSE (s - r) + w,
         NEW right, right = IF s - w < n THEN s - w ELSE n,
         NEW x, x = IF r + (k + j) <= s THEN r + (k + j) ELSE (r + (k + j)) - s
  PROVE  /\ x \in 1..s
         /\ x <= n - right => right + x = j
         /\ ~(x <= n - right) => w < x /\ x <= w + right /\ x - w = j
<1>1. r + k = w \/ (r + k = w + s /\ k > 0)
  <2>1. CASE k = 0 BY <2>1
  <2>2. CASE k > 0 BY <2>2
  <2> QED BY <2>1, <2>2
<1>2. CASE r + k = w
  <2>1. x = IF w + j <= s THEN w + j ELSE (w + j) - s BY <1>2
  <2>2. CASE s - w < n BY <2>1, <2>2
  <2>3. CASE ~(s - w < n) BY <2>1, <2>3
  <2> QED BY <2>2, <2>3
<1>3. CASE r + k = w + s /\ k > 0
  <2>1. x = w + j /\ w + j <= s /\ n <= s - w /\ right = n BY <1>3
  <2> QED BY <2>1
<1> QED BY <1>1, <1>2, <1>3

(* p stored from the write position on, in a ring with room for it, is behind the
   bytes that were there. *)
LEMMA StoreAppends ==
  ASSUME NEW S, NEW b \in Rings(S), NEW p \in Seq(S), Len(p) > 0, Len(p) <= Available(b),
         NEW right, right = Least(Len(b.buf) - b.w, Len(p)),
         NEW q, q = Copy(Copy(b.buf, b.w, Slice(p, 0, right)), 0, Slice(p, right, Len(p))),
         NEW m, m = IF b.w + Len(p) < Len(b.buf) THEN b.w + Len(p) ELSE (b.w + Len(p)) - Len(b.buf),
         NEW h, h = [buf |-> q, r |-> b.r, w |-> m, empty |-> FALSE]
  PROVE  /\ h \in Rings(S) /\ Len(h.buf) = Len(b.buf)
         /\ Bytes(h) = Bytes(b) \o p
<1> DEFINE s == Len(b.buf)
           k == Buffered(b)
           n == Len(p)
           r == b.r
           w == b.w
<1>1. /\ b.buf \in Seq(S) /\ s \in Nat \ {0} /\ b.r \in Nat /\ b.w \in Nat /\ b.empty \in BOOLEAN
      /\ b.r < s /\ b.w < s /\ n \in Nat \ {0} /\ k \in Nat /\ n <= s - k
      /\ k = 0 => b.r = 0 /\ b.w = 0
      /\ k > 0 => k = IF b.w > b.r THEN b.w - b.r ELSE (s - b.r) + b.w
  <2>1. n \in Nat \ {0} OBVIOUS
  <2>2. /\ b.buf \in Seq(S) /\ s \in Nat /\ b.r \in Nat /\ b.w \in Nat /\ b.empty \in BOOLEAN
        /\ s > 0 => b.r < s /\ b.w < s
        /\ b.empty => b.r = 0 /\ b.w = 0
        /\ k = IF b.empty THEN 0 ELSE IF b.w > b.r THEN b.w - b.r ELSE (s - b.r) + b.w
        /\ k \in 0..s
        /\ k = 0 <=> b.empty
        /\ Available(b) = s - k
    BY RingFacts
  <2> HIDE DEF s, k, n
  <2>3. n <= Available(b) BY DEF n
  <2> QED BY <2>1, <2>2, <2>3
<1>2. m = IF b.w + n < s THEN b.w + n ELSE (b.w + n) - s OBVIOUS
<1>3. right = IF s - b.w < n THEN s - b.w ELSE n BY DEF Least
<1>4. /\ q \in Seq(S) /\ Len(q) = s
      /\ \A i \in 1..s : q[i] = IF i <= n - right THEN p[right + i]
                                ELSE IF b.w < i /\ i <= b.w + right THEN p[i - b.w] ELSE b.buf[i]
  <2>1. b.buf \in Seq(S) /\ b.w \in Nat /\ b.w < Len(b.buf) /\ Len(p) <= Len(b.buf) BY <1>1
  <2>2. /\ q \in Seq(S) /\ Len(q) = Len(b.buf)
        /\ \A i \in 1..Len(b.buf) :
             q[i] = IF i <= Len(p) - right THEN p[right + i]
                    ELSE IF b.w < i /\ i <= b.w + right THEN p[i - b.w] ELSE b.buf[i]
    <3> DEFINE u == b.buf
    <3>1. u \in Seq(S) /\ w \in Nat /\ w < Len(u) /\ Len(p) <= Len(u) BY <2>1
    <3>2. /\ right = Least(Len(u) - w, Len(p))
          /\ q = Copy(Copy(u, w, Slice(p, 0, right)), 0, Slice(p, right, Len(p)))
      OBVIOUS
    <3> HIDE DEF u, w
    <3>3. /\ q \in Seq(S) /\ Len(q) = Len(u)
          /\ \A i \in 1..Len(u) : q[i] = IF i <= Len(p) - right THEN p[right + i]
                                         ELSE IF w < i /\ i <= w + right THEN p[i - w] ELSE u[i]
      BY <3>1, <3>2, Stored
    <3> QED BY <3>3 DEF u, w
  <2> QED BY <2>2
<1>5. h = [buf |-> q, r |-> b.r, w |-> m, empty |-> FALSE] OBVIOUS
<1> HIDE DEF s, k, n
<1>6. m \in Nat /\ m < s BY <1>1, <1>2
<1>7. h \in Rings(S)
  <2>1. r \in Nat /\ r < Len(q) /\ m < Len(q) /\ Len(q) # 0 BY <1>1, <1>4, <1>6 DEF r
  <2>2. h = [buf |-> q, r |-> r, w |-> m, empty |-> FALSE] BY <1>5 DEF r
  <2> HIDE DEF r
  <2>3. [buf |-> q, r |-> r, w |-> m, empty |-> FALSE] \in Rings(S) BY <1>4, <1>6, <2>1, RingIs
  <2> QED BY <2>2, <2>3
<1>a. /\ s \in Nat \ {0} /\ r \in Nat /\ w \in Nat /\ r < s /\ w < s /\ n \in Nat \ {0} /\ k \in Nat
      /\ n <= s - k
      /\ k = 0 => r = 0 /\ w = 0
  BY <1>1
<1>b. k > 0 => k = IF w > r THEN w - r ELSE (s - r) + w BY <1>1
<1>c. m = IF w + n < s THEN w + n ELSE (w + n) - s BY <1>2
<1>d. right = IF s - w < n THEN s - w ELSE n BY <1>3
<1>8. h.buf = q /\ h.r = b.r /\ h.w = m /\ h.empty = FALSE BY <1>5
<1>9. Buffered(h) = k + n
  <2>1. Buffered(h) = IF m > b.r THEN m - b.r ELSE (s - b.r) + m BY <1>4, <1>7, <1>8, RingFacts
  <2>2. (IF m > b.r THEN m - b.r ELSE (s - b.r) + m) = k + n
    <3>1. r = b.r OBVIOUS
    <3> HIDE DEF r, w
    <3>2. (IF m > r THEN m - r ELSE (s - r) + m) = k + n BY <1>a, <1>b, <1>c, Stretched
    <3> QED BY <3>1, <3>2
  <2> QED BY <2>1, <2>2
<1> DEFINE c == Bytes(b) \o p
<1>10. /\ Bytes(b) \in Seq(S) /\ Len(Bytes(b)) = k
       /\ \A i \in 1..k : Bytes(b)[i] = b.buf[ReadSlot(b, i)]
  BY BytesOf DEF k
<1>11. /\ c \in Seq(S) /\ Len(c) = k + n
       /\ \A i \in 1..k : c[i] = Bytes(b)[i]
       /\ \A j \in 1..n : c[k + j] = p[j]
  <2>1. /\ c \in Seq(S) /\ Len(c) = Len(Bytes(b)) + Len(p)
        /\ \A i \in 1..Len(Bytes(b)) : c[i] = Bytes(b)[i]
        /\ \A j \in 1..Len(p) : c[Len(Bytes(b)) + j] = p[j]
    <3> DEFINE d == Bytes(b)
    <3>1. d \in Seq(S) /\ c = d \o p BY <1>10
    <3> HIDE DEF c, d
    <3>2. /\ c \in Seq(S) /\ Len(c) = Len(d) + Len(p)
          /\ \A i \in 1..Len(d) : c[i] = d[i]
          /\ \A j \in 1..Len(p) : c[Len(d) + j] = p[j]
      BY <3>1, ConcatOf
    <3> QED BY <3>2 DEF d
  <2> HIDE DEF c
  <2> QED BY <1>10, <2>1 DEF n
<1> HIDE DEF c
<1>12. ASSUME NEW i \in 1..k PROVE c[i] = q[ReadSlot(h, i)]
  <2> DEFINE x == ReadSlot(b, i)
  <2>1. x = IF b.r + i <= s THEN b.r + i ELSE (b.r + i) - s BY DEF ReadSlot, s
  <2>2. ReadSlot(h, i) = x BY <1>4, <1>8 DEF ReadSlot, s
  <2> HIDE DEF x
  <2>3. k = IF b.w > b.r THEN b.w - b.r ELSE (s - b.r) + b.w BY <1>1
  <2>4. x \in 1..s /\ ~(x <= n - right) /\ ~(b.w < x /\ x <= b.w + right)
    <3>1. x = IF r + i <= s THEN r + i ELSE (r + i) - s BY <2>1
    <3>2. k = IF w > r THEN w - r ELSE (s - r) + w BY <2>3
    <3>3. w = b.w OBVIOUS
    <3> HIDE DEF r, w
    <3>4. x \in 1..s /\ ~(x <= n - right) /\ ~(w < x /\ x <= w + right)
      BY <1>a, <1>d, <3>1, <3>2, KeptSlot
    <3> QED BY <3>3, <3>4
  <2>5. q[x] = b.buf[x] BY <1>4, <2>4
  <2>6. c[i] = b.buf[x] BY <1>10, <1>11 DEF x
  <2> QED BY <2>2, <2>5, <2>6
<1>13. ASSUME NEW j \in 1..n PROVE c[k + j] = q[ReadSlot(h, k + j)]
  <2> DEFINE x == ReadSlot(h, k + j)
  <2>1. x = IF b.r + (k + j) <= s THEN b.r + (k + j) ELSE (b.r + (k + j)) - s BY <1>4, <1>8 DEF ReadSlot
  <2> HIDE DEF x
  <2>2. /\ x \in 1..s
        /\ x <= n - right => right + x = j
        /\ ~(x <= n - right) => b.w < x /\ x <= b.w + right /\ x - b.w = j
    <3>1. x = IF r + (k + j) <= s THEN r + (k + j) ELSE (r + (k + j)) - s BY <2>1
    <3>2. w = b.w OBVIOUS
    <3> HIDE DEF r, w
    <3>3. /\ x \in 1..s
          /\ x <= n - right => right + x = j
          /\ ~(x <= n - right) => w < x /\ x <= w + right /\ x - w = j
      <4>1. /\ s \in Nat /\ r \in Nat /\ w \in Nat /\ k \in Nat /\ n \in Nat /\ j \in 1..n
            /\ r < s /\ w < s /\ n <= s - k
            /\ k = 0 => r = 0 /\ w = 0
            /\ k > 0 => k = IF w > r THEN w - r ELSE (s - r) + w
        BY <1>a, <1>b
      <4> QED BY ONLY <1>d, <3>1, <4>1, NewSlot
    <3> QED BY <3>2, <3>3
  <2>3. q[x] = p[j] BY <1>4, <2>2
  <2> QED BY <1>11, <2>3 DEF x
<1>14. \A i \in 1..Len(c) : c[i] = h.buf[ReadSlot(h, i)]
  <2> SUFFICES ASSUME NEW i \in 1..Len(c) PROVE c[i] = q[ReadSlot(h, i)] BY <1>8
  <2>1. i \in 1..(k + n) BY <1>11
  <2>2. CASE i <= k
    <3>1. i \in 1..k BY <1>1, <2>1, <2>2
    <3> QED BY <1>12, <3>1
  <2>3. CASE ~(i <= k)
    <3>1. i - k \in 1..n /\ k + (i - k) = i BY <1>1, <2>1, <2>3
    <3> QED BY <1>13, <3>1
  <2> QED BY <2>2, <2>3
<1>15. Bytes(h) = c BY <1>7, <1>9, <1>11, <1>14, BytesAre
<1>16. Len(h.buf) = Len(b.buf) BY <1>4, <1>8 DEF s
<1> QED BY <1>7, <1>15, <1>16 DEF c

-----------------------------------------------------------------------------
(* Growing *)

(* grow keeps the bytes in their order, now from slot 0 on, when the size it comes
   to is more than it must hold (ring_buffer.go, grow). *)
THEOREM GrowKeeps ==
  ASSUME NEW S, NEW b \in Rings(S), Junk \in S, NEW c, NEW cap, cap = GrownSize(Size(b), c),
         cap \in Nat, cap > Buffered(b)
  PROVE  /\ grow(b, c) \in Rings(S) /\ Size(grow(b, c)) = cap
         /\ Bytes(grow(b, c)) = Bytes(b) /\ Buffered(grow(b, c)) = Buffered(b)
<1> DEFINE k == Buffered(b)
           p == Taken(b, cap)
           q == Copy(Get(cap), 0, p)
           e == IF k > 0 THEN FALSE ELSE b.empty
           h == [buf |-> q, r |-> 0, w |-> k, empty |-> e]
<1>1. k \in Nat /\ b.empty \in BOOLEAN /\ (k = 0 <=> b.empty) BY RingFacts
<1>2. Bytes(b) \in Seq(S) /\ Len(Bytes(b)) = k BY BytesOf
<1>3. p = Bytes(b)
  <2>1. k = Least(cap, Buffered(b)) BY <1>1 DEF Least
  <2>2. Taken(b, cap) = SubSeq(Bytes(b), 1, k) BY <2>1, ReadTakesFront
  <2>3. SubSeq(Bytes(b), 1, k) = Bytes(b) BY <1>2, SubSeqFull
  <2> QED BY <2>2, <2>3
<1>4. grow(b, c) = h BY DEF grow
<1>5. Get(cap) \in Seq(S) /\ Len(Get(cap)) = cap
  <2>1. Get(cap) \in [1..cap -> S] BY DEF Get
  <2> QED BY <2>1
<1> HIDE DEF k, p
<1>6. /\ q \in Seq(S) /\ Len(q) = cap
      /\ \A i \in 1..cap : q[i] = IF 0 < i /\ i <= 0 + k THEN p[i - 0] ELSE Get(cap)[i]
  <2> DEFINE g == Get(cap)
  <2>1. g \in Seq(S) /\ Len(g) = cap /\ p \in Seq(S) /\ Len(p) = k BY <1>2, <1>3, <1>5
  <2>2. 0 \in Nat /\ 0 + Len(p) <= Len(g) BY <1>1, <2>1 DEF k
  <2> HIDE DEF g
  <2>3. /\ Copy(g, 0, p) \in Seq(S) /\ Len(Copy(g, 0, p)) = Len(g)
        /\ \A i \in 1..Len(g) :
             Copy(g, 0, p)[i] = IF 0 < i /\ i <= 0 + Len(p) THEN p[i - 0] ELSE g[i]
    BY <2>1, <2>2, CopyOf
  <2> QED BY <2>1, <2>3 DEF g
<1>7. e \in BOOLEAN /\ (e <=> k = 0)
  <2>1. CASE k > 0
    <3>1. e = FALSE /\ k # 0 BY <1>1, <2>1
    <3> QED BY <3>1
  <2>2. CASE ~(k > 0)
    <3>1. e = b.empty /\ k = 0 BY <1>1, <2>2
    <3> QED BY <1>1, <3>1
  <2> QED BY <2>1, <2>2
<1> HIDE DEF q, e
<1>8. h \in Rings(S)
  <2>1. 0 \in Nat /\ k < Len(q) /\ Len(q) > 0 /\ (e => k = 0) BY <1>1, <1>6, <1>7 DEF k
  <2> QED BY <1>1, <1>6, <1>7, <2>1, RingIs
<1>9. h.buf = q /\ h.r = 0 /\ h.w = k /\ h.empty = e OBVIOUS
<1> HIDE DEF h
<1>10. Buffered(h) = k
  <2>1. Buffered(h) = IF h.empty THEN 0 ELSE IF h.w > h.r THEN h.w - h.r ELSE (Len(h.buf) - h.r) + h.w
    BY <1>8, RingFacts
  <2> QED BY <1>1, <1>7, <1>9, <2>1
<1>11. \A i \in 1..Len(p) : p[i] = h.buf[ReadSlot(h, i)]
  <2> SUFFICES ASSUME NEW i \in 1..k PROVE p[i] = q[ReadSlot(h, i)] BY <1>2, <1>3, <1>9
  <2>1. i \in 1..cap /\ 0 < i /\ i <= 0 + k /\ i - 0 = i /\ 0 + i <= cap /\ 0 + i = i BY <1>1 DEF k
  <2>2. ReadSlot(h, i) = i BY <1>6, <1>9, <2>1 DEF ReadSlot
  <2> QED BY <1>6, <2>1, <2>2
<1>12. Bytes(h) = p BY <1>2, <1>3, <1>8, <1>10, <1>11, BytesAre
<1>13. Size(h) = cap BY <1>6, <1>9 DEF Size
<1> QED BY <1>3, <1>4, <1>8, <1>10, <1>12, <1>13 DEF k

(* Induction, for a set of numbers. *)
LEMMA AllNumbers ==
  ASSUME NEW P, 0 \in P, \A m \in Nat : m \in P => m + 1 \in P
  PROVE  \A m \in Nat : m \in P
<1> DEFINE T == {m \in Nat : m \notin P}
<1>1. SUFFICES ASSUME T # {} PROVE FALSE OBVIOUS
<1>2. PICK x \in T : \A y \in T : ~(<<y, x>> \in OpToRel(<, Nat))
  <2>1. T \subseteq Nat OBVIOUS
  <2> HIDE DEF T
  <2> QED BY <1>1, <2>1, NatLessThanWellFounded, WFMin, Zenon
<1>3. x \in Nat /\ x # 0 /\ x - 1 \in Nat OBVIOUS
<1>4. x - 1 \in T
  <2>1. x - 1 \in P => (x - 1) + 1 \in P BY <1>3
  <2>2. (x - 1) + 1 = x BY <1>3
  <2> QED BY <1>3, <2>1, <2>2
<1>5. <<x - 1, x>> \in OpToRel(<, Nat)
  <2>1. x - 1 < x BY <1>3
  <2> QED BY <1>3, <2>1 DEF OpToRel
<1> HIDE DEF T
<1> QED BY <1>2, <1>4, <1>5, Zenon

(* A quarter more is at least one more, from 4 on. *)
LEMMA QuarterMore ==
  ASSUME NEW k \in Nat, k >= 4
  PROVE  k + k \div 4 \in Nat /\ k + k \div 4 >= k + 1
OBVIOUS

(* The loop of grow has a value for every size it starts from, ... *)
LEMMA QuarterStepsAre ==
  ASSUME NEW c \in Nat
  PROVE  \E g : g = [k \in Nat |-> IF k < c THEN g[k + k \div 4] ELSE k]
<1> DEFINE D(m) == {k \in Nat : c <= k + m}
           V(f, k) == IF k < c /\ k >= 4 THEN f[k + k \div 4] ELSE k
           P == {m \in Nat : \E f \in [D(m) -> Nat] : \A k \in D(m) : f[k] = V(f, k)}
<1>1. 0 \in P
  <2> DEFINE f == [k \in D(0) |-> k]
  <2>1. f \in [D(0) -> Nat] OBVIOUS
  <2>2. ASSUME NEW k \in D(0) PROVE f[k] = V(f, k)
    <3>1. k \in Nat /\ ~(k < c) OBVIOUS
    <3> QED BY <3>1
  <2> QED BY <2>1, <2>2
<1>2. ASSUME NEW m \in Nat, m \in P PROVE m + 1 \in P
  <2>1. PICK f \in [D(m) -> Nat] : \A k \in D(m) : f[k] = V(f, k) BY <1>2
  <2> DEFINE e == [k \in D(m + 1) |-> IF k \in D(m) THEN f[k]
                                      ELSE IF k >= 4 THEN f[k + k \div 4] ELSE k]
  <2>2. ASSUME NEW k \in D(m + 1) PROVE e[k] \in Nat /\ e[k] = V(e, k)
    <3>1. k \in Nat /\ c <= k + (m + 1) OBVIOUS
    <3>2. k >= 4 => k + k \div 4 \in Nat /\ k + k \div 4 >= k + 1 BY <3>1, QuarterMore
    <3>3. k >= 4 => k + k \div 4 \in D(m) /\ k + k \div 4 \in D(m + 1)
      <4> DEFINE q == k + k \div 4
      <4>1. k >= 4 => q \in Nat /\ q >= k + 1 BY <3>2
      <4> HIDE DEF q
      <4>2. k >= 4 => c <= q + m /\ c <= q + (m + 1) BY <3>1, <4>1
      <4>3. k >= 4 => q \in D(m) /\ q \in D(m + 1) BY <4>1, <4>2
      <4> QED BY <4>3 DEF q
    <3>4. k \in D(m) => e[k] = f[k] OBVIOUS
    <3>5. k \notin D(m) => k < c /\ e[k] = IF k >= 4 THEN f[k + k \div 4] ELSE k BY <3>1
    <3>6. k >= 4 => e[k + k \div 4] = f[k + k \div 4] BY <3>3
    <3>7. k \in D(m) => f[k] = V(f, k) /\ f[k] \in Nat BY <2>1
    <3>8. k >= 4 => f[k + k \div 4] \in Nat BY <2>1, <3>3
    <3> HIDE DEF D, e
    <3>9. CASE k \in D(m) BY <3>4, <3>6, <3>7, <3>9
    <3>10. CASE k \notin D(m) BY <3>1, <3>5, <3>6, <3>8, <3>10
    <3> QED BY <3>9, <3>10
  <2>3. e \in [D(m + 1) -> Nat] BY <2>2
  <2> HIDE DEF e, D
  <2>4. \A k \in D(m + 1) : e[k] = V(e, k) BY <2>2
  <2> QED BY <2>3, <2>4
<1>3. c \in P
  <2> HIDE DEF P
  <2> QED BY <1>1, <1>2, AllNumbers
<1>4. PICK f \in [D(c) -> Nat] : \A k \in D(c) : f[k] = V(f, k) BY <1>3
<1>5. D(c) = Nat OBVIOUS
<1>6. ASSUME NEW k \in Nat PROVE f[k] = IF k < c THEN f[k + k \div 4] ELSE k
  <2>1. f[k] = V(f, k) BY <1>4, <1>5
  <2>2. k < 4 => k + k \div 4 = k OBVIOUS
  <2> QED BY <2>1, <2>2
<1>7. f = [k \in Nat |-> IF k < c THEN f[k + k \div 4] ELSE k] BY <1>4, <1>5, <1>6
<1> QED BY <1>7

(* ... and from 4 slots on it ends with room for what is asked for, and no fewer slots
   than before. *)
LEMMA QuarterStepsCover ==
  ASSUME NEW n \in Nat, n >= 4, NEW c \in Nat
  PROVE  QuarterSteps(n, c) \in Nat /\ QuarterSteps(n, c) >= c /\ QuarterSteps(n, c) >= n
<1> DEFINE g == CHOOSE f : f = [k \in Nat |-> IF k < c THEN f[k + k \div 4] ELSE k]
<1>1. QuarterSteps(n, c) = g[n] BY DEF QuarterSteps
<1>2. g = [k \in Nat |-> IF k < c THEN g[k + k \div 4] ELSE k] BY QuarterStepsAre
<1> HIDE DEF g
<1>3. \A k \in Nat : g[k] = IF k < c THEN g[k + k \div 4] ELSE k BY <1>2
<1> DEFINE P == {m \in Nat : \A k \in Nat : k >= 4 /\ c <= k + m => g[k] \in Nat /\ g[k] >= c /\ g[k] >= k}
<1>4. 0 \in P BY <1>3
<1>5. ASSUME NEW m \in Nat, m \in P PROVE m + 1 \in P
  <2>1. ASSUME NEW k \in Nat, k >= 4, c <= k + (m + 1) PROVE g[k] \in Nat /\ g[k] >= c /\ g[k] >= k
    <3> DEFINE q == k + k \div 4
    <3>1. q \in Nat /\ q >= k + 1 BY <2>1, QuarterMore
    <3>2. g[k] = IF k < c THEN g[q] ELSE k BY <1>3
    <3> HIDE DEF q
    <3>3. q >= 4 /\ c <= q + m BY <2>1, <3>1
    <3>4. g[q] \in Nat /\ g[q] >= c /\ g[q] >= q BY <1>5, <3>1, <3>3
    <3> QED BY <3>1, <3>2, <3>4
  <2> QED BY <2>1
<1>6. c \in P
  <2> HIDE DEF P
  <2> QED BY <1>4, <1>5, AllNumbers
<1>7. c <= n + c OBVIOUS
<1> QED BY <1>1, <1>6, <1>7

(* What is asked for is covered by the size grow comes to, and no slot is lost: by the
   default size, a power of two, a doubling, the size asked for or the loop of quarter
   steps, which would not end below 4 slots (ring_buffer.go, grow). *)
THEOREM GrowthCovers ==
  ASSUME NEW n \in Nat, NEW c \in Nat, DefaultBufferSize \in Nat \ {0},
         GrowThreshold \in Nat, GrowThreshold >= 4,
         n = 0 /\ c > DefaultBufferSize => CeilToPowerOfTwo(c) \in Nat /\ CeilToPowerOfTwo(c) >= c
  PROVE  /\ GrownSize(n, c) \in Nat \ {0} /\ GrownSize(n, c) >= c /\ GrownSize(n, c) >= n
         /\ n > 0 /\ n < GrowThreshold => GrownSize(n, c) > n
<1>1. CASE n = 0 /\ c <= DefaultBufferSize
  <2>1. GrownSize(n, c) = DefaultBufferSize BY <1>1 DEF GrownSize
  <2> QED BY <1>1, <2>1
<1>2. CASE n = 0 /\ c > DefaultBufferSize
  <2>1. GrownSize(n, c) = CeilToPowerOfTwo(c) BY <1>2 DEF GrownSize
  <2> QED BY <1>2, <2>1
<1>3. CASE n > 0 /\ c > n + n
  <2>1. GrownSize(n, c) = c BY <1>3 DEF GrownSize
  <2> QED BY <1>3, <2>1
<1>4. CASE n > 0 /\ c <= n + n /\ n < GrowThreshold
  <2>1. GrownSize(n, c) = n + n BY <1>4 DEF GrownSize
  <2> QED BY <1>4, <2>1
<1>5. CASE n > 0 /\ c <= n + n /\ n >= GrowThreshold
  <2>1. GrownSize(n, c) = QuarterSteps(n, c) BY <1>5 DEF GrownSize
  <2>2. n >= 4 BY <1>5
  <2>3. QuarterSteps(n, c) \in Nat /\ QuarterSteps(n, c) >= c /\ QuarterSteps(n, c) >= n
    BY <2>2, QuarterStepsCover
  <2> QED BY <1>5, <2>1, <2>3
<1> QED BY <1>1, <1>2, <1>3, <1>4, <1>5

-----------------------------------------------------------------------------
(* The calls that put bytes in *)

(* The store that Write and CopyFromSocket end in. *)
Store(g, p) ==
  LET n     == Len(p)
      right == Least(Size(g) - g.w, n)
  IN  [g EXCEPT !.buf = Copy(Copy(@, g.w, Slice(p, 0, right)), 0, Slice(p, right, n)),
                !.w = (@ + n) % Size(g), !.empty = FALSE]

(* It puts p behind the bytes of g. *)
LEMMA StoreIs ==
  ASSUME NEW S, NEW g \in Rings(S), NEW p \in Seq(S), Len(p) > 0, Len(p) <= Available(g)
  PROVE  /\ Store(g, p) \in Rings(S) /\ Size(Store(g, p)) = Size(g)
         /\ Bytes(Store(g, p)) = Bytes(g) \o p
<1> DEFINE s == Len(g.buf)
           n == Len(p)
           right == Least(s - g.w, n)
           q == Copy(Copy(g.buf, g.w, Slice(p, 0, right)), 0, Slice(p, right, n))
           m == (g.w + n) % s
           h == [buf |-> q, r |-> g.r, w |-> m, empty |-> FALSE]
<1>1. Store(g, p) = [g EXCEPT !.buf = q, !.w = m, !.empty = FALSE] BY DEF Store, Size
<1>2. m = IF g.w + n < s THEN g.w + n ELSE (g.w + n) - s
  <2>1. /\ s \in Nat \ {0} /\ g.w \in Nat /\ g.w < s /\ n \in Nat /\ n <= s
    <3>1. n \in Nat OBVIOUS
    <3>2. /\ s \in Nat /\ g.w \in Nat /\ (s > 0 => g.w < s) /\ Available(g) = s - Buffered(g)
          /\ Buffered(g) \in 0..s
      BY RingFacts
    <3> QED BY <3>1, <3>2
  <2> QED BY <2>1, Modulo
<1> HIDE DEF m, q
<1>3. Store(g, p) = h
  <2>1. g \in [buf : Seq(S), r : Nat, w : Nat, empty : BOOLEAN] BY DEF Rings
  <2>2. [g EXCEPT !.buf = q, !.w = m, !.empty = FALSE] \in [buf : {q}, r : {g.r}, w : {m}, empty : {FALSE}]
    BY <2>1
  <2>3. Store(g, p) \in [buf : {q}, r : {g.r}, w : {m}, empty : {FALSE}] BY <1>1, <2>2
  <2> QED BY <2>3
<1>4. h \in Rings(S) /\ Len(h.buf) = Len(g.buf) /\ Bytes(h) = Bytes(g) \o p
  <2>1. q = Copy(Copy(g.buf, g.w, Slice(p, 0, right)), 0, Slice(p, right, Len(p))) BY DEF q
  <2>2. right = Least(Len(g.buf) - g.w, Len(p)) OBVIOUS
  <2>3. m = IF g.w + Len(p) < Len(g.buf) THEN g.w + Len(p) ELSE (g.w + Len(p)) - Len(g.buf) BY <1>2
  <2> HIDE DEF right, h
  <2>4. h = [buf |-> q, r |-> g.r, w |-> m, empty |-> FALSE] BY DEF h
  <2> QED BY <2>1, <2>2, <2>3, <2>4, StoreAppends
<1> QED BY <1>3, <1>4 DEF Size

(* Nothing is copied from no bytes. *)
LEMMA CopyNone ==
  ASSUME NEW S, NEW s \in Seq(S), NEW at \in Nat
  PROVE  Copy(s, at, << >>) = s
<1>1. DOMAIN << >> = {} OBVIOUS
<1>2. Copy(s, at, << >>) = [i \in DOMAIN s |-> s[i]] BY <1>1 DEF Copy
<1>3. s = [i \in DOMAIN s |-> s[i]] OBVIOUS
<1> QED BY <1>2, <1>3

(* A store that does not pass the end of the buffer is one copy. *)
LEMMA StoreInOne ==
  ASSUME NEW S, NEW g \in Rings(S), NEW p \in Seq(S), Len(p) <= Size(g) - g.w
  PROVE  Store(g, p) = [g EXCEPT !.buf = Copy(@, g.w, p), !.w = (@ + Len(p)) % Size(g), !.empty = FALSE]
<1> DEFINE n == Len(p)
           q == Copy(g.buf, g.w, p)
<1>1. /\ g.buf \in Seq(S) /\ Size(g) \in Nat /\ g.w \in Nat /\ Size(g) = Len(g.buf)
      /\ n \in Nat
  <2>1. n \in Nat OBVIOUS
  <2> QED BY <2>1, RingFacts DEF Size
<1>2. Least(Size(g) - g.w, n) = n
  <2> DEFINE x == Size(g) - g.w
  <2>1. x \in Int /\ n \in Nat /\ n <= x BY <1>1
  <2> HIDE DEF x, n
  <2>2. Least(x, n) = n BY <2>1 DEF Least
  <2> QED BY <2>2 DEF x
<1>3. Slice(p, 0, n) = p
  <2>1. SubSeq(p, 1, n) = p BY SubSeqFull
  <2> QED BY <2>1 DEF Slice
<1>4. Slice(p, n, n) = << >>
  <2>1. SubSeq(p, n + 1, n) = << >> BY <1>1, SubSeqEmpty
  <2> QED BY <2>1 DEF Slice
<1>5. Copy(q, 0, << >>) = q
  <2>1. q \in Seq(S)
    <3> DEFINE v == g.buf
               w == g.w
    <3>1. v \in Seq(S) /\ w \in Nat /\ w + Len(p) <= Len(v) BY <1>1
    <3> HIDE DEF v, w
    <3>2. Copy(v, w, p) \in Seq(S) BY <3>1, CopyOf
    <3> QED BY <3>2 DEF v, w
  <2> HIDE DEF q
  <2> QED BY <2>1, 0 \in Nat, CopyNone
<1>6. Store(g, p) = [g EXCEPT !.buf = Copy(Copy(@, g.w, p), 0, << >>),
                             !.w = (@ + Len(p)) % Size(g), !.empty = FALSE]
  BY <1>2, <1>3, <1>4 DEF Store
<1> QED BY <1>5, <1>6

(* Write puts p behind the bytes that are there, growing the ring first when there is
   no room for it: nothing is lost, doubled or moved, wherever r and w are
   (ring_buffer.go, Write).  The size a growth comes to is one that covers it. *)
THEOREM WriteAppends ==
  ASSUME NEW S, NEW b \in Rings(S), NEW p \in Seq(S), Junk \in S,
         NEW c, c = Size(b) + Len(p) - Available(b),
         NEW cap, cap = GrownSize(Size(b), c),
         Len(p) > Available(b) => cap \in Nat /\ cap >= c
  PROVE  /\ Write(b, p) \in Rings(S)
         /\ Bytes(Write(b, p)) = Bytes(b) \o p
         /\ Len(p) <= Available(b) => Size(Write(b, p)) = Size(b)
<1>1. /\ Len(p) \in Nat /\ Size(b) \in Nat /\ Buffered(b) \in 0..Size(b)
      /\ Available(b) = Size(b) - Buffered(b)
  <2>1. Len(p) \in Nat OBVIOUS
  <2> QED BY <2>1, RingFacts DEF Size
<1>2. CASE p = << >>
  <2>1. Write(b, p) = b BY <1>2 DEF Write
  <2>2. Bytes(b) \in Seq(S) BY BytesOf
  <2>3. Bytes(b) \o p = Bytes(b) BY <1>2, <2>2, ConcatEmptySeq
  <2> QED BY <2>1, <2>3
<1>3. CASE p # << >>
  <2> DEFINE g == IF Len(p) > Available(b) THEN grow(b, c) ELSE b
  <2>1. Len(p) > 0 BY <1>1, <1>3
  <2>2. Write(b, p) = Store(g, p) BY <1>3 DEF Write, Store
  <2>3. g \in Rings(S) /\ Bytes(g) = Bytes(b) /\ Len(p) <= Available(g)
    <3>1. CASE Len(p) > Available(b)
      <4>1. cap \in Nat /\ cap >= c /\ c = Buffered(b) + Len(p) /\ cap > Buffered(b) BY <1>1, <2>1, <3>1
      <4>2. /\ grow(b, c) \in Rings(S) /\ Size(grow(b, c)) = cap
            /\ Bytes(grow(b, c)) = Bytes(b) /\ Buffered(grow(b, c)) = Buffered(b)
        BY <4>1, GrowKeeps
      <4>3. Available(grow(b, c)) = cap - Buffered(b) BY <4>2, RingFacts DEF Size
      <4>4. Len(p) <= Available(grow(b, c)) BY <1>1, <4>1, <4>3
      <4> QED BY <3>1, <4>2, <4>4
    <3>2. CASE ~(Len(p) > Available(b))
      <4>1. g = b BY <3>2
      <4>2. Len(p) <= Available(b) BY <1>1, <3>2
      <4> QED BY <4>1, <4>2
    <3> QED BY <3>1, <3>2
  <2>4. Len(p) <= Available(b) => g = b BY <1>1
  <2> HIDE DEF g
  <2> QED BY <2>1, <2>2, <2>3, <2>4, StoreIs
<1> QED BY <1>2, <1>3

(* CopyFromSocket puts what the kernel gives behind the bytes that are there, in a
   full ring that grows first as in any other (ring_buffer_unix.go, CopyFromSocket). *)
THEOREM CopyFromSocketAppends ==
  ASSUME NEW S, NEW b \in Rings(S), NEW p \in Seq(S), Junk \in S,
         DefaultBufferSize \in Nat \ {0}, GrowThreshold \in Nat, GrowThreshold >= 4,
         Len(p) <= Available(SocketTarget(b))
  PROVE  /\ CopyFromSocket(b, p) \in Rings(S) /\ Size(CopyFromSocket(b, p)) >= Size(b)
         /\ Bytes(CopyFromSocket(b, p)) = Bytes(b) \o p
<1> DEFINE g == SocketTarget(b)
           c == Size(b) + Size(b) \div 2
           cap == GrownSize(Size(b), c)
<1>1. g \in Rings(S) /\ Bytes(g) = Bytes(b) /\ Size(g) >= Size(b)
  <2>1. CASE IsFull(b)
    <3>1. g = grow(b, c) BY <2>1 DEF SocketTarget
    <3>2. /\ Buffered(b) \in 0..Size(b) /\ Size(b) \in Nat
          /\ Size(b) = 0 => b.empty
      BY RingFacts DEF Size
    <3>3. Size(b) > 0 BY <2>1, <3>2 DEF IsFull
    <3>4. cap \in Nat /\ cap > Size(b)
      <4> DEFINE n == Size(b)
      <4>1. n \in Nat /\ n > 0 /\ c \in Nat /\ c >= n /\ (n >= 4 => c > n)
        <5>1. n \in Nat /\ n > 0 BY <3>2, <3>3
        <5> HIDE DEF n
        <5>2. n + n \div 2 \in Nat /\ n + n \div 2 >= n /\ (n >= 4 => n + n \div 2 > n) BY <5>1
        <5> QED BY <5>1, <5>2 DEF n
      <4> HIDE DEF n, c
      <4>2. /\ GrownSize(n, c) \in Nat \ {0} /\ GrownSize(n, c) >= c /\ GrownSize(n, c) >= n
            /\ n > 0 /\ n < GrowThreshold => GrownSize(n, c) > n
        <5>1. n = 0 /\ c > DefaultBufferSize => CeilToPowerOfTwo(c) \in Nat /\ CeilToPowerOfTwo(c) >= c
          BY <4>1
        <5> QED BY <4>1, <5>1, GrowthCovers
      <4>3. GrownSize(n, c) > n BY <4>1, <4>2
      <4> QED BY <4>2, <4>3 DEF n
    <3> HIDE DEF c
    <3>5. cap = GrownSize(Size(b), c) OBVIOUS
    <3> HIDE DEF g, cap
    <3>6. cap > Buffered(b) /\ cap >= Size(b) BY <3>2, <3>4
    <3> QED BY <3>1, <3>4, <3>5, <3>6, GrowKeeps
  <2>2. CASE ~IsFull(b)
    <3>1. g = b BY <2>2 DEF SocketTarget
    <3>2. Size(b) >= Size(b) BY RingFacts DEF Size
    <3> QED BY <3>1, <3>2
  <2> QED BY <2>1, <2>2
<1>2. CASE p = << >>
  <2>1. CopyFromSocket(b, p) = g BY <1>2 DEF CopyFromSocket
  <2>2. Bytes(b) \in Seq(S) BY BytesOf
  <2>3. Bytes(b) \o p = Bytes(b) BY <1>2, <2>2, ConcatEmptySeq
  <2> QED BY <1>1, <2>1, <2>3
<1>3. CASE p # << >>
  <2>1. CopyFromSocket(b, p) = Store(g, p) BY <1>3 DEF CopyFromSocket, Store
  <2>2. Len(p) > 0 BY <1>3
  <2>3. Len(p) <= Available(g) OBVIOUS
  <2> HIDE DEF g
  <2> QED BY <1>1, <2>1, <2>2, <2>3, StoreIs
<1> QED BY <1>2, <1>3

(* Nothing is assumed of the growth of a ring that has slots: only a first write of
   more than the default size rests on the power of two it is rounded up to. *)
THEOREM WriteAppendsAlways ==
  ASSUME NEW S, NEW b \in Rings(S), NEW p \in Seq(S), Junk \in S,
         DefaultBufferSize \in Nat \ {0}, GrowThreshold \in Nat, GrowThreshold >= 4,
         Size(b) = 0 /\ Len(p) > DefaultBufferSize =>
           CeilToPowerOfTwo(Len(p)) \in Nat /\ CeilToPowerOfTwo(Len(p)) >= Len(p)
  PROVE  /\ Write(b, p) \in Rings(S)
         /\ Bytes(Write(b, p)) = Bytes(b) \o p
         /\ Len(p) <= Available(b) => Size(Write(b, p)) = Size(b)
<1> DEFINE c == Size(b) + Len(p) - Available(b)
           cap == GrownSize(Size(b), c)
<1>1. /\ Len(p) \in Nat /\ Size(b) \in Nat /\ Buffered(b) \in 0..Size(b)
      /\ Available(b) = Size(b) - Buffered(b)
  <2>1. Len(p) \in Nat OBVIOUS
  <2> QED BY <2>1, RingFacts DEF Size
<1>2. c \in Nat /\ (Size(b) = 0 => c = Len(p)) BY <1>1
<1> HIDE DEF c
<1>3. cap \in Nat /\ cap >= c
  <2> DEFINE n == Size(b)
  <2>1. /\ n \in Nat /\ c \in Nat
        /\ n = 0 /\ c > DefaultBufferSize => CeilToPowerOfTwo(c) \in Nat /\ CeilToPowerOfTwo(c) >= c
    BY <1>1, <1>2
  <2>2. cap = GrownSize(n, c) OBVIOUS
  <2> HIDE DEF n, cap
  <2> QED BY <2>1, <2>2, GrowthCovers
<1> HIDE DEF cap
<1>4. c = Size(b) + Len(p) - Available(b) /\ cap = GrownSize(Size(b), c) BY DEF c, cap
<1> QED BY <1>3, <1>4, WriteAppends

(* WriteByte puts its byte behind the others whenever it does not panic: below the
   threshold its grow(1) doubles a full ring (ring_buffer.go, WriteByte). *)
THEOREM WriteByteAppends ==
  ASSUME NEW S, NEW b \in Rings(S), NEW x \in S, Junk \in S,
         DefaultBufferSize \in Nat \ {0}, GrowThreshold \in Nat, ~WriteBytePanics(b)
  PROVE  /\ WriteByte(b, x) \in Rings(S)
         /\ Bytes(WriteByte(b, x)) = Append(Bytes(b), x)
<1> DEFINE g == IF Available(b) < 1 THEN grow(b, 1) ELSE b
           n == Size(b)
           cap == GrownSize(n, 1)
<1>1. /\ n \in Nat /\ Buffered(b) \in 0..n /\ Available(b) = n - Buffered(b) /\ b.empty \in BOOLEAN
      /\ b.r \in Nat /\ b.w \in Nat
      /\ n > 0 => b.r < n /\ b.w < n
      /\ Buffered(b) = IF b.empty THEN 0 ELSE IF b.w > b.r THEN b.w - b.r ELSE (n - b.r) + b.w
      /\ n = 0 => b.empty
  BY RingFacts DEF Size
<1>2. g \in Rings(S) /\ Bytes(g) = Bytes(b) /\ 1 <= Available(g)
  <2>1. CASE Available(b) < 1
    <3>1. cap \in Nat /\ cap > Buffered(b)
      <4>1. CASE n = 0
        <5>1. cap = DefaultBufferSize BY <4>1 DEF GrownSize
        <5> QED BY <1>1, <4>1, <5>1
      <4>2. CASE n > 0
        <5>1. IsFull(b)
          <6>1. Buffered(b) = n /\ Buffered(b) # 0 BY <1>1, <2>1, <4>2
          <6>2. ~b.empty BY <1>1, <6>1
          <6>3. n = IF b.w > b.r THEN b.w - b.r ELSE (n - b.r) + b.w BY <1>1, <6>1, <6>2
          <6> HIDE DEF n
          <6>4. b.r = b.w BY <1>1, <4>2, <6>3
          <6> QED BY <6>2, <6>4 DEF IsFull
        <5>2. n < GrowThreshold BY <1>1, <5>1 DEF WriteBytePanics
        <5>3. cap = n + n BY <1>1, <4>2, <5>2 DEF GrownSize
        <5> QED BY <1>1, <4>2, <5>3
      <4> QED BY <1>1, <4>1, <4>2
    <3>2. cap = GrownSize(Size(b), 1) OBVIOUS
    <3> HIDE DEF cap
    <3>3. /\ grow(b, 1) \in Rings(S) /\ Size(grow(b, 1)) = cap
          /\ Bytes(grow(b, 1)) = Bytes(b) /\ Buffered(grow(b, 1)) = Buffered(b)
      BY <3>1, <3>2, GrowKeeps
    <3>4. Available(grow(b, 1)) = cap - Buffered(b) BY <3>3, RingFacts DEF Size
    <3>5. 1 <= Available(grow(b, 1)) BY <1>1, <3>1, <3>4
    <3> QED BY <2>1, <3>3, <3>5
  <2>2. CASE ~(Available(b) < 1)
    <3>1. g = b BY <2>2
    <3>2. 1 <= Available(b) BY <1>1, <2>2
    <3> QED BY <3>1, <3>2
  <2> QED BY <2>1, <2>2
<1>3. WriteByte(b, x) = [g EXCEPT !.buf = Copy(@, g.w, <<x>>), !.w = (@ + 1) % Size(g), !.empty = FALSE]
  BY DEF WriteByte
<1> HIDE DEF g
<1>4. WriteByte(b, x) = Store(g, <<x>>)
  <2> DEFINE p == <<x>>
  <2>1. Size(g) \in Nat /\ g.w \in Nat /\ g.w < Size(g) BY <1>2, RingFacts DEF Size
  <2>2. Len(p) = 1 /\ p \in Seq(S) OBVIOUS
  <2>3. WriteByte(b, x) = [g EXCEPT !.buf = Copy(@, g.w, p), !.w = (@ + Len(p)) % Size(g), !.empty = FALSE]
    BY <1>3, <2>2
  <2>4. Len(p) <= Size(g) - g.w BY <2>1, <2>2
  <2> HIDE DEF p
  <2>5. WriteByte(b, x) = Store(g, p) BY <1>2, <2>2, <2>3, <2>4, StoreInOne
  <2> QED BY <2>5 DEF p
<1>5. <<x>> \in Seq(S) /\ Len(<<x>>) = 1 OBVIOUS
<1>6. Bytes(b) \in Seq(S) BY BytesOf
<1>7. Bytes(b) \o <<x>> = Append(Bytes(b), x) BY <1>6, AppendIsConcat
<1>8. Len(<<x>>) > 0 /\ Len(<<x>>) <= Available(g) BY <1>2, <1>5
<1>9. /\ Store(g, <<x>>) \in Rings(S)
      /\ Bytes(Store(g, <<x>>)) = Bytes(g) \o <<x>>
  <2> DEFINE p == <<x>>
  <2>1. p \in Seq(S) /\ Len(p) > 0 /\ Len(p) <= Available(g) BY <1>5, <1>8
  <2> HIDE DEF p
  <2>2. Store(g, p) \in Rings(S) /\ Bytes(Store(g, p)) = Bytes(g) \o p BY <1>2, <2>1, StoreIs
  <2> QED BY <2>2 DEF p
<1> QED BY <1>2, <1>4, <1>7, <1>9

(* Rewind moves the bytes to the front of the ring, or of a larger one, and changes
   none of them, but where it panics and in a ring that is full and near its end,
   whose bytes it rotates (ring_buffer_unix.go, Rewind). *)
THEOREM RewindKeeps ==
  ASSUME NEW S, NEW b \in Rings(S), Junk \in S, DefaultBufferSize \in Nat \ {0},
         GrowThreshold \in Nat, GrowThreshold >= 4, ~RewindPanics(b)
  PROVE  /\ Rewind(b) \in Rings(S) /\ Size(Rewind(b)) >= Size(b)
         /\ ~(IsFull(b) /\ b.w # 0 /\ Size(b) - b.w < DefaultBufferSize) => Bytes(Rewind(b)) = Bytes(b)
<1> DEFINE s == Size(b)
           end == IF b.w = 0 THEN Size(b) ELSE b.w
           n == end - b.r
           near == b.w = 0 \/ s - b.w < DefaultBufferSize
<1>1. /\ b.buf \in Seq(S) /\ s = Len(b.buf) /\ s \in Nat /\ b.r \in Nat /\ b.w \in Nat /\ b.empty \in BOOLEAN
      /\ s > 0 => b.r < s /\ b.w < s
      /\ s = 0 => b.empty
  BY RingFacts DEF Size
<1>2. Buffered(b) = IF b.empty THEN 0 ELSE IF b.w > b.r THEN b.w - b.r ELSE (s - b.r) + b.w
  BY RingFacts DEF Size
<1>3. CASE b.empty
  <2>1. Rewind(b) = Reset(b) BY <1>3 DEF Rewind
  <2>2. Bytes(b) = << >> BY <1>3 DEF Bytes
  <2>3. Reset(b).buf = b.buf BY ResetEmpties
  <2>4. Size(Reset(b)) >= Size(b) BY <1>1, <2>3 DEF Size
  <2> QED BY <2>1, <2>2, <2>4, ResetEmpties
<1>4. CASE ~b.empty /\ ~near
  <2>1. /\ ~b.empty /\ b.w # 0 /\ Size(b) - b.w >= DefaultBufferSize
        /\ ~(Size(b) - b.w < DefaultBufferSize)
    BY <1>1, <1>4
  <2>2. Rewind(b) = b BY <2>1 DEF Rewind
  <2> QED BY <1>1, <2>2
<1>5. CASE ~b.empty /\ near /\ b.r < n
  <2> DEFINE c == Size(b) + (end - b.r)
  <2>1. ~(b.w # 0 /\ Size(b) - b.w >= DefaultBufferSize) BY <1>1, <1>5
  <2>2. Rewind(b) = grow(b, c) BY <1>5, <2>1 DEF Rewind
  <2> DEFINE cap == GrownSize(Size(b), c)
  <2>3. s \in Nat /\ s > 0 /\ c \in Nat /\ c > s BY <1>1, <1>5
  <2>4. cap \in Nat /\ cap >= c
    <3>1. cap = GrownSize(s, c) OBVIOUS
    <3> HIDE DEF s, c, cap, n
    <3>2. s = 0 /\ c > DefaultBufferSize => CeilToPowerOfTwo(c) \in Nat /\ CeilToPowerOfTwo(c) >= c
      BY <2>3
    <3> QED BY <2>3, <3>1, <3>2, GrowthCovers
  <2>5. Buffered(b) \in 0..Size(b) BY RingFacts DEF Size
  <2> HIDE DEF c
  <2>6. cap = GrownSize(Size(b), c) OBVIOUS
  <2> HIDE DEF cap
  <2>7. cap > Buffered(b) /\ cap >= Size(b) BY <2>3, <2>4, <2>5
  <2>8. grow(b, c) \in Rings(S) /\ Bytes(grow(b, c)) = Bytes(b) /\ Size(grow(b, c)) = cap
    BY <2>4, <2>6, <2>7, GrowKeeps
  <2> QED BY <2>2, <2>7, <2>8
<1>6. CASE ~b.empty /\ near /\ ~(b.r < n) /\ (b.w = 0 \/ b.r # b.w)
  <2> DEFINE u == Slice(b.buf, b.r, end)
             q == Copy(b.buf, 0, u)
             h == [buf |-> q, r |-> 0, w |-> n, empty |-> FALSE]
  <2>1. b.w = 0 \/ b.w > b.r
    <3>1. b.w # 0 => ~(b.w < b.r) BY <1>6 DEF RewindPanics
    <3>2. b.w # 0 => b.r # b.w BY <1>6
    <3> QED BY <1>1, <3>1, <3>2
  <2>2. s > 0 /\ b.r < s /\ b.w < s BY <1>1, <1>6
  <2>3. end \in Nat /\ b.r < end /\ end <= s /\ n \in Nat \ {0} /\ n < s
    <3>1. end \in Nat /\ b.r < end /\ end <= s BY <1>1, <2>1, <2>2
    <3>2. n \in Nat \ {0} /\ n <= s
      <4> DEFINE r == b.r
      <4>1. s \in Nat /\ r \in Nat /\ end \in Nat /\ r < end /\ end <= s /\ n = end - r BY <1>1, <3>1
      <4> HIDE DEF r, s, n
      <4> QED BY ONLY <4>1
    <3>3. n < s
      <4>1. n # s BY <1>1, <1>6, <2>2
      <4> QED BY <1>1, <3>2, <4>1
    <3> QED BY <3>1, <3>2, <3>3
  <2>4. Buffered(b) = n
    <3>1. CASE b.w = 0
      <4>1. ~(b.w > b.r) /\ end = s BY <1>1, <2>2, <3>1
      <4> QED BY <1>1, <1>2, <1>6, <3>1, <4>1
    <3>2. CASE b.w > b.r
      <4>1. b.w # 0 /\ end = b.w BY <1>1, <3>2
      <4> QED BY <1>1, <1>2, <1>6, <3>2, <4>1
    <3> QED BY <2>1, <3>1, <3>2
  <2>5. ~(b.w # 0 /\ Size(b) - b.w >= DefaultBufferSize) BY <1>1, <1>6
  <2>6. Rewind(b) = [b EXCEPT !.buf = Copy(@, 0, Slice(@, b.r, end)), !.r = 0, !.w = n]
    BY <1>6, <2>5 DEF Rewind
  <2>7. u \in Seq(S) /\ Len(u) = n /\ \A i \in 1..n : u[i] = b.buf[b.r + i]
    <3> DEFINE lo == b.r
               v == b.buf
    <3>1. lo \in Nat /\ end \in Nat /\ lo <= end /\ end <= Len(v) /\ v \in Seq(S) BY <1>1, <2>3
    <3>2. u = Slice(v, lo, end) OBVIOUS
    <3>4. n = end - lo OBVIOUS
    <3> HIDE DEF lo, v, u, end, n
    <3>3. u \in Seq(S) /\ Len(u) = end - lo /\ \A i \in 1..(end - lo) : u[i] = v[lo + i]
      BY ONLY <3>1, <3>2, SliceOf
    <3> QED BY <3>3, <3>4 DEF lo, v
  <2>8. Rewind(b) = h
    <3> HIDE DEF u, n
    <3>1. b \in [buf : Seq(S), r : Nat, w : Nat, empty : BOOLEAN] BY DEF Rings
    <3>2. [b EXCEPT !.buf = q, !.r = 0, !.w = n] \in [buf : {q}, r : {0}, w : {n}, empty : {b.empty}]
      BY <3>1
    <3>3. b.empty = FALSE BY <1>1, <1>6
    <3>4. Rewind(b) = [b EXCEPT !.buf = q, !.r = 0, !.w = n] BY <2>6 DEF u
    <3>5. Rewind(b) \in [buf : {q}, r : {0}, w : {n}, empty : {FALSE}] BY <3>2, <3>3, <3>4
    <3> QED BY <3>5
  <2> HIDE DEF u
  <2>9. /\ q \in Seq(S) /\ Len(q) = s
        /\ \A i \in 1..s : q[i] = IF 0 < i /\ i <= 0 + n THEN u[i - 0] ELSE b.buf[i]
    <3> DEFINE v == b.buf
    <3>1. v \in Seq(S) /\ u \in Seq(S) /\ Len(v) = s /\ 0 \in Nat /\ 0 + Len(u) <= Len(v) BY <1>1, <2>3, <2>7
    <3> HIDE DEF v, n, s
    <3>2. /\ Copy(v, 0, u) \in Seq(S) /\ Len(Copy(v, 0, u)) = Len(v)
          /\ \A i \in 1..Len(v) :
               Copy(v, 0, u)[i] = IF 0 < i /\ i <= 0 + Len(u) THEN u[i - 0] ELSE v[i]
      BY ONLY <3>1, CopyOf
    <3> QED BY <2>7, <3>1, <3>2 DEF v
  <2> HIDE DEF q, n, s
  <2>10. h \in Rings(S)
    <3>1. 0 \in Nat /\ n \in Nat /\ 0 < Len(q) /\ n < Len(q) /\ Len(q) # 0 BY <2>3, <2>9
    <3> HIDE DEF h
    <3>2. h = [buf |-> q, r |-> 0, w |-> n, empty |-> FALSE] BY DEF h
    <3>3. [buf |-> q, r |-> 0, w |-> n, empty |-> FALSE] \in Rings(S) BY <2>9, <3>1, RingIs
    <3> QED BY <3>2, <3>3
  <2>11. h.buf = q /\ h.r = 0 /\ h.w = n /\ h.empty = FALSE OBVIOUS
  <2> HIDE DEF h
  <2>12. Buffered(h) = n
    <3>1. Buffered(h) = IF h.empty THEN 0 ELSE IF h.w > h.r THEN h.w - h.r ELSE (Len(h.buf) - h.r) + h.w
      BY <2>10, RingFacts
    <3> QED BY <2>3, <2>11, <3>1
  <2>13. /\ Bytes(b) \in Seq(S) /\ Len(Bytes(b)) = n
         /\ \A i \in 1..n : Bytes(b)[i] = b.buf[ReadSlot(b, i)]
    BY <2>4, BytesOf
  <2>14. ASSUME NEW i \in 1..n PROVE Bytes(b)[i] = h.buf[ReadSlot(h, i)]
    <3>1. ReadSlot(b, i) = b.r + i
      <4>1. b.r + i <= s BY <1>1, <2>3 DEF n
      <4> QED BY <1>1, <4>1 DEF ReadSlot
    <3>2. i \in 1..s /\ 0 < i /\ i <= 0 + n /\ i - 0 = i /\ 0 + i = i /\ 0 + i <= s BY <1>1, <2>3
    <3>3. ReadSlot(h, i) = i BY <2>9, <2>11, <3>2 DEF ReadSlot
    <3>4. q[i] = u[i] BY <2>9, <3>2
    <3> QED BY <2>7, <2>11, <2>13, <3>1, <3>3, <3>4
  <2>15. Bytes(h) = Bytes(b) BY <2>10, <2>12, <2>13, <2>14, BytesAre
  <2>16. Size(h) = s /\ s >= s BY <1>1, <2>9, <2>11 DEF Size
  <2> QED BY <2>8, <2>10, <2>15, <2>16 DEF s
<1>7. CASE ~b.empty /\ near /\ b.w # 0 /\ b.r = b.w
  <2> DEFINE u == Slice(b.buf, b.r, end)
             q == Copy(b.buf, 0, u)
             h == [buf |-> q, r |-> 0, w |-> 0, empty |-> FALSE]
  <2>1. end = b.r /\ n = 0 /\ s > 0 /\ b.r < s /\ ~(b.r < n) BY <1>1, <1>7
  <2>2. ~(b.w # 0 /\ Size(b) - b.w >= DefaultBufferSize) BY <1>1, <1>7
  <2>3. Rewind(b) = [b EXCEPT !.buf = Copy(@, 0, Slice(@, b.r, end)), !.r = 0, !.w = n]
    BY <1>7, <2>1, <2>2 DEF Rewind
  <2>4. u \in Seq(S) /\ Len(u) = 0
    <3> DEFINE lo == b.r
               v == b.buf
               hi == end
    <3>1. /\ lo \in Nat /\ hi \in Nat /\ hi <= Len(v) /\ v \in Seq(S) /\ lo <= hi /\ hi - lo = 0
      BY <1>1, <2>1
    <3>2. u = Slice(v, lo, hi) OBVIOUS
    <3> HIDE DEF lo, hi, v, u
    <3>3. u \in Seq(S) /\ Len(u) = hi - lo BY ONLY <3>1, <3>2, SliceOf
    <3> QED BY ONLY <3>1, <3>3
  <2> HIDE DEF u
  <2>5. q \in Seq(S) /\ Len(q) = s
    <3> DEFINE v == b.buf
    <3>1. v \in Seq(S) /\ u \in Seq(S) /\ Len(v) = s /\ 0 \in Nat /\ 0 + Len(u) <= Len(v) BY <1>1, <2>4
    <3> HIDE DEF v, s
    <3>2. Copy(v, 0, u) \in Seq(S) /\ Len(Copy(v, 0, u)) = Len(v) BY ONLY <3>1, CopyOf
    <3> QED BY <3>1, <3>2 DEF v
  <2>6. Rewind(b) = h
    <3>1. b \in [buf : Seq(S), r : Nat, w : Nat, empty : BOOLEAN] BY DEF Rings
    <3>2. Rewind(b) = [b EXCEPT !.buf = q, !.r = 0, !.w = 0] BY <2>1, <2>3 DEF u
    <3> HIDE DEF q
    <3>3. [b EXCEPT !.buf = q, !.r = 0, !.w = 0] \in [buf : {q}, r : {0}, w : {0}, empty : {b.empty}]
      BY <3>1
    <3>4. b.empty = FALSE BY <1>1, <1>7
    <3>5. Rewind(b) \in [buf : {q}, r : {0}, w : {0}, empty : {FALSE}] BY <3>2, <3>3, <3>4
    <3> QED BY <3>5
  <2> HIDE DEF q
  <2>7. h \in Rings(S)
    <3>1. 0 \in Nat /\ 0 < Len(q) /\ Len(q) # 0 BY <1>1, <2>1, <2>5
    <3>2. [buf |-> q, r |-> 0, w |-> 0, empty |-> FALSE] \in Rings(S) BY <2>5, <3>1, RingIs
    <3> QED BY <3>2
  <2>8. Size(h) >= Size(b) BY <1>1, <2>5 DEF Size
  <2>9. IsFull(b) /\ b.w # 0 /\ Size(b) - b.w < DefaultBufferSize BY <1>7 DEF IsFull
  <2> QED BY <2>6, <2>7, <2>8, <2>9
<1> QED BY <1>1, <1>3, <1>4, <1>5, <1>6, <1>7

-----------------------------------------------------------------------------
(* ReadFrom *)

(* At the top of ReadFrom's loop there is room for MinRead bytes, and nothing has
   changed for a reader (ring_buffer.go, ReadFrom). *)
LEMMA ReadFromRoomKeeps ==
  ASSUME NEW S, NEW b \in Rings(S), Junk \in S, DefaultBufferSize \in Nat \ {0},
         GrowThreshold \in Nat, GrowThreshold >= 4, MinRead \in Nat \ {0}, DefaultBufferSize >= MinRead
  PROVE  /\ ReadFromRoom(b) \in Rings(S) /\ Bytes(ReadFromRoom(b)) = Bytes(b)
         /\ Available(ReadFromRoom(b)) >= MinRead
<1> DEFINE n == Size(b)
           k == Buffered(b)
           c == k + MinRead
           cap == GrownSize(n, c)
<1>1. n \in Nat /\ k \in 0..n /\ Available(b) = n - k BY RingFacts DEF Size
<1>2. CASE Available(b) < MinRead
  <2>1. ReadFromRoom(b) = grow(b, c) BY <1>2 DEF ReadFromRoom
  <2>2. cap \in Nat /\ cap >= c
    <3>1. n \in Nat /\ c \in Nat /\ (n = 0 => c <= DefaultBufferSize) BY <1>1
    <3>2. cap = GrownSize(n, c) OBVIOUS
    <3> HIDE DEF n, c, cap
    <3>3. n = 0 /\ c > DefaultBufferSize => CeilToPowerOfTwo(c) \in Nat /\ CeilToPowerOfTwo(c) >= c
      BY <3>1
    <3> QED BY <3>1, <3>2, <3>3, GrowthCovers
  <2>3. cap > k BY <1>1, <2>2
  <2>4. cap = GrownSize(Size(b), c) /\ cap > Buffered(b) BY <2>3
  <2> HIDE DEF cap, c
  <2>5. /\ grow(b, c) \in Rings(S) /\ Size(grow(b, c)) = cap
        /\ Bytes(grow(b, c)) = Bytes(b) /\ Buffered(grow(b, c)) = k
    BY <2>2, <2>4, GrowKeeps
  <2>6. Available(grow(b, c)) = cap - k BY <2>5, RingFacts DEF Size
  <2>7. cap - k >= MinRead BY <1>1, <2>2 DEF c
  <2> QED BY <2>1, <2>5, <2>6, <2>7
<1>3. CASE ~(Available(b) < MinRead)
  <2>1. ReadFromRoom(b) = b BY <1>3 DEF ReadFromRoom
  <2>2. Available(b) >= MinRead BY <1>1, <1>3
  <2> QED BY <2>1, <2>2
<1> QED BY <1>2, <1>3

(* A position counted modulo the size is one of the ring. *)
LEMMA ModInside ==
  ASSUME NEW a \in Nat, NEW s \in Nat \ {0}
  PROVE  a % s \in Nat /\ a % s < s
OBVIOUS

(* The flag and the positions agree wherever a read of ReadFrom goes to. *)
LEMMA WrittenShape ==
  ASSUME NEW S, NEW b \in Rings(S), Size(b) > 0, NEW q \in Seq(S), Len(q) = Size(b), NEW n \in Nat,
         NEW e \in BOOLEAN, e => b.empty /\ n = 0,
         NEW h, h = [buf |-> q, r |-> b.r, w |-> (b.w + n) % Size(b), empty |-> e]
  PROVE  h \in Rings(S) /\ Size(h) = Size(b)
<1> DEFINE s == Size(b)
           r == b.r
           w == b.w
           m == (w + n) % s
<1>1. s \in Nat \ {0} /\ r \in Nat /\ w \in Nat /\ r < s /\ w < s /\ (b.empty => r = 0 /\ w = 0)
  BY RingFacts DEF Size
<1>2. m \in Nat /\ m < s
  <2>1. w + n \in Nat BY <1>1
  <2> HIDE DEF s, w
  <2> QED BY <1>1, <2>1, ModInside
<1>3. e => r = 0 /\ m = 0
  <2>1. e => r = 0 /\ w + n = 0 BY <1>1
  <2>2. 0 % s = 0 BY <1>1, ModSmall
  <2> QED BY <2>1, <2>2
<1>4. h = [buf |-> q, r |-> r, w |-> m, empty |-> e] OBVIOUS
<1>5. Len(q) = s OBVIOUS
<1> HIDE DEF s, r, w, m
<1>6. Len(q) > 0 /\ r < Len(q) /\ m < Len(q) /\ Len(q) # 0 BY <1>1, <1>2, <1>5
<1>7. [buf |-> q, r |-> r, w |-> m, empty |-> e] \in Rings(S)
  BY <1>1, <1>2, <1>3, <1>6, RingIs
<1>8. Size(h) = Size(b) BY <1>4, <1>5 DEF Size, s
<1> QED BY <1>4, <1>7, <1>8

(* The first read of a turn puts its bytes behind those that are there, unless it is
   empty and the ring is too; the flag and the positions agree in any case
   (ring_buffer.go, ReadFrom). *)
THEOREM FirstReadAppends ==
  ASSUME NEW S, NEW b \in Rings(S), Available(b) > 0, NEW p \in Seq(S), Len(p) <= FirstRoom(b)
  PROVE  /\ FirstRead(b, p) \in Rings(S) /\ Size(FirstRead(b, p)) = Size(b)
         /\ ~(b.empty /\ p = << >>) => Bytes(FirstRead(b, p)) = Bytes(b) \o p
<1> DEFINE q == Copy(b.buf, b.w, p)
           m == (b.w + Len(p)) % Size(b)
           h == [buf |-> q, r |-> b.r, w |-> m, empty |-> FALSE]
<1>1. /\ b.buf \in Seq(S) /\ Size(b) \in Nat \ {0} /\ b.r \in Nat /\ b.w \in Nat /\ b.empty \in BOOLEAN
      /\ b.r < Size(b) /\ b.w < Size(b) /\ Size(b) = Len(b.buf)
      /\ Buffered(b) = IF b.empty THEN 0 ELSE IF b.w > b.r THEN b.w - b.r ELSE (Size(b) - b.r) + b.w
      /\ Available(b) = Size(b) - Buffered(b) /\ Buffered(b) \in 0..Size(b)
      /\ b.empty => b.r = 0 /\ b.w = 0
  BY RingFacts DEF Size
<1>2. Len(p) \in Nat /\ Len(p) <= Size(b) - b.w /\ Len(p) <= Available(b)
  <2> DEFINE n == Len(p)
             s == Size(b)
             r == b.r
             w == b.w
             k == Buffered(b)
  <2>1. n \in Nat OBVIOUS
  <2>2. n <= IF w >= r THEN s - w ELSE r - w BY DEF FirstRoom
  <2>3. s - k > 0 BY <1>1
  <2>4. b.empty => k = 0 /\ r = 0 /\ w = 0 BY <1>1
  <2>5. ~b.empty => k = IF w > r THEN w - r ELSE (s - r) + w BY <1>1
  <2>6. s \in Nat /\ r \in Nat /\ w \in Nat /\ r < s /\ w < s /\ k \in 0..s BY <1>1
  <2>7. Available(b) = s - k BY <1>1
  <2> HIDE DEF n, s, r, w, k
  <2>8. n <= s - w BY ONLY <2>1, <2>2, <2>6
  <2>9. CASE b.empty
    <3>1. k = 0 /\ r = 0 /\ w = 0 BY <2>4, <2>9
    <3>2. n <= s - k BY ONLY <2>1, <2>2, <2>6, <3>1
    <3> QED BY <2>1, <2>7, <2>8, <3>2 DEF n, s, w
  <2>10. CASE ~b.empty
    <3>1. k = IF w > r THEN w - r ELSE (s - r) + w BY <2>5, <2>10
    <3>2. n <= s - k BY ONLY <2>1, <2>2, <2>3, <2>6, <3>1
    <3> QED BY <2>1, <2>7, <2>8, <3>2 DEF n, s, w
  <2> QED BY <2>9, <2>10
<1>3. q \in Seq(S) /\ Len(q) = Size(b)
  <2> DEFINE v == b.buf
             w == b.w
  <2>1. v \in Seq(S) /\ w \in Nat /\ w + Len(p) <= Len(v) /\ Size(b) = Len(v) BY <1>1, <1>2
  <2> HIDE DEF v, w
  <2>2. Copy(v, w, p) \in Seq(S) /\ Len(Copy(v, w, p)) = Len(v) BY <2>1, CopyOf
  <2> QED BY <2>1, <2>2 DEF v, w
<1>4. FirstRead(b, p) = [b EXCEPT !.buf = q, !.empty = FALSE, !.w = m] BY DEF FirstRead
<1>5. FirstRead(b, p) = h
  <2> HIDE DEF q, m
  <2>1. b \in [buf : Seq(S), r : Nat, w : Nat, empty : BOOLEAN] BY DEF Rings
  <2>2. [b EXCEPT !.buf = q, !.empty = FALSE, !.w = m] \in [buf : {q}, r : {b.r}, w : {m}, empty : {FALSE}]
    BY <2>1
  <2>3. FirstRead(b, p) \in [buf : {q}, r : {b.r}, w : {m}, empty : {FALSE}] BY <1>4, <2>2
  <2> QED BY <2>3
<1>6. h \in Rings(S) /\ Size(h) = Size(b)
  <2> DEFINE n == Len(p)
             e == FALSE
  <2>1. h = [buf |-> q, r |-> b.r, w |-> (b.w + n) % Size(b), empty |-> e] OBVIOUS
  <2>2. n \in Nat /\ Size(b) > 0 /\ e \in BOOLEAN /\ (e => b.empty /\ n = 0) BY <1>1, <1>2
  <2> HIDE DEF h, n, q, e
  <2> QED BY <1>3, <2>1, <2>2, WrittenShape
<1> HIDE DEF h, q, m
<1>7. CASE p = << >> /\ ~b.empty
  <2>1. Bytes(b) \in Seq(S) BY BytesOf
  <2>2. Bytes(b) \o p = Bytes(b) BY <1>7, <2>1, ConcatEmptySeq
  <2>3. q = b.buf BY <1>1, <1>7, CopyNone DEF q
  <2>4. m = b.w
    <3>1. Len(p) = 0 BY <1>7
    <3>2. b.w + Len(p) = b.w BY <1>1, <3>1
    <3>3. b.w % Size(b) = b.w BY <1>1, ModSmall
    <3> QED BY <3>2, <3>3 DEF m
  <2>5. h = b
    <3>1. b \in [buf : {b.buf}, r : {b.r}, w : {b.w}, empty : {FALSE}]
      <4>1. b \in [buf : Seq(S), r : Nat, w : Nat, empty : BOOLEAN] BY DEF Rings
      <4>2. b.empty = FALSE BY <1>1, <1>7
      <4> QED BY <4>1, <4>2
    <3>2. b = [buf |-> b.buf, r |-> b.r, w |-> b.w, empty |-> FALSE] BY <3>1
    <3> QED BY <2>3, <2>4, <3>2 DEF h
  <2> QED BY <1>5, <1>6, <2>2, <2>5
<1>8. CASE p # << >>
  <2>1. Len(p) > 0 BY <1>2, <1>8
  <2>2. Store(b, p) = [b EXCEPT !.buf = Copy(@, b.w, p), !.w = (@ + Len(p)) % Size(b), !.empty = FALSE]
    BY <1>2, StoreInOne
  <2>3. Store(b, p) = h
    <3>1. Store(b, p) = [b EXCEPT !.buf = q, !.w = m, !.empty = FALSE] BY <2>2 DEF q, m
    <3>2. b \in [buf : Seq(S), r : Nat, w : Nat, empty : BOOLEAN] BY DEF Rings
    <3>3. [b EXCEPT !.buf = q, !.w = m, !.empty = FALSE] \in [buf : {q}, r : {b.r}, w : {m}, empty : {FALSE}]
      BY <3>2
    <3>4. Store(b, p) \in [buf : {q}, r : {b.r}, w : {m}, empty : {FALSE}] BY <3>1, <3>3
    <3> QED BY <3>4 DEF h
  <2>4. Bytes(Store(b, p)) = Bytes(b) \o p BY <1>2, <2>1, StoreIs
  <2> QED BY <1>5, <1>6, <2>3, <2>4
<1> QED BY <1>5, <1>6, <1>7, <1>8

(* The second read puts its bytes behind the others when the first has filled the
   buffer to its end; the flag and the positions agree in any case
   (ring_buffer.go, ReadFrom). *)
THEOREM SecondReadAppends ==
  ASSUME NEW S, NEW b \in Rings(S), Size(b) > 0, NEW p \in Seq(S), Len(p) <= b.r
  PROVE  /\ SecondRead(b, p) \in Rings(S) /\ Size(SecondRead(b, p)) = Size(b)
         /\ p = << >> \/ b.w = 0 => Bytes(SecondRead(b, p)) = Bytes(b) \o p
<1> DEFINE q == Copy(b.buf, 0, p)
           m == (b.w + Len(p)) % Size(b)
           h == [buf |-> q, r |-> b.r, w |-> m, empty |-> b.empty]
<1>1. /\ b.buf \in Seq(S) /\ Size(b) \in Nat \ {0} /\ b.r \in Nat /\ b.w \in Nat /\ b.empty \in BOOLEAN
      /\ b.r < Size(b) /\ b.w < Size(b) /\ Size(b) = Len(b.buf)
      /\ Buffered(b) = IF b.empty THEN 0 ELSE IF b.w > b.r THEN b.w - b.r ELSE (Size(b) - b.r) + b.w
      /\ Available(b) = Size(b) - Buffered(b) /\ Buffered(b) \in 0..Size(b)
      /\ b.empty => b.r = 0 /\ b.w = 0
  BY RingFacts DEF Size
<1>2. Len(p) \in Nat /\ 0 + Len(p) <= Len(b.buf) /\ (b.empty => Len(p) = 0)
  <2>1. Len(p) \in Nat OBVIOUS
  <2> QED BY <1>1, <2>1
<1>3. q \in Seq(S) /\ Len(q) = Size(b)
  <2> DEFINE v == b.buf
  <2>1. v \in Seq(S) /\ 0 \in Nat /\ 0 + Len(p) <= Len(v) /\ Size(b) = Len(v) BY <1>1, <1>2
  <2> HIDE DEF v
  <2>2. Copy(v, 0, p) \in Seq(S) /\ Len(Copy(v, 0, p)) = Len(v) BY <2>1, CopyOf
  <2> QED BY <2>1, <2>2 DEF v
<1>4. SecondRead(b, p) = [b EXCEPT !.buf = q, !.w = m] BY DEF SecondRead
<1>5. SecondRead(b, p) = h
  <2> HIDE DEF q, m
  <2>1. b \in [buf : Seq(S), r : Nat, w : Nat, empty : BOOLEAN] BY DEF Rings
  <2>2. [b EXCEPT !.buf = q, !.w = m] \in [buf : {q}, r : {b.r}, w : {m}, empty : {b.empty}] BY <2>1
  <2>3. SecondRead(b, p) \in [buf : {q}, r : {b.r}, w : {m}, empty : {b.empty}] BY <1>4, <2>2
  <2> QED BY <2>3
<1>6. h \in Rings(S) /\ Size(h) = Size(b)
  <2> DEFINE n == Len(p)
             e == b.empty
  <2>1. h = [buf |-> q, r |-> b.r, w |-> (b.w + n) % Size(b), empty |-> e] OBVIOUS
  <2>2. n \in Nat /\ Size(b) > 0 /\ e \in BOOLEAN /\ (e => b.empty /\ n = 0) BY <1>1, <1>2
  <2> HIDE DEF h, n, q, e
  <2> QED BY <1>3, <2>1, <2>2, WrittenShape
<1> HIDE DEF h, q, m
<1>7. CASE p = << >>
  <2>1. Bytes(b) \in Seq(S) BY BytesOf
  <2>2. Bytes(b) \o p = Bytes(b) BY <1>7, <2>1, ConcatEmptySeq
  <2>3. q = b.buf BY <1>1, <1>7, 0 \in Nat, CopyNone DEF q
  <2>4. m = b.w
    <3>1. Len(p) = 0 BY <1>7
    <3>2. b.w + Len(p) = b.w BY <1>1, <3>1
    <3>3. b.w % Size(b) = b.w BY <1>1, ModSmall
    <3> QED BY <3>2, <3>3 DEF m
  <2>5. h = b
    <3>1. b \in [buf : {b.buf}, r : {b.r}, w : {b.w}, empty : {b.empty}]
      <4>1. b \in [buf : Seq(S), r : Nat, w : Nat, empty : BOOLEAN] BY DEF Rings
      <4> QED BY <4>1
    <3>2. b = [buf |-> b.buf, r |-> b.r, w |-> b.w, empty |-> b.empty] BY <3>1
    <3> QED BY <2>3, <2>4, <3>2 DEF h
  <2> QED BY <1>5, <1>6, <2>2, <2>5
<1>8. CASE p # << >> /\ b.w = 0
  <2>1. Len(p) > 0 /\ ~b.empty /\ b.empty = FALSE BY <1>1, <1>2, <1>8
  <2>2. Len(p) <= Available(b) /\ Len(p) <= Size(b) - b.w
    <3> DEFINE n == Len(p)
               s == Size(b)
               r == b.r
               k == Buffered(b)
    <3>1. s \in Nat /\ r \in Nat /\ r < s /\ n <= r /\ n \in Nat /\ k = (s - r) + 0 /\ Available(b) = s - k
      BY <1>1, <1>2, <1>8, <2>1
    <3> HIDE DEF n, s, r, k
    <3>2. n <= s - k /\ n <= s - 0 BY ONLY <3>1
    <3> QED BY <1>8, <3>1, <3>2 DEF n, s
  <2>3. Store(b, p) = [b EXCEPT !.buf = Copy(@, b.w, p), !.w = (@ + Len(p)) % Size(b), !.empty = FALSE]
    BY <2>2, StoreInOne
  <2>4. Store(b, p) = h
    <3>1. Store(b, p) = [b EXCEPT !.buf = q, !.w = m, !.empty = FALSE] BY <1>8, <2>3 DEF q, m
    <3>2. b \in [buf : Seq(S), r : Nat, w : Nat, empty : BOOLEAN] BY DEF Rings
    <3>3. [b EXCEPT !.buf = q, !.w = m, !.empty = FALSE] \in [buf : {q}, r : {b.r}, w : {m}, empty : {FALSE}]
      BY <3>2
    <3>4. Store(b, p) \in [buf : {q}, r : {b.r}, w : {m}, empty : {FALSE}] BY <3>1, <3>3
    <3> QED BY <2>1, <3>4 DEF h
  <2>5. Bytes(Store(b, p)) = Bytes(b) \o p BY <2>1, <2>2, StoreIs
  <2> QED BY <1>5, <1>6, <2>4, <2>5
<1> QED BY <1>5, <1>6, <1>7, <1>8
=============================================================================

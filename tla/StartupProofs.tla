----------------------------- MODULE StartupProofs -----------------------------
(***************************************************************************)
(* The invariants of Startup, for every set of capacities that may be      *)
(* asked for, every number of processors, of options and of deaths of the  *)
(* process.                                                                *)
(*                                                                         *)
(* Each stage of Server is described by how far it has come in the list of *)
(* its system calls: which descriptors are open, and whether the file of a *)
(* unix socket exists, follows from the number of calls made.  The lemmas  *)
(* before that are about the operators: what CeilToPowerOfTwo returns, and *)
(* which calls the list of a listener has, in which order.                 *)
(***************************************************************************)
EXTENDS Startup, SequenceTheorems, FiniteSetTheorems, TLAPS

-----------------------------------------------------------------------------
(* CeilToPowerOfTwo *)

(* Every non-empty set of bits has a least one, which is its Min, and a greatest. *)
LEMMA LeastBit ==
  ASSUME NEW b \in SUBSET Nat, b # {}
  PROVE  Min(b) \in b /\ \A i \in b : Min(b) <= i
<1>1. PICK x \in b : \A y \in b : ~(<<y, x>> \in OpToRel(<, Nat))
  <2>1. b \subseteq Nat OBVIOUS
  <2> QED BY <2>1, NatLessThanWellFounded, WFMin, Zenon
<1>2. ASSUME NEW y \in b PROVE x <= y
  <2>1. x \in Nat /\ y \in Nat OBVIOUS
  <2>2. ASSUME y < x PROVE FALSE
    <3>1. <<y, x>> \in OpToRel(<, Nat) BY <2>1, <2>2 DEF OpToRel
    <3> QED BY <1>1, <3>1, Zenon
  <2> QED BY <2>1, <2>2
<1> QED BY <1>2 DEF Min

(* A non-empty set of bits has a greatest one. *)
LEMMA GreatestBit ==
  ASSUME NEW b \in SUBSET (0..62), b # {}
  PROVE  \E h \in b : b \subseteq 0..h
<1> DEFINE c == {62 - i : i \in b}
<1>1. c \in SUBSET Nat /\ c # {}
  <2>1. \A i \in b : 62 - i \in Nat OBVIOUS
  <2>2. \A x \in c : x \in Nat BY <2>1
  <2>3. PICK i \in b : TRUE OBVIOUS
  <2>4. 62 - i \in c OBVIOUS
  <2> HIDE DEF c
  <2> QED BY <2>2, <2>4
<1>2. Min(c) \in c /\ \A i \in c : Min(c) <= i
  <2> HIDE DEF c
  <2> QED BY <1>1, LeastBit
<1>3. PICK h \in b : Min(c) = 62 - h BY <1>2
<1>4. \A i \in b : 62 - h <= 62 - i BY <1>2, <1>3
<1>5. b \subseteq 0..h BY <1>4
<1> QED BY <1>5

(* One shift of CeilToPowerOfTwo doubles the run of ones below the highest bit. *)
LEMMA ShiftDoubles ==
  ASSUME NEW b \in SUBSET Nat, NEW h \in Nat, NEW w \in Nat \ {0},
         b \subseteq 0..h, \A i \in 0..h : h - w < i => i \in b
  PROVE  /\ b \cup ShiftRight(b, w) \subseteq 0..h
         /\ \A i \in 0..h : h - (w + w) < i => i \in b \cup ShiftRight(b, w)
<1>1. b \cup ShiftRight(b, w) \subseteq 0..h
  <2>1. ASSUME NEW x \in ShiftRight(b, w) PROVE x \in 0..h
    <3>1. PICK j \in b : j >= w /\ x = j - w BY DEF ShiftRight
    <3>2. j \in 0..h OBVIOUS
    <3> QED BY <3>1, <3>2
  <2> QED BY <2>1
<1>2. ASSUME NEW i \in 0..h, h - (w + w) < i, i \notin b
      PROVE  i \in ShiftRight(b, w)
  <2>1. i + w \in 0..h /\ h - w < i + w BY <1>2
  <2>2. i + w \in b /\ i + w >= w /\ (i + w) - w = i BY <2>1
  <2> QED BY <2>2 DEF ShiftRight
<1> QED BY <1>1, <1>2

(* The five shifts set every bit below the highest, if that is at most the 31st. *)
LEMMA SmearFills ==
  ASSUME NEW b \in SUBSET Nat, NEW h \in 0..31, h \in b, b \subseteq 0..h
  PROVE  Smear(b) = 0..h
<1> DEFINE s1 == b \cup ShiftRight(b, 1)
           s2 == s1 \cup ShiftRight(s1, 2)
           s3 == s2 \cup ShiftRight(s2, 4)
           s4 == s3 \cup ShiftRight(s3, 8)
           s5 == s4 \cup ShiftRight(s4, 16)
<1>a. h \in Nat OBVIOUS
<1>1. s1 \subseteq 0..h /\ \A i \in 0..h : h - 2 < i => i \in s1
  <2>1. \A i \in 0..h : h - 1 < i => i \in b OBVIOUS
  <2>2. \A i \in 0..h : h - (1 + 1) < i => i \in s1 BY <1>a, <2>1, ShiftDoubles, 1 \in Nat \ {0}
  <2>3. s1 \subseteq 0..h BY <1>a, <2>1, ShiftDoubles, 1 \in Nat \ {0}
  <2> HIDE DEF s1
  <2> QED BY <2>2, <2>3
<1>2. s2 \subseteq 0..h /\ \A i \in 0..h : h - 4 < i => i \in s2
  <2> HIDE DEF s1
  <2>1. s1 \in SUBSET Nat BY <1>1
  <2>2. /\ s2 \subseteq 0..h
        /\ \A i \in 0..h : h - (2 + 2) < i => i \in s2
    <3> DEFINE x == s1
               w == 2
               y == s2
    <3>1. /\ x \in SUBSET Nat /\ h \in Nat /\ w \in Nat \ {0} /\ x \subseteq 0..h
          /\ \A i \in 0..h : h - w < i => i \in x
      BY <1>a, <1>1, <2>1
    <3>2. y = x \cup ShiftRight(x, w) OBVIOUS
    <3> HIDE DEF s2, x, w, y
    <3>3. y \subseteq 0..h /\ \A i \in 0..h : h - (w + w) < i => i \in y
      BY ONLY <3>1, <3>2, ShiftDoubles
    <3> QED BY <3>3 DEF w, y
  <2> HIDE DEF s2
  <2> QED BY <2>2
<1>3. s3 \subseteq 0..h /\ \A i \in 0..h : h - 8 < i => i \in s3
  <2> HIDE DEF s2
  <2>1. s2 \in SUBSET Nat BY <1>2
  <2>2. /\ s3 \subseteq 0..h
        /\ \A i \in 0..h : h - (4 + 4) < i => i \in s3
    <3> DEFINE x == s2
               w == 4
               y == s3
    <3>1. /\ x \in SUBSET Nat /\ h \in Nat /\ w \in Nat \ {0} /\ x \subseteq 0..h
          /\ \A i \in 0..h : h - w < i => i \in x
      BY <1>a, <1>2, <2>1
    <3>2. y = x \cup ShiftRight(x, w) OBVIOUS
    <3> HIDE DEF s3, x, w, y
    <3>3. y \subseteq 0..h /\ \A i \in 0..h : h - (w + w) < i => i \in y
      BY ONLY <3>1, <3>2, ShiftDoubles
    <3> QED BY <3>3 DEF w, y
  <2> HIDE DEF s3
  <2> QED BY <2>2
<1>4. s4 \subseteq 0..h /\ \A i \in 0..h : h - 16 < i => i \in s4
  <2> HIDE DEF s3
  <2>1. s3 \in SUBSET Nat BY <1>3
  <2>2. /\ s4 \subseteq 0..h
        /\ \A i \in 0..h : h - (8 + 8) < i => i \in s4
    <3> DEFINE x == s3
               w == 8
               y == s4
    <3>1. /\ x \in SUBSET Nat /\ h \in Nat /\ w \in Nat \ {0} /\ x \subseteq 0..h
          /\ \A i \in 0..h : h - w < i => i \in x
      BY <1>a, <1>3, <2>1
    <3>2. y = x \cup ShiftRight(x, w) OBVIOUS
    <3> HIDE DEF s4, x, w, y
    <3>3. y \subseteq 0..h /\ \A i \in 0..h : h - (w + w) < i => i \in y
      BY ONLY <3>1, <3>2, ShiftDoubles
    <3> QED BY <3>3 DEF w, y
  <2> HIDE DEF s4
  <2> QED BY <2>2
<1>5. s5 \subseteq 0..h /\ \A i \in 0..h : h - 32 < i => i \in s5
  <2> HIDE DEF s4
  <2>1. s4 \in SUBSET Nat BY <1>4
  <2>2. /\ s5 \subseteq 0..h
        /\ \A i \in 0..h : h - (16 + 16) < i => i \in s5
    <3> DEFINE x == s4
               w == 16
               y == s5
    <3>1. /\ x \in SUBSET Nat /\ h \in Nat /\ w \in Nat \ {0} /\ x \subseteq 0..h
          /\ \A i \in 0..h : h - w < i => i \in x
      BY <1>a, <1>4, <2>1
    <3>2. y = x \cup ShiftRight(x, w) OBVIOUS
    <3> HIDE DEF s5, x, w, y
    <3>3. y \subseteq 0..h /\ \A i \in 0..h : h - (w + w) < i => i \in y
      BY ONLY <3>1, <3>2, ShiftDoubles
    <3> QED BY <3>3 DEF w, y
  <2> HIDE DEF s5
  <2> QED BY <2>2
<1>6. s5 = 0..h
  <2> HIDE DEF s5
  <2>1. \A i \in 0..h : h - 32 < i OBVIOUS
  <2>2. 0..h \subseteq s5 BY <1>5, <2>1
  <2> QED BY <1>5, <2>2
<1>7. Smear(b) = s5 BY DEF Smear
<1> QED BY <1>6, <1>7

(* The increment carries through a run of ones that reaches down to bit 0. *)
LEMMA IncrementCarries ==
  ASSUME NEW h \in Nat
  PROVE  Increment(0..h) = {h + 1}
<1>1. Cardinality(0..h) = h + 1 BY FS_Interval
<1>2. (0..(h + 1)) \ (0..h) = {h + 1} OBVIOUS
<1>3. Min({h + 1}) = h + 1 BY DEF Min
<1>4. Increment(0..h) = ((0..h) \ (0..((h + 1) - 1))) \cup {h + 1}
  BY <1>1, <1>2, <1>3 DEF Increment
<1> QED BY <1>4

(* CeilToPowerOfTwo of a number with more than one bit. *)
LEMMA CeilOfMany ==
  ASSUME NEW b \in SUBSET (0..31), NEW h \in b, h >= 10, b \subseteq 0..h, b # {h}
  PROVE  CeilBits(b) = {h + 1}
<1>1. Min(b) \in b /\ \A i \in b : Min(b) <= i BY LeastBit
<1>2. PICK l \in b : l = Min(b) /\ \A i \in b : l <= i BY <1>1
<1>3. l < h
  <2>1. PICK i \in b : i # h OBVIOUS
  <2>2. l <= i /\ i \in 0..h BY <1>2
  <2> QED BY <2>1, <2>2
<1>4. Decrement(b) = (b \ {l}) \cup 0..(l - 1) BY <1>2 DEF Decrement
<1>5. Decrement(b) \in SUBSET Nat /\ h \in Decrement(b) /\ Decrement(b) \subseteq 0..h BY <1>3, <1>4
<1>6. h \in 0..31 /\ h \in Nat OBVIOUS
<1>7. Smear(Decrement(b)) = 0..h BY <1>5, <1>6, SmearFills
<1>8. ~(b \subseteq {0}) /\ b # {1} OBVIOUS
<1> QED BY <1>6, <1>7, <1>8, IncrementCarries DEF CeilBits

(* CeilToPowerOfTwo of a power of two. *)
LEMMA CeilOfPower ==
  ASSUME NEW h \in 10..32
  PROVE  CeilBits({h}) = {h}
<1>1. Min({h}) = h BY DEF Min
<1>2. Decrement({h}) = 0..(h - 1) BY <1>1 DEF Decrement
<1>3. Smear(0..(h - 1)) = 0..(h - 1)
  <2>1. (h - 1) \in 0..31 /\ (h - 1) \in 0..(h - 1) /\ 0..(h - 1) \in SUBSET Nat OBVIOUS
  <2> QED BY <2>1, SmearFills
<1>4. Increment(0..(h - 1)) = {(h - 1) + 1}
  <2>1. (h - 1) \in Nat OBVIOUS
  <2> QED BY <2>1, IncrementCarries
<1>5. ~({h} \subseteq {0}) /\ {h} # {1} OBVIOUS
<1>6. CeilBits({h}) = {(h - 1) + 1} BY <1>2, <1>3, <1>4, <1>5 DEF CeilBits
<1> QED BY <1>6

(* What Server makes of a capacity that the shifts reach. *)
LEMMA CapIsLeastPower ==
  ASSUME NEW b \in SUBSET (0..62), InReach(b)
  PROVE  IsLeastPower(BufferCap(b), b)
<1>1. CASE b = {10}
  <2>1. BufferCap(b) = {10} BY <1>1 DEF BufferCap
  <2>2. 10 \in 0..63 /\ ~(b \subseteq 0..(10 - 2)) /\ b # {10 - 1} BY <1>1
  <2> QED BY <1>1, <2>1, <2>2 DEF IsLeastPower
<1>2. CASE b # {10}
  <2> b # {} /\ ~(b \subseteq 0..9) BY DEF InReach
  <2>1. BufferCap(b) = CeilBits(b) BY <1>2 DEF BufferCap
  <2>2. PICK h \in b : b \subseteq 0..h BY GreatestBit
  <2>3. h >= 10 /\ h \in 10..32 BY <1>2, <2>2 DEF InReach
  <2>4. CASE b = {h}
    <3>1. BufferCap(b) = {h} BY <2>1, <2>3, <2>4, CeilOfPower
    <3>2. ~(b \subseteq 0..(h - 2)) /\ b # {h - 1} BY <2>3, <2>4
    <3>3. h \in 0..63 BY <2>3
    <3> QED BY <2>4, <3>1, <3>2, <3>3 DEF IsLeastPower
  <2>5. CASE b # {h}
    <3>1. b \in SUBSET (0..31) BY <2>2, <2>5 DEF InReach
    <3>2. BufferCap(b) = {h + 1} BY <2>1, <2>2, <2>3, <2>5, <3>1, CeilOfMany
    <3>3. h + 1 \in 0..63 /\ b \subseteq 0..((h + 1) - 1) BY <2>2, <2>3
    <3>4. ~(b \subseteq 0..((h + 1) - 2)) /\ b # {(h + 1) - 1} BY <2>3, <2>5
    <3> QED BY <3>2, <3>3, <3>4 DEF IsLeastPower
  <2> QED BY <2>4, <2>5
<1> QED BY <1>1, <1>2

(* The shifts keep every bit, and add only lower ones. *)
LEMMA SmearKeeps ==
  ASSUME NEW h \in Nat, NEW b \in SUBSET (0..h)
  PROVE  b \subseteq Smear(b) /\ Smear(b) \subseteq 0..h
<1>1. ASSUME NEW x \in SUBSET (0..h), NEW w \in Nat PROVE ShiftRight(x, w) \subseteq 0..h
  <2>1. ASSUME NEW y \in ShiftRight(x, w) PROVE y \in 0..h
    <3>1. PICK j \in x : j >= w /\ y = j - w BY DEF ShiftRight
    <3> QED BY <3>1
  <2> QED BY <2>1
<1> DEFINE s1 == b \cup ShiftRight(b, 1)
           s2 == s1 \cup ShiftRight(s1, 2)
           s3 == s2 \cup ShiftRight(s2, 4)
           s4 == s3 \cup ShiftRight(s3, 8)
           s5 == s4 \cup ShiftRight(s4, 16)
<1>2. b \subseteq s1 /\ s1 \in SUBSET (0..h) BY <1>1
<1>3. s1 \subseteq s2 /\ s2 \in SUBSET (0..h)
  <2> HIDE DEF s1
  <2> QED BY <1>1, <1>2
<1>4. s2 \subseteq s3 /\ s3 \in SUBSET (0..h)
  <2> HIDE DEF s2
  <2> QED BY <1>1, <1>3
<1>5. s3 \subseteq s4 /\ s4 \in SUBSET (0..h)
  <2> HIDE DEF s3
  <2> QED BY <1>1, <1>4
<1>6. s4 \subseteq s5 /\ s5 \in SUBSET (0..h)
  <2> HIDE DEF s4
  <2> QED BY <1>1, <1>5
<1>7. Smear(b) = s5 BY DEF Smear
<1> HIDE DEF s1, s2, s3, s4, s5
<1> QED BY <1>2, <1>3, <1>4, <1>5, <1>6, <1>7

(* The increment sets the least bit that is missing. *)
LEMMA IncrementSets ==
  ASSUME NEW h \in Nat, NEW s \in SUBSET (0..h)
  PROVE  \E low \in Nat : low \notin s /\ Increment(s) = (s \ (0..(low - 1))) \cup {low}
<1> DEFINE n == Cardinality(s)
           free == (0..n) \ s
<1>1. IsFiniteSet(s) /\ n \in Nat
  <2>1. IsFiniteSet(0..h) BY FS_Interval
  <2>2. IsFiniteSet(s) BY <2>1, FS_Subset
  <2> QED BY <2>2, FS_CardinalityType
<1>2. free # {}
  <2> SUFFICES ASSUME 0..n \subseteq s PROVE FALSE OBVIOUS
  <2>1. Cardinality(0..n) = n + 1
    <3> HIDE DEF n
    <3> QED BY <1>1, FS_Interval
  <2>2. Cardinality(0..n) <= n BY <1>1, FS_Subset
  <2> HIDE DEF n
  <2> QED BY <1>1, <2>1, <2>2
<1>3. free \in SUBSET Nat
  <2> HIDE DEF n
  <2> QED BY <1>1
<1> DEFINE low == Min(free)
<1>4. low \in free
  <2> HIDE DEF free
  <2> QED BY <1>2, <1>3, LeastBit
<1>5. Increment(s) = (s \ (0..(low - 1))) \cup {low} BY DEF Increment
<1>6. low \in Nat /\ low \notin s BY <1>3, <1>4
<1> HIDE DEF low
<1> QED BY <1>5, <1>6

(* CeilToPowerOfTwo never returns less than its argument, nor than 2^10 where Server
   calls it, also where the shifts do not reach the lowest bits. *)
LEMMA CeilNotLess ==
  ASSUME NEW b \in SUBSET (0..62), NEW h \in b, h >= 10, b \subseteq 0..h, b # {10}
  PROVE  NotLess(CeilBits(b), b) /\ NotLess(CeilBits(b), {10})
<1> DEFINE l == Min(b)
           D == (b \ {l}) \cup 0..(l - 1)
           s == Smear(D)
           c == CeilBits(b)
<1>1. l \in b /\ \A i \in b : l <= i BY LeastBit
<1>2. h \in Nat /\ b \in SUBSET (0..h) /\ l \in 0..h
  <2> HIDE DEF l
  <2>1. h \in 0..62 OBVIOUS
  <2>2. l \in 0..h BY <1>1
  <2> QED BY <2>1, <2>2
<1>5. c = Increment(s)
  <2>1. ~(b \subseteq {0}) /\ b # {1} OBVIOUS
  <2> QED BY <2>1 DEF CeilBits, Decrement
<1> HIDE DEF l
<1>3. D \in SUBSET (0..h) BY <1>2
<1>4. D \subseteq s /\ s \in SUBSET (0..h)
  <2> HIDE DEF D
  <2> QED BY <1>2, <1>3, SmearKeeps
<1> HIDE DEF s, c
<1>6. PICK low \in Nat : low \notin s /\ c = (s \ (0..(low - 1))) \cup {low}
  BY <1>2, <1>4, <1>5, IncrementSets
<1>7. low \in c /\ low >= l BY <1>1, <1>2, <1>4, <1>6
<1>8. ASSUME NEW j \in b, j > low PROVE j \in c
  <2>1. j \in D /\ j \in Nat BY <1>1, <1>2, <1>7, <1>8
  <2> QED BY <1>4, <1>6, <1>8, <2>1
<1>9. NotLess(c, b)
  <2>1. CASE low \in b
    <3>1. low = l BY <1>4, <1>6, <2>1
    <3>2. ASSUME NEW j \in b PROVE j \in c
      <4>1. j = low \/ j > low BY <1>1, <1>2, <3>1
      <4> QED BY <1>7, <1>8, <4>1
    <3> QED BY <3>2 DEF NotLess
  <2>2. CASE low \notin b
    <3>1. low \in c \ b BY <1>7, <2>2
    <3> QED BY <1>8, <3>1 DEF NotLess
  <2> QED BY <2>1, <2>2
<1>10. \E k \in c : k \in Nat /\ k >= 10
  <2>1. CASE low >= 10 BY <1>7, <2>1
  <2>2. CASE low < 10
    <3>1. h > low BY <1>2, <2>2
    <3> QED BY <1>2, <1>8, <3>1
  <2> QED BY <2>1, <2>2
<1>11. NotLess(c, {10})
  <2>1. PICK k \in c : k \in Nat /\ k >= 10 BY <1>10
  <2>2. CASE k = 10 BY <2>1, <2>2 DEF NotLess
  <2>3. CASE k # 10
    <3>1. k \in c \ {10} /\ k > 10 BY <2>1, <2>3
    <3>2. \A j \in {10} : j > k => j \in c BY <2>1, <3>1
    <3> QED BY <3>1, <3>2 DEF NotLess
  <2> QED BY <2>2, <2>3
<1> QED BY <1>9, <1>11 DEF c

(* What Server makes of any positive capacity. *)
LEMMA CapNotLess ==
  ASSUME NEW b \in SUBSET (0..62), b # {}
  PROVE  NotLess(BufferCap(b), b) /\ NotLess(BufferCap(b), {10})
<1>1. CASE b \subseteq 0..9 \/ b = {10}
  <2>1. BufferCap(b) = {10} BY <1>1 DEF BufferCap
  <2>2. NotLess({10}, {10}) BY DEF NotLess
  <2>3. CASE b \subseteq 0..9
    <3>1. 10 \in {10} \ b BY <2>3
    <3>2. \A j \in b : j > 10 => j \in {10} BY <2>3
    <3> QED BY <2>1, <2>2, <3>1, <3>2 DEF NotLess
  <2>4. CASE b = {10} BY <2>1, <2>2, <2>4
  <2> QED BY <1>1, <2>3, <2>4
<1>2. CASE ~(b \subseteq 0..9 \/ b = {10})
  <2>1. BufferCap(b) = CeilBits(b) BY <1>2 DEF BufferCap
  <2>2. PICK h \in b : b \subseteq 0..h BY GreatestBit
  <2>3. h >= 10 BY <1>2, <2>2
  <2> QED BY <1>2, <2>1, <2>2, <2>3, CeilNotLess
<1> QED BY <1>1, <1>2

-----------------------------------------------------------------------------
(* The calls of a listener: socket, the settings, bind and, unless it is UDP, listen *)

Options == [Multicore : BOOLEAN, NumEventLoop : Int, LockOSThread : BOOLEAN,
            ReadBufferCap : SUBSET (0..62), WriteBufferCap : SUBSET (0..62),
            ReusePort : BOOLEAN, ReuseAddr : BOOLEAN, TCPNoDelay : BOOLEAN,
            SocketRecvBuffer : 0..1, SocketSendBuffer : 0..1, MulticastInterfaceIndex : 0..1]

Listens(a) == a \in Addresses /\ a.proto # "other" /\ Resolves(a)

Names == {"socket", "v6only", "broadcast", "reuseport", "reuseaddr", "nodelay", "rcvbuf", "sndbuf",
          "interface", "multicast_if", "multicast_loop", "membership", "bind", "listen",
          "epoll_create", "nonblock", "add_read"}

Settings(a, o) ==
  CASE a.proto = "tcp"  -> When(GetTCPSockAddr(a).ipv6only, <<"v6only">>) \o SockOpts(a, o)
    [] a.proto = "udp"  -> When(GetUDPSockAddr(a).ipv6only, <<"v6only">>) \o (<<"broadcast">> \o SockOpts(a, o))
    [] a.proto = "unix" -> SockOpts(a, o)
FromBind(a) == IF a.proto = "udp" THEN <<"bind">> ELSE <<"bind", "listen">>

(* The entries of the short sequences that the lists are made of. *)
LEMMA OneCall ==
  ASSUME NEW x \in Names
  PROVE  <<x>> \in Seq(Names) /\ Range(<<x>>) = {x}
<1>1. <<x>> \in Seq(Names) OBVIOUS
<1>2. DOMAIN <<x>> = {1} /\ <<x>>[1] = x OBVIOUS
<1>3. Range(<<x>>) = {x} BY <1>2, Zenon DEF Range
<1> QED BY <1>1, <1>3

LEMMA TwoCalls ==
  ASSUME NEW x \in Names, NEW y \in Names
  PROVE  <<x, y>> \in Seq(Names) /\ Range(<<x, y>>) = {x, y}
<1>1. <<x, y>> \in Seq(Names) OBVIOUS
<1>2. DOMAIN <<x, y>> = {1, 2} /\ <<x, y>>[1] = x /\ <<x, y>>[2] = y OBVIOUS
<1>3. Range(<<x, y>>) = {x, y} BY <1>2, Zenon DEF Range
<1> QED BY <1>1, <1>3

(* The calls under a condition. *)
LEMMA WhenCalls ==
  ASSUME NEW c \in BOOLEAN, NEW s \in Seq(Names)
  PROVE  When(c, s) \in Seq(Names) /\ Range(When(c, s)) = IF c THEN Range(s) ELSE {}
<1>1. CASE c BY <1>1 DEF When
<1>2. CASE ~c
  <2>1. When(c, s) = << >> BY <1>2 DEF When
  <2>2. Range(<< >>) = {} BY DEF Range
  <2> QED BY <1>2, <2>1, <2>2
<1> QED BY <1>1, <1>2

(* One list of calls after the other. *)
LEMMA JoinCalls ==
  ASSUME NEW s \in Seq(Names), NEW t \in Seq(Names)
  PROVE  s \o t \in Seq(Names) /\ Range(s \o t) = Range(s) \cup Range(t)
<1>1. s \o t \in Seq(Names) OBVIOUS
<1>2. s \in Seq(Names) /\ t \in Seq(Names) OBVIOUS
<1> DEFINE S == Names
<1>4. s \in Seq(S) /\ t \in Seq(S) BY <1>2
<1> HIDE DEF S
<1>3. Range(s \o t) = Range(s) \cup Range(t) BY ONLY <1>4, RangeConcatenation
<1> QED BY <1>1, <1>3

(* The multicast calls. *)
LEMMA MulticastCalls ==
  ASSUME NEW a \in Addresses, NEW i \in 0..1
  PROVE  /\ SetMulticastMembership(a, i) \in Seq(Names)
         /\ Range(SetMulticastMembership(a, i)) \ {"interface", "multicast_loop"}
              = {"membership"} \cup IF i = 0 THEN {} ELSE {"multicast_if"}
         /\ Range(SetMulticastMembership(a, i)) \subseteq
              {"interface", "multicast_if", "multicast_loop", "membership"}
<1> DEFINE last == <<"multicast_loop", "membership">>
           if4  == When(i > 0, <<"interface", "multicast_if">>)
           if6  == When(i > 0, <<"multicast_if">>)
<1>0. (i > 0) \in BOOLEAN OBVIOUS
<1>n. {"interface", "multicast_if", "multicast_loop", "membership"} \subseteq Names BY DEF Names
<1>1. last \in Seq(Names) /\ Range(last) = {"multicast_loop", "membership"}
  BY <1>n, TwoCalls
<1>2. if4 \in Seq(Names) /\ Range(if4) = IF i > 0 THEN {"interface", "multicast_if"} ELSE {}
  <2> DEFINE c == i > 0
             s == <<"interface", "multicast_if">>
  <2>1. s \in Seq(Names) /\ Range(s) = {"interface", "multicast_if"} BY <1>n, TwoCalls
  <2> HIDE DEF c, s
  <2>2. When(c, s) \in Seq(Names) /\ Range(When(c, s)) = IF c THEN Range(s) ELSE {} BY <1>0, <2>1, WhenCalls DEF c
  <2> QED BY <2>1, <2>2 DEF c, s
<1>3. if6 \in Seq(Names) /\ Range(if6) = IF i > 0 THEN {"multicast_if"} ELSE {}
  BY <1>0, <1>n, OneCall, WhenCalls
<1>4. if4 \o last \in Seq(Names) /\ Range(if4 \o last) = Range(if4) \cup Range(last)
  <2> HIDE DEF if4, last
  <2> QED BY <1>1, <1>2, JoinCalls
<1>5. if6 \o last \in Seq(Names) /\ Range(if6 \o last) = Range(if6) \cup Range(last)
  <2> HIDE DEF if6, last
  <2> QED BY <1>1, <1>3, JoinCalls
<1>6. SetMulticastMembership(a, i) = if4 \o last \/ SetMulticastMembership(a, i) = if6 \o last
  BY DEF SetMulticastMembership, SetIPv4MulticastMembership, SetIPv6MulticastMembership
<1> HIDE DEF if4, if6, last
<1>7. CASE SetMulticastMembership(a, i) = if4 \o last BY <1>1, <1>2, <1>4, <1>7
<1>8. CASE SetMulticastMembership(a, i) = if6 \o last BY <1>1, <1>3, <1>5, <1>8
<1> QED BY <1>6, <1>7, <1>8

(* Options that SockOpts can read. *)
Settable(o) == /\ o.ReusePort \in BOOLEAN /\ o.ReuseAddr \in BOOLEAN /\ o.TCPNoDelay \in BOOLEAN
               /\ o.SocketRecvBuffer \in 0..1 /\ o.SocketSendBuffer \in 0..1
               /\ o.MulticastInterfaceIndex \in 0..1

If(c, S) == IF c THEN S ELSE {}

(* The calls that apply the options. *)
LEMMA SockOptCalls ==
  ASSUME NEW a \in Addresses, NEW o, Settable(o)
  PROVE  /\ SockOpts(a, o) \in Seq(Names)
         /\ Range(SockOpts(a, o)) =
              If(o.ReusePort \/ a.proto = "udp", {"reuseport"}) \cup If(o.ReuseAddr, {"reuseaddr"})
              \cup If(o.TCPNoDelay /\ a.proto = "tcp", {"nodelay"})
              \cup If(o.SocketRecvBuffer > 0, {"rcvbuf"}) \cup If(o.SocketSendBuffer > 0, {"sndbuf"})
              \cup If(a.proto = "udp" /\ a.ip \in Multicast,
                      Range(SetMulticastMembership(a, o.MulticastInterfaceIndex)))
<1> DEFINE c1 == o.ReusePort \/ a.proto = "udp"
           c2 == o.ReuseAddr
           c3 == o.TCPNoDelay /\ a.proto = "tcp"
           c4 == o.SocketRecvBuffer > 0
           c5 == o.SocketSendBuffer > 0
           c6 == a.proto = "udp" /\ a.ip \in Multicast
           m  == SetMulticastMembership(a, o.MulticastInterfaceIndex)
           w1 == When(c1, <<"reuseport">>)
           w2 == When(c2, <<"reuseaddr">>)
           w3 == When(c3, <<"nodelay">>)
           w4 == When(c4, <<"rcvbuf">>)
           w5 == When(c5, <<"sndbuf">>)
           w6 == When(c6, m)
<1>0. /\ c1 \in BOOLEAN /\ c2 \in BOOLEAN /\ c3 \in BOOLEAN
      /\ c4 \in BOOLEAN /\ c5 \in BOOLEAN /\ c6 \in BOOLEAN
  BY DEF Settable
<1>n. {"reuseport", "reuseaddr", "nodelay", "rcvbuf", "sndbuf"} \subseteq Names BY DEF Names
<1>m. m \in Seq(Names) BY MulticastCalls DEF Settable
<1> SUFFICES /\ ((((w1 \o w2) \o w3) \o w4) \o w5) \o w6 \in Seq(Names)
             /\ Range(((((w1 \o w2) \o w3) \o w4) \o w5) \o w6) =
                  If(c1, {"reuseport"}) \cup If(c2, {"reuseaddr"}) \cup If(c3, {"nodelay"})
                  \cup If(c4, {"rcvbuf"}) \cup If(c5, {"sndbuf"}) \cup If(c6, Range(m))
  BY DEF SockOpts
<1> HIDE DEF c1, c2, c3, c4, c5, c6, m
<1>1. w1 \in Seq(Names) /\ Range(w1) = If(c1, {"reuseport"}) BY <1>0, <1>n, OneCall, WhenCalls DEF If
<1>2. w2 \in Seq(Names) /\ Range(w2) = If(c2, {"reuseaddr"}) BY <1>0, <1>n, OneCall, WhenCalls DEF If
<1>3. w3 \in Seq(Names) /\ Range(w3) = If(c3, {"nodelay"}) BY <1>0, <1>n, OneCall, WhenCalls DEF If
<1>4. w4 \in Seq(Names) /\ Range(w4) = If(c4, {"rcvbuf"}) BY <1>0, <1>n, OneCall, WhenCalls DEF If
<1>5. w5 \in Seq(Names) /\ Range(w5) = If(c5, {"sndbuf"}) BY <1>0, <1>n, OneCall, WhenCalls DEF If
<1>6. w6 \in Seq(Names) /\ Range(w6) = If(c6, Range(m)) BY <1>0, <1>m, WhenCalls DEF If
<1> HIDE DEF w1, w2, w3, w4, w5, w6
<1>7. w1 \o w2 \in Seq(Names) /\ Range(w1 \o w2) = Range(w1) \cup Range(w2) BY <1>1, <1>2, JoinCalls
<1>8. /\ (w1 \o w2) \o w3 \in Seq(Names)
      /\ Range((w1 \o w2) \o w3) = Range(w1 \o w2) \cup Range(w3)
  BY <1>7, <1>3, JoinCalls
<1>9. /\ ((w1 \o w2) \o w3) \o w4 \in Seq(Names)
      /\ Range(((w1 \o w2) \o w3) \o w4) = Range((w1 \o w2) \o w3) \cup Range(w4)
  BY <1>8, <1>4, JoinCalls
<1>10. /\ (((w1 \o w2) \o w3) \o w4) \o w5 \in Seq(Names)
       /\ Range((((w1 \o w2) \o w3) \o w4) \o w5) = Range(((w1 \o w2) \o w3) \o w4) \cup Range(w5)
  BY <1>9, <1>5, JoinCalls
<1>11. /\ ((((w1 \o w2) \o w3) \o w4) \o w5) \o w6 \in Seq(Names)
       /\ Range(((((w1 \o w2) \o w3) \o w4) \o w5) \o w6)
            = Range((((w1 \o w2) \o w3) \o w4) \o w5) \cup Range(w6)
  BY <1>10, <1>6, JoinCalls
<1> QED BY <1>1, <1>2, <1>3, <1>4, <1>5, <1>6, <1>7, <1>8, <1>9, <1>10, <1>11, Zenon

(* The settings that are in force when every call of Settings was made. *)
InForce(a, o) ==
  If(o.ReusePort \/ a.proto = "udp", {"reuseport"}) \cup If(o.ReuseAddr, {"reuseaddr"})
  \cup If(o.TCPNoDelay /\ a.proto = "tcp", {"nodelay"})
  \cup If(o.SocketRecvBuffer > 0, {"rcvbuf"}) \cup If(o.SocketSendBuffer > 0, {"sndbuf"})
  \cup If(a.proto = "udp" /\ a.ip \in Multicast, {"membership"})
  \cup If(a.proto = "udp" /\ a.ip \in Multicast /\ o.MulticastInterfaceIndex > 0, {"multicast_if"})
  \cup If(a.proto \in {"tcp", "udp"} /\ (a.ip \in V6 \/ a.ver = "6"), {"v6only"})

Auxiliary == {"broadcast", "interface", "multicast_loop"}

(* What Settings does to the socket, and that it neither makes nor binds one. *)
LEMMA SettingsCalls ==
  ASSUME NEW a, Listens(a), NEW o, Settable(o)
  PROVE  /\ Settings(a, o) \in Seq(Names)
         /\ Range(Settings(a, o)) \ Auxiliary = InForce(a, o)
         /\ Range(Settings(a, o)) \cap {"socket", "bind", "listen"} = {}
<1>a. a \in Addresses BY DEF Listens
<1>p. a.proto \in {"tcp", "udp", "unix"} BY DEF Listens, Addresses
<1> DEFINE S == SockOpts(a, o)
           M == SetMulticastMembership(a, o.MulticastInterfaceIndex)
           V == When(GetTCPSockAddr(a).ipv6only, <<"v6only">>)
           sixth == a.ip \in V6 \/ a.ver = "6"
           mc == a.proto = "udp" /\ a.ip \in Multicast
<1>1. /\ S \in Seq(Names)
      /\ Range(S) = If(o.ReusePort \/ a.proto = "udp", {"reuseport"}) \cup If(o.ReuseAddr, {"reuseaddr"})
                    \cup If(o.TCPNoDelay /\ a.proto = "tcp", {"nodelay"})
                    \cup If(o.SocketRecvBuffer > 0, {"rcvbuf"}) \cup If(o.SocketSendBuffer > 0, {"sndbuf"})
                    \cup If(mc, Range(M))
  BY <1>a, SockOptCalls
<1>2. /\ Range(M) \ {"interface", "multicast_loop"}
           = {"membership"} \cup IF o.MulticastInterfaceIndex = 0 THEN {} ELSE {"multicast_if"}
      /\ Range(M) \subseteq {"interface", "multicast_if", "multicast_loop", "membership"}
  BY <1>a, MulticastCalls DEF Settable
<1>3. GetTCPSockAddr(a).ipv6only = sixth
  BY DEF Listens, Addresses, Resolves, GetTCPSockAddr, determineTCPProto, V4, V6
<1>4. GetUDPSockAddr(a).ipv6only = GetTCPSockAddr(a).ipv6only
  BY DEF GetUDPSockAddr, GetTCPSockAddr, determineUDPProto
<1>5. V \in Seq(Names) /\ Range(V) = If(sixth, {"v6only"})
  <2>1. sixth \in BOOLEAN /\ "v6only" \in Names BY DEF Names
  <2> QED BY <1>3, <2>1, OneCall, WhenCalls DEF If
<1>6. <<"broadcast">> \in Seq(Names) /\ Range(<<"broadcast">>) = {"broadcast"}
  <2>1. "broadcast" \in Names BY DEF Names
  <2> QED BY <2>1, OneCall
<1> HIDE DEF S, M, V
<1>7. V \o S \in Seq(Names) /\ Range(V \o S) = Range(V) \cup Range(S) BY <1>1, <1>5, JoinCalls
<1>8. <<"broadcast">> \o S \in Seq(Names) /\ Range(<<"broadcast">> \o S) = {"broadcast"} \cup Range(S)
  BY <1>1, <1>6, JoinCalls
<1>9. /\ V \o (<<"broadcast">> \o S) \in Seq(Names)
      /\ Range(V \o (<<"broadcast">> \o S)) = Range(V) \cup Range(<<"broadcast">> \o S)
  BY <1>5, <1>8, JoinCalls
<1>10. /\ Settings(a, o) \in Seq(Names)
       /\ Range(Settings(a, o)) \ Auxiliary = (Range(S) \ Auxiliary) \cup If(a.proto # "unix", Range(V))
       /\ Range(Settings(a, o)) \subseteq {"broadcast", "v6only"} \cup Range(S)
  <2>1. CASE a.proto = "tcp"
    <3>1. Settings(a, o) = V \o S BY <2>1 DEF Settings, V, S
    <3> QED BY <2>1, <3>1, <1>5, <1>7 DEF If, Auxiliary
  <2>2. CASE a.proto = "udp"
    <3>1. Settings(a, o) = V \o (<<"broadcast">> \o S) BY <2>2, <1>4 DEF Settings, V, S
    <3> QED BY <2>2, <3>1, <1>5, <1>8, <1>9 DEF If, Auxiliary
  <2>3. CASE a.proto = "unix"
    <3>1. Settings(a, o) = S BY <2>3 DEF Settings, S
    <3> QED BY <2>3, <3>1, <1>1 DEF If, Auxiliary
  <2> QED BY <1>p, <2>1, <2>2, <2>3
<1>11. Range(Settings(a, o)) \ Auxiliary = InForce(a, o)
  <2>1. If(mc, Range(M)) \ Auxiliary
          = If(mc, {"membership"}) \cup If(mc /\ o.MulticastInterfaceIndex > 0, {"multicast_if"})
    BY <1>2 DEF If, Auxiliary, Settable
  <2>2. If(a.proto # "unix", Range(V)) = If(a.proto \in {"tcp", "udp"} /\ sixth, {"v6only"})
    BY <1>5, <1>p DEF If
  <2>3. (Range(S) \ Auxiliary) =
          If(o.ReusePort \/ a.proto = "udp", {"reuseport"}) \cup If(o.ReuseAddr, {"reuseaddr"})
          \cup If(o.TCPNoDelay /\ a.proto = "tcp", {"nodelay"})
          \cup If(o.SocketRecvBuffer > 0, {"rcvbuf"}) \cup If(o.SocketSendBuffer > 0, {"sndbuf"})
          \cup (If(mc, Range(M)) \ Auxiliary)
    BY <1>1 DEF If, Auxiliary
  <2> QED BY <1>10, <2>1, <2>2, <2>3 DEF InForce
<1>12. Range(Settings(a, o)) \cap {"socket", "bind", "listen"} = {}
  <2>1. Range(S) \cap {"socket", "bind", "listen"} = {} BY <1>1, <1>2 DEF If
  <2> QED BY <1>10, <2>1
<1> QED BY <1>10, <1>11, <1>12

(* The place of bind. *)
Place(a, o) == Len(Settings(a, o)) + 2

(* The list of a listener's calls, place by place. *)
LEMMA CallsInOrder ==
  ASSUME NEW a, Listens(a), NEW o, Settable(o)
  PROVE  /\ ListenerCalls(a, o) \in Seq(Names)
         /\ Place(a, o) \in Nat \ {0, 1}
         /\ Len(ListenerCalls(a, o)) = Place(a, o) + IF a.proto = "udp" THEN 0 ELSE 1
         /\ ListenerCalls(a, o)[1] = "socket"
         /\ \A i \in 2..(Place(a, o) - 1) : ListenerCalls(a, o)[i] = Settings(a, o)[i - 1]
         /\ \A i \in 2..(Place(a, o) - 1) : ListenerCalls(a, o)[i] \notin {"socket", "bind", "listen"}
         /\ ListenerCalls(a, o)[Place(a, o)] = "bind"
         /\ a.proto # "udp" => ListenerCalls(a, o)[Place(a, o) + 1] = "listen"
<1>p. a.proto \in {"tcp", "udp", "unix"} BY DEF Listens, Addresses
<1> DEFINE T == Settings(a, o)
           C == ListenerCalls(a, o)
           S == SockOpts(a, o)
           V == When(GetTCPSockAddr(a).ipv6only, <<"v6only">>)
<1>1. T \in Seq(Names) /\ Range(T) \cap {"socket", "bind", "listen"} = {} BY SettingsCalls
<1>2. S \in Seq(Names) BY SockOptCalls DEF Listens
<1>3. V \in Seq(Names)
  <2>1. GetTCPSockAddr(a).ipv6only \in BOOLEAN BY DEF GetTCPSockAddr
  <2>2. <<"v6only">> \in Seq(Names) BY OneCall DEF Names
  <2> QED BY <2>1, <2>2, WhenCalls
<1>4. /\ <<"socket">> \in Seq(Names) /\ <<"broadcast">> \in Seq(Names)
      /\ <<"bind">> \in Seq(Names) /\ <<"bind", "listen">> \in Seq(Names)
  BY OneCall, TwoCalls DEF Names
<1>5. GetUDPSockAddr(a).ipv6only = GetTCPSockAddr(a).ipv6only
  BY DEF GetUDPSockAddr, GetTCPSockAddr, determineUDPProto
<1>6. C = (<<"socket">> \o T) \o FromBind(a)
  <2>1. CASE a.proto = "tcp"
    <3>1. C = ((<<"socket">> \o V) \o S) \o <<"bind", "listen">> BY <2>1 DEF ListenerCalls, tcpSocket
    <3>2. T = V \o S BY <2>1 DEF Settings
    <3> HIDE DEF C, T, V, S
    <3>3. (<<"socket">> \o V) \o S = <<"socket">> \o (V \o S) BY <1>2, <1>3, <1>4, ConcatAssociative
    <3> QED BY <2>1, <3>1, <3>2, <3>3 DEF FromBind
  <2>2. CASE a.proto = "udp"
    <3>1. C = (((<<"socket">> \o V) \o <<"broadcast">>) \o S) \o <<"bind">>
      BY <2>2, <1>5 DEF ListenerCalls, udpSocket
    <3>2. T = V \o (<<"broadcast">> \o S) BY <2>2, <1>5 DEF Settings
    <3> HIDE DEF C, T, V, S
    <3>3. /\ <<"broadcast">> \o S \in Seq(Names) /\ <<"socket">> \o V \in Seq(Names)
      BY <1>2, <1>3, <1>4, JoinCalls
    <3>4. ((<<"socket">> \o V) \o <<"broadcast">>) \o S = (<<"socket">> \o V) \o (<<"broadcast">> \o S)
      <4> DEFINE x == <<"socket">> \o V
                 y == <<"broadcast">>
                 N == Names
      <4>1. x \in Seq(N) /\ y \in Seq(N) /\ S \in Seq(N) BY <1>2, <1>4, <3>3
      <4> HIDE DEF x, y, N
      <4>2. (x \o y) \o S = x \o (y \o S) BY ONLY <4>1, ConcatAssociative
      <4> QED BY <4>2 DEF x, y
    <3>5. (<<"socket">> \o V) \o (<<"broadcast">> \o S) = <<"socket">> \o (V \o (<<"broadcast">> \o S))
      <4> DEFINE x == <<"socket">>
                 y == <<"broadcast">> \o S
                 N == Names
      <4>1. x \in Seq(N) /\ V \in Seq(N) /\ y \in Seq(N) BY <1>3, <1>4, <3>3
      <4> HIDE DEF x, y, N
      <4>2. (x \o V) \o y = x \o (V \o y) BY ONLY <4>1, ConcatAssociative
      <4> QED BY <4>2 DEF x, y
    <3> QED BY <2>2, <3>1, <3>2, <3>4, <3>5 DEF FromBind
  <2>3. CASE a.proto = "unix"
    BY <2>3 DEF ListenerCalls, udsSocket, Settings, FromBind
  <2> QED BY <1>p, <2>1, <2>2, <2>3
<1>7. /\ FromBind(a) \in Seq(Names) /\ FromBind(a)[1] = "bind"
      /\ Len(FromBind(a)) = IF a.proto = "udp" THEN 1 ELSE 2
      /\ a.proto # "udp" => FromBind(a)[2] = "listen"
  BY <1>4 DEF FromBind
<1>8. \A i \in 1..Len(T) : T[i] \in Range(T)
  <2> HIDE DEF T
  <2>1. DOMAIN T = 1..Len(T) BY <1>1
  <2> QED BY <2>1 DEF Range
<1> HIDE DEF C, T, V, S
<1>9. /\ C \in Seq(Names) /\ Len(C) = (1 + Len(T)) + Len(FromBind(a))
      /\ C[1] = "socket" /\ \A i \in 2..(Len(T) + 1) : C[i] = T[i - 1]
      /\ C[Len(T) + 2] = "bind"
      /\ a.proto # "udp" => C[Len(T) + 3] = "listen"
  <2> DEFINE ST == <<"socket">> \o T
  <2>1. /\ ST \in Seq(Names) /\ Len(ST) = 1 + Len(T) /\ ST[1] = "socket"
        /\ \A i \in 2..(Len(T) + 1) : ST[i] = T[i - 1]
    BY <1>1, <1>4
  <2>2. C = ST \o FromBind(a) BY <1>6
  <2> HIDE DEF ST
  <2>3. Len(T) \in Nat BY <1>1
  <2>4. C \in Seq(Names) /\ Len(C) = Len(ST) + Len(FromBind(a)) BY <1>7, <2>1, <2>2, ConcatProperties
  <2>5. \A i \in 1..Len(ST) : C[i] = ST[i] BY <1>7, <2>1, <2>2
  <2>6. \A i \in 1..Len(FromBind(a)) : C[Len(ST) + i] = FromBind(a)[i] BY <1>7, <2>1, <2>2
  <2>7. C[1] = "socket" BY <2>1, <2>3, <2>5
  <2>8. \A i \in 2..(Len(T) + 1) : C[i] = T[i - 1] BY <2>1, <2>3, <2>5
  <2>9. C[(1 + Len(T)) + 1] = "bind" BY <1>7, <2>1, <2>3, <2>6
  <2>10. a.proto # "udp" => C[(1 + Len(T)) + 2] = "listen" BY <1>7, <2>1, <2>3, <2>6
  <2>11. (1 + Len(T)) + 1 = Len(T) + 2 /\ (1 + Len(T)) + 2 = Len(T) + 3 BY <2>3
  <2> QED BY <2>1, <2>4, <2>7, <2>8, <2>9, <2>10, <2>11
<1>10. \A i \in 2..(Len(T) + 1) : C[i] \notin {"socket", "bind", "listen"}
  <2>1. \A i \in 2..(Len(T) + 1) : i - 1 \in 1..Len(T) BY <1>1
  <2> QED BY <1>1, <1>8, <1>9, <2>1
<1>11. /\ Place(a, o) = Len(T) + 2 /\ Place(a, o) - 1 = Len(T) + 1 /\ Len(T) \in Nat
       /\ Place(a, o) + 1 = Len(T) + 3
  BY <1>1 DEF Place, T
<1>12. Len(C) = Place(a, o) + IF a.proto = "udp" THEN 0 ELSE 1 BY <1>7, <1>9, <1>11
<1>13. Place(a, o) \in Nat \ {0, 1} BY <1>11
<1> QED BY <1>9, <1>10, <1>11, <1>12, <1>13 DEF C, T

-----------------------------------------------------------------------------
(* The inductive invariant *)

L == ListenerCalls(addr, opts)

TypeInv == /\ pc \in {"options", "listener", "start", "serving", "stopped"}
           /\ asked \in Options /\ calls \in Seq(Names) /\ made \in Seq(Names)
           /\ file \in BOOLEAN /\ kept \in BOOLEAN

\* Nothing is open while the options are collected.
OptionsInv == pc = "options" => addr = NoAddr /\ made = << >> /\ sock = "none" /\ poller = "none"

\* From normalize on the address and the options are fixed.
FixedInv == pc \in {"listener", "start", "serving"} => Listens(addr) /\ opts = Normalized(asked)

\* made and calls are the two parts of the listener's calls; the descriptor is open
\* once socket was made, and a unix socket's file exists only once bind was, or if
\* it could not be removed.
ListenerInv ==
  pc = "listener" =>
    /\ Len(calls) > 0 /\ Len(made) + Len(calls) = Len(L)
    /\ \A i \in 1..Len(made) : made[i] = L[i]
    /\ \A i \in 1..Len(calls) : calls[i] = L[Len(made) + i]
    /\ sock = IF Len(made) = 0 THEN "none" ELSE "open"
    /\ poller = "none"
    /\ addr.proto = "unix" /\ file => Len(made) >= Place(addr, opts) \/ kept

\* The listener's calls were all made, and those of StartCalls that come before calls;
\* the poller is open once the first of them was.
StartInv ==
  pc = "start" =>
    /\ Len(calls) > 0 /\ Len(made) >= Len(L) /\ Len(made) + Len(calls) = Len(L) + 3
    /\ \A i \in 1..Len(L) : made[i] = L[i]
    /\ \A i \in (Len(L) + 1)..Len(made) : made[i] # "bind"
    /\ \A i \in 1..Len(calls) : calls[i] = StartCalls[(Len(made) - Len(L)) + i]
    /\ sock = "open"
    /\ poller = IF Len(made) = Len(L) THEN "none" ELSE "open"

ServingInv ==
  pc = "serving" =>
    /\ Len(made) >= Len(L) /\ \A i \in 1..Len(L) : made[i] = L[i]
    /\ \A i \in (Len(L) + 1)..Len(made) : made[i] # "bind"
    /\ sock = "open" /\ poller = "open"
    /\ size \in MinPollEventsCap..MaxPollEventsCap

StoppedInv == NothingLeft /\ (pc = "stopped" /\ addr # NoAddr => opts = Normalized(asked))

Inv == TypeInv /\ OptionsInv /\ FixedInv /\ ListenerInv /\ StartInv /\ ServingInv /\ StoppedInv

(* Every With... function leaves options that Server may get. *)
LEMMA OptionGiven ==
  ASSUME NEW r \in Options, NEW f \in DOMAIN Zero, NEW v \in Values(f)
  PROVE  [r EXCEPT ![f] = v] \in Options
<1>1. f \in {"Multicore", "NumEventLoop", "LockOSThread", "ReadBufferCap", "WriteBufferCap", "ReusePort",
             "ReuseAddr", "TCPNoDelay", "SocketRecvBuffer", "SocketSendBuffer", "MulticastInterfaceIndex"}
  BY DEF Zero
<1>2. CASE f \in {"ReadBufferCap", "WriteBufferCap"}
  <2>1. v \in SUBSET (0..62) BY <1>2, StartupAssumption DEF Values
  <2> QED BY <1>2, <2>1 DEF Options
<1>3. CASE f = "NumEventLoop"
  <2>1. v \in Int BY <1>3 DEF Values
  <2> QED BY <1>3, <2>1 DEF Options
<1>4. CASE f \in {"SocketRecvBuffer", "SocketSendBuffer", "MulticastInterfaceIndex"}
  <2>1. v \in 0..1 BY <1>4 DEF Values
  <2> QED BY <1>4, <2>1 DEF Options
<1>5. CASE f \in {"Multicore", "LockOSThread", "ReusePort", "ReuseAddr", "TCPNoDelay"}
  <2>1. v \in BOOLEAN BY <1>5 DEF Values
  <2>2. CASE f = "Multicore" BY <2>1, <2>2 DEF Options
  <2>3. CASE f = "LockOSThread" BY <2>1, <2>3 DEF Options
  <2>4. CASE f = "ReusePort" BY <2>1, <2>4 DEF Options
  <2>5. CASE f = "ReuseAddr" BY <2>1, <2>5 DEF Options
  <2>6. CASE f = "TCPNoDelay" BY <2>1, <2>6 DEF Options
  <2> QED BY <1>5, <2>2, <2>3, <2>4, <2>5, <2>6
<1> QED BY <1>1, <1>2, <1>3, <1>4, <1>5

(* Options that nobody has set. *)
LEMMA NoOptions == Zero \in Options
BY DEF Zero, Options

(* Server leaves the options that reach the socket as they were given. *)
LEMMA NormalizedFields ==
  ASSUME NEW r \in Options
  PROVE  LET o == Normalized(r) IN
         /\ o.ReadBufferCap = BufferCap(r.ReadBufferCap) /\ o.WriteBufferCap = BufferCap(r.WriteBufferCap)
         /\ o.ReusePort = r.ReusePort /\ o.ReuseAddr = r.ReuseAddr /\ o.TCPNoDelay = r.TCPNoDelay
         /\ o.SocketRecvBuffer = r.SocketRecvBuffer /\ o.SocketSendBuffer = r.SocketSendBuffer
         /\ o.MulticastInterfaceIndex = r.MulticastInterfaceIndex
         /\ Settable(o)
BY DEF Normalized, Options, Settable

(* CallsInOrder for the options and the address of a Server. *)
LEMMA CallsOfServer ==
  ASSUME NEW a, Listens(a), NEW r \in Options, NEW o, o = Normalized(r)
  PROVE  /\ ListenerCalls(a, o) \in Seq(Names)
         /\ Place(a, o) \in Nat \ {0, 1}
         /\ Len(ListenerCalls(a, o)) = Place(a, o) + IF a.proto = "udp" THEN 0 ELSE 1
         /\ ListenerCalls(a, o)[1] = "socket"
         /\ \A i \in 2..(Place(a, o) - 1) : ListenerCalls(a, o)[i] = Settings(a, o)[i - 1]
         /\ \A i \in 2..(Place(a, o) - 1) : ListenerCalls(a, o)[i] \notin {"socket", "bind", "listen"}
         /\ ListenerCalls(a, o)[Place(a, o)] = "bind"
         /\ a.proto # "udp" => ListenerCalls(a, o)[Place(a, o) + 1] = "listen"
         /\ Settings(a, o) \in Seq(Names)
         /\ Range(Settings(a, o)) \ Auxiliary = InForce(a, o)
         /\ Range(Settings(a, o)) \cap {"socket", "bind", "listen"} = {}
         /\ Place(a, o) = Len(Settings(a, o)) + 2
<1>1. Settable(o) BY NormalizedFields
<1>2. Place(a, o) = Len(Settings(a, o)) + 2 BY DEF Place
<1>3. /\ Settings(a, o) \in Seq(Names)
      /\ Range(Settings(a, o)) \ Auxiliary = InForce(a, o)
      /\ Range(Settings(a, o)) \cap {"socket", "bind", "listen"} = {}
  BY <1>1, SettingsCalls, Zenon
<1>4. /\ ListenerCalls(a, o) \in Seq(Names)
      /\ Place(a, o) \in Nat \ {0, 1}
      /\ Len(ListenerCalls(a, o)) = Place(a, o) + IF a.proto = "udp" THEN 0 ELSE 1
      /\ ListenerCalls(a, o)[1] = "socket"
      /\ \A i \in 2..(Place(a, o) - 1) : ListenerCalls(a, o)[i] = Settings(a, o)[i - 1]
      /\ \A i \in 2..(Place(a, o) - 1) : ListenerCalls(a, o)[i] \notin {"socket", "bind", "listen"}
      /\ ListenerCalls(a, o)[Place(a, o)] = "bind"
      /\ a.proto # "udp" => ListenerCalls(a, o)[Place(a, o) + 1] = "listen"
  BY <1>1, CallsInOrder
<1> QED BY <1>2, <1>3, <1>4, Zenon

(* The invariant holds before the first option. *)
LEMMA Initially == Init => Inv
<1> SUFFICES ASSUME Init PROVE Inv OBVIOUS
<1> USE DEF Init
<1>1. TypeInv
  <2>1. kept \in BOOLEAN BY Zenon
  <2> QED BY <2>1, NoOptions DEF TypeInv
<1>2. StoppedInv BY DEF StoppedInv, NothingLeft
<1> QED BY <1>1, <1>2 DEF Inv, OptionsInv, FixedInv, ListenerInv, StartInv, ServingInv

(* Where a Server that makes its socket has come to. *)
LEMMA AtListener ==
  ASSUME Inv, pc = "listener"
  PROVE  /\ Listens(addr) /\ asked \in Options /\ opts = Normalized(asked) /\ file \in BOOLEAN
         /\ calls \in Seq(Names) /\ made \in Seq(Names) /\ calls # << >>
         /\ Len(made) \in Nat /\ Len(calls) \in Nat \ {0} /\ Len(L) \in Nat
         /\ Len(made) + Len(calls) = Len(L)
         /\ Head(calls) = L[Len(made) + 1]
         /\ (Head(calls) = "socket") = (Len(made) = 0)
         /\ (Head(calls) = "bind") = (Len(made) + 1 = Place(addr, opts))
         /\ Place(addr, opts) \in Nat \ {0, 1}
         /\ Len(made) >= Place(addr, opts) => Head(calls) = "listen"
<1>1. /\ Listens(addr) /\ asked \in Options /\ opts = Normalized(asked) /\ file \in BOOLEAN
      /\ calls \in Seq(Names) /\ made \in Seq(Names)
  BY DEF Inv, TypeInv, FixedInv
<1>2. /\ Len(calls) > 0 /\ Len(made) + Len(calls) = Len(L) /\ calls[1] = L[Len(made) + 1]
  BY <1>1 DEF Inv, ListenerInv
<1>3. calls # << >> /\ Head(calls) = calls[1] BY <1>1, <1>2
<1>4. /\ L \in Seq(Names)
      /\ Place(addr, opts) \in Nat \ {0, 1}
      /\ Len(L) = Place(addr, opts) + IF addr.proto = "udp" THEN 0 ELSE 1
      /\ L[1] = "socket"
      /\ \A i \in 2..(Place(addr, opts) - 1) : L[i] \notin {"socket", "bind", "listen"}
      /\ L[Place(addr, opts)] = "bind"
      /\ addr.proto # "udp" => L[Place(addr, opts) + 1] = "listen"
  BY <1>1, CallsOfServer DEF L
<1>5. Len(made) \in Nat /\ Len(calls) \in Nat \ {0} /\ Len(L) \in Nat BY <1>1, <1>2, <1>4
<1> DEFINE k == Len(made) + 1
           n == Place(addr, opts)
<1>6. k \in 1..Len(L) BY <1>2, <1>5
<1>7. \/ k = 1 \/ k \in 2..(n - 1) \/ k = n \/ (addr.proto # "udp" /\ k = n + 1)
  BY <1>4, <1>5, <1>6
<1>8. n >= 2 /\ k >= 1 BY <1>4, <1>5
<1>9. Head(calls) = L[k] BY <1>2, <1>3
<1>10. CASE k = 1 BY <1>1, <1>2, <1>3, <1>4, <1>5, <1>9, <1>10
<1>11. CASE k \in 2..(n - 1)
  <2>1. Head(calls) \notin {"socket", "bind", "listen"} BY <1>4, <1>9, <1>11
  <2>2. Len(made) # 0 /\ k # n /\ ~(Len(made) >= n) BY <1>4, <1>5, <1>11
  <2> QED BY <1>1, <1>2, <1>3, <1>4, <1>5, <2>1, <2>2
<1>12. CASE k = n BY <1>1, <1>2, <1>3, <1>4, <1>5, <1>9, <1>12
<1>13. CASE addr.proto # "udp" /\ k = n + 1 BY <1>1, <1>2, <1>3, <1>4, <1>5, <1>9, <1>13
<1> QED BY <1>7, <1>10, <1>11, <1>12, <1>13

(* Every step keeps it, action by action. *)
LEMMA Step == Inv /\ [Next]_vars => Inv'
<1> SUFFICES ASSUME Inv, [Next]_vars PROVE Inv' OBVIOUS
<1>t. /\ pc \in {"options", "listener", "start", "serving", "stopped"}
      /\ asked \in Options /\ calls \in Seq(Names) /\ made \in Seq(Names)
      /\ file \in BOOLEAN /\ kept \in BOOLEAN
  BY DEF Inv, TypeInv
<1>r. ASSUME NEW a, RemoveAll(a)
      PROVE  file' \in BOOLEAN /\ kept' \in BOOLEAN /\ (a.proto = "unix" /\ file' => kept')
  BY <1>t, <1>r DEF RemoveAll, fileRemoved
<1>1. ASSUME NEW f \in DOMAIN Zero, With(f) PROVE Inv'
  <2>1. /\ pc = "options" /\ UNCHANGED <<pc, addr, calls, made, sock, poller, file, kept>> BY <1>1 DEF With
  <2>2. asked' \in Options
    <3>1. PICK v \in Values(f), base \in {asked, Zero} : asked' = [base EXCEPT ![f] = v] BY <1>1 DEF With
    <3>2. base \in Options BY <1>t, NoOptions
    <3> QED BY <3>1, <3>2, OptionGiven
  <2>3. TypeInv' BY <1>t, <2>1, <2>2 DEF TypeInv
  <2>4. OptionsInv' BY <2>1 DEF Inv, OptionsInv
  <2> QED BY <2>1, <2>3, <2>4
        DEF Inv, FixedInv, ListenerInv, StartInv, ServingInv, StoppedInv, NothingLeft
<1>2. CASE Refuse
  <2>1. /\ pc = "options" /\ pc' = "stopped"
        /\ UNCHANGED <<asked, calls, made, sock, poller, file, kept>>
    BY <1>2 DEF Refuse, Stop
  <2>2. sock = "none" /\ poller = "none" /\ addr = NoAddr BY <2>1 DEF Inv, OptionsInv
  <2>3. \/ addr' = NoAddr
        \/ addr'.proto # "unix" /\ opts' = Normalized(asked)
    <3>1. CASE UNCHANGED <<opts, addr>> BY <2>2, <3>1
    <3>2. CASE \E a \in Addresses :
                 /\ a.proto = "other" \/ (a.proto \in {"tcp", "udp"} /\ ~Resolves(a))
                 /\ addr' = a /\ opts' = Normalized(asked)
      BY <3>2
    <3> QED BY <1>2, <3>1, <3>2 DEF Refuse
  <2>4. StoppedInv' BY <2>1, <2>2, <2>3 DEF StoppedInv, NothingLeft
  <2>5. TypeInv' BY <1>t, <2>1 DEF TypeInv
  <2> QED BY <2>1, <2>4, <2>5 DEF Inv, OptionsInv, FixedInv, ListenerInv, StartInv, ServingInv
<1>3. CASE normalize
  <2>1. /\ pc = "options" /\ pc' = "listener" /\ UNCHANGED <<asked, made, sock, poller>>
    BY <1>3 DEF normalize
  <2>2. PICK a \in Addresses : /\ a.proto # "other" /\ Resolves(a)
                               /\ addr' = a /\ opts' = Normalized(asked)
                               /\ calls' = ListenerCalls(a, opts')
                               /\ RemoveAll(a)
    BY <1>3 DEF normalize
  <2>3. Listens(a) BY <2>2 DEF Listens
  <2>4. /\ ListenerCalls(a, opts') \in Seq(Names) /\ Len(ListenerCalls(a, opts')) > 0
    <3> DEFINE n == Place(a, opts')
    <3>1. /\ ListenerCalls(a, opts') \in Seq(Names) /\ n \in Nat \ {0, 1}
          /\ Len(ListenerCalls(a, opts')) = n + IF a.proto = "udp" THEN 0 ELSE 1
      BY <1>t, <2>2, <2>3, CallsOfServer
    <3> HIDE DEF n
    <3> QED BY <3>1
  <2>5. sock = "none" /\ poller = "none" /\ made = << >> BY <2>1 DEF Inv, OptionsInv
  <2>6. file' \in BOOLEAN /\ kept' \in BOOLEAN /\ (a.proto = "unix" /\ file' => kept') BY <1>r, <2>2
  <2>7. TypeInv' BY <1>t, <2>1, <2>2, <2>4, <2>6 DEF TypeInv
  <2>8. L' = ListenerCalls(a, opts') BY <2>2 DEF L
  <2>9. ListenerInv' 
    <3>1. Len(calls') > 0 /\ Len(made') = 0 /\ Len(made') + Len(calls') = Len(L')
      BY <2>1, <2>2, <2>4, <2>5, <2>8
    <3>2. \A i \in 1..Len(calls') : calls'[i] = L'[Len(made') + i] BY <2>2, <2>8, <3>1
    <3> QED BY <2>1, <2>2, <2>5, <2>6, <3>1, <3>2 DEF ListenerInv
  <2>10. FixedInv' BY <2>1, <2>2, <2>3 DEF FixedInv
  <2> QED BY <2>1, <2>7, <2>9, <2>10 DEF Inv, OptionsInv, StartInv, ServingInv, StoppedInv, NothingLeft
<1>4. CASE ListenerCall
  <2>1. /\ pc = "listener" /\ UNCHANGED <<asked, opts, addr, poller, kept>>
        /\ made' = Append(made, Head(calls))
        /\ sock' = IF Head(calls) = "socket" THEN "open" ELSE sock
        /\ file' = (file \/ (Head(calls) = "bind" /\ addr.proto = "unix"))
        /\ IF Tail(calls) = << >> THEN pc' = "start" /\ calls' = StartCalls
           ELSE pc' = "listener" /\ calls' = Tail(calls)
    BY <1>4 DEF ListenerCall
  <2>2. /\ Listens(addr) /\ opts = Normalized(asked)
        /\ calls # << >>
        /\ Len(made) \in Nat /\ Len(calls) \in Nat \ {0} /\ Len(L) \in Nat
        /\ Len(made) + Len(calls) = Len(L)
        /\ Head(calls) = L[Len(made) + 1]
        /\ (Head(calls) = "socket") = (Len(made) = 0)
        /\ (Head(calls) = "bind") = (Len(made) + 1 = Place(addr, opts))
        /\ Place(addr, opts) \in Nat \ {0, 1}
    BY <2>1, AtListener
  <2>3. /\ \A i \in 1..Len(made) : made[i] = L[i]
        /\ \A i \in 1..Len(calls) : calls[i] = L[Len(made) + i]
        /\ sock = IF Len(made) = 0 THEN "none" ELSE "open"
        /\ poller = "none"
        /\ addr.proto = "unix" /\ file => Len(made) >= Place(addr, opts) \/ kept
    BY <2>1 DEF Inv, ListenerInv
  <2>4. L' = L /\ Place(addr, opts)' = Place(addr, opts) BY <2>1 DEF L
  <2>5. Head(calls) \in Names BY <1>t, <2>2
  <2>6. /\ made' \in Seq(Names) /\ Len(made') = Len(made) + 1
        /\ \A i \in 1..Len(made) : made'[i] = made[i]
        /\ made'[Len(made) + 1] = Head(calls)
    BY <1>t, <2>1, <2>5
  <2>7. \A i \in 1..Len(made') : made'[i] = L[i]
    <3>1. \A i \in 1..Len(made') : i \in 1..Len(made) \/ i = Len(made) + 1 BY <2>2, <2>6
    <3> QED BY <2>2, <2>3, <2>6, <3>1
  <2>8. /\ Tail(calls) \in Seq(Names) /\ Len(Tail(calls)) = Len(calls) - 1
        /\ \A i \in 1..Len(Tail(calls)) : Tail(calls)[i] = calls[i + 1]
    BY <1>t, <2>2, HeadTailProperties
  <2>9. sock' = "open" BY <2>1, <2>2, <2>3
  <2>10. file' \in BOOLEAN /\ (addr.proto = "unix" /\ file' => Len(made') >= Place(addr, opts) \/ kept)
    BY <1>t, <2>1, <2>2, <2>3, <2>6
  <2>11. FixedInv' BY <2>1, <2>2 DEF FixedInv
  <2>12. CASE Tail(calls) = << >>
    <3>1. pc' = "start" /\ calls' = StartCalls BY <2>1, <2>12
    <3>2. /\ StartCalls \in Seq(Names) /\ Len(StartCalls) = 3 BY DEF StartCalls, Names
    <3>3. Len(made') = Len(L)
      <4>1. Len(Tail(calls)) = 0 BY <2>12, EmptySeq
      <4>2. Len(calls) = 1
        <5> DEFINE c == Len(calls)
                   d == Len(Tail(calls))
        <5>1. c \in Nat \ {0} /\ d = c - 1 /\ d = 0 BY <2>2, <2>8, <4>1
        <5> HIDE DEF c, d
        <5>2. c = 1 BY <5>1
        <5> QED BY <5>2 DEF c
      <4> QED BY <2>2, <2>6, <4>2
    <3>4. TypeInv' BY <1>t, <2>1, <2>6, <2>10, <3>1, <3>2 DEF TypeInv
    <3>5. \A i \in 1..Len(calls') : calls'[i] = StartCalls[(Len(made') - Len(L)) + i] BY <2>2, <3>1, <3>2, <3>3
    <3>7. \A i \in (Len(L) + 1)..Len(made') : made'[i] # "bind" BY <2>2, <3>3
    <3>8. poller' = "none" /\ Len(L) \in Nat BY <2>1, <2>2, <2>3
    <3>9. Len(calls') = 3 /\ Len(made') >= Len(L) /\ Len(made') + Len(calls') = Len(L) + 3
      BY <3>1, <3>2, <3>3, <3>8
    <3>10. \A i \in 1..Len(L) : made'[i] = L[i] BY <2>7, <3>3
    <3>6. StartInv' BY ONLY <2>4, <2>9, <3>3, <3>5, <3>7, <3>8, <3>9, <3>10 DEF StartInv
    <3> QED BY <2>11, <3>1, <3>4, <3>6 DEF Inv, OptionsInv, ListenerInv, ServingInv, StoppedInv, NothingLeft
  <2>13. CASE Tail(calls) # << >>
    <3>1. pc' = "listener" /\ calls' = Tail(calls) BY <2>1, <2>13
    <3>2. Len(calls') > 0 BY <2>8, <2>13, <3>1
    <3>3. Len(made') + Len(calls') = Len(L) BY <2>2, <2>6, <2>8, <3>1
    <3>4. \A i \in 1..Len(calls') : calls'[i] = L[Len(made') + i]
      <4> SUFFICES ASSUME NEW i \in 1..Len(calls') PROVE calls'[i] = L[Len(made') + i] OBVIOUS
      <4>1. i + 1 \in 1..Len(calls) /\ Len(made') + i = Len(made) + (i + 1) BY <2>2, <2>6, <2>8, <3>1
      <4> QED BY <2>3, <2>8, <3>1, <4>1
    <3>5. TypeInv' BY <1>t, <2>1, <2>6, <2>8, <2>10, <3>1 DEF TypeInv
    <3>6. Len(made') # 0 BY <2>2, <2>6
    <3>7. ListenerInv' BY <2>1, <2>3, <2>4, <2>7, <2>9, <2>10, <3>1, <3>2, <3>3, <3>4, <3>6 DEF ListenerInv
    <3> QED BY <2>11, <3>1, <3>5, <3>7 DEF Inv, OptionsInv, StartInv, ServingInv, StoppedInv, NothingLeft
  <2> QED BY <2>12, <2>13
<1>5. CASE ListenerCallFails
  <2>1. /\ pc = "listener" /\ pc' = "stopped" /\ failed' = Head(calls)
        /\ sock' = IF Head(calls) = "socket" THEN sock ELSE Close(sock)
        /\ UNCHANGED <<asked, opts, addr, calls, made, poller, file, kept>>
    BY <1>5 DEF ListenerCallFails, Stop
  <2>2. /\ opts = Normalized(asked)
        /\ (Head(calls) = "socket") = (Len(made) = 0)
        /\ Len(made) >= Place(addr, opts) => Head(calls) = "listen"
    BY <2>1, AtListener
  <2>3. /\ sock = IF Len(made) = 0 THEN "none" ELSE "open"
        /\ poller = "none"
        /\ addr.proto = "unix" /\ file => Len(made) >= Place(addr, opts) \/ kept
    BY <2>1 DEF Inv, ListenerInv
  <2>4. sock' \in {"none", "closed"} BY <2>1, <2>2, <2>3 DEF Close
  <2>5. StoppedInv' BY <2>1, <2>2, <2>3, <2>4 DEF StoppedInv, NothingLeft
  <2>6. TypeInv' BY <1>t, <2>1 DEF TypeInv
  <2> QED BY <2>1, <2>5, <2>6 DEF Inv, OptionsInv, FixedInv, ListenerInv, StartInv, ServingInv
<1>s. ASSUME pc = "start"
      PROVE  /\ Len(calls) \in 1..3 /\ Len(made) \in Nat /\ Len(L) \in Nat /\ calls # << >>
             /\ Len(made) + Len(calls) = Len(L) + 3 /\ Len(made) >= Len(L)
             /\ \A i \in 1..Len(L) : made[i] = L[i]
             /\ \A i \in (Len(L) + 1)..Len(made) : made[i] # "bind"
             /\ \A i \in 1..Len(calls) : calls[i] = StartCalls[(Len(made) - Len(L)) + i]
             /\ (Head(calls) = "epoll_create") = (Len(made) = Len(L))
             /\ Head(calls) \in {"epoll_create", "nonblock", "add_read"}
             /\ sock = "open" /\ poller = IF Len(made) = Len(L) THEN "none" ELSE "open"
             /\ Listens(addr) /\ opts = Normalized(asked)
  <2>1. /\ Len(calls) > 0 /\ Len(made) >= Len(L) /\ Len(made) + Len(calls) = Len(L) + 3
        /\ \A i \in 1..Len(L) : made[i] = L[i]
        /\ \A i \in (Len(L) + 1)..Len(made) : made[i] # "bind"
        /\ \A i \in 1..Len(calls) : calls[i] = StartCalls[(Len(made) - Len(L)) + i]
        /\ sock = "open" /\ poller = IF Len(made) = Len(L) THEN "none" ELSE "open"
        /\ Listens(addr) /\ opts = Normalized(asked)
    BY <1>s DEF Inv, StartInv, FixedInv
  <2>2. L \in Seq(Names) BY <1>t, <2>1, CallsOfServer DEF L
  <2>3. Len(calls) \in Nat /\ Len(made) \in Nat /\ Len(L) \in Nat BY <1>t, <2>2
  <2>4. calls # << >> /\ Head(calls) = calls[1] BY <1>t, <2>1
  <2> DEFINE k == (Len(made) - Len(L)) + 1
  <2>5. /\ k \in 1..3 /\ Len(calls) \in 1..3
        /\ k = 1 => Len(made) = Len(L)
        /\ Len(made) = Len(L) => k = 1
    <3> DEFINE c == Len(calls)
               m == Len(made)
               l == Len(L)
    <3>1. /\ c \in Nat /\ m \in Nat /\ l \in Nat /\ c > 0 /\ m >= l /\ m + c = l + 3
          /\ k = (m - l) + 1
      BY <2>1, <2>3
    <3> HIDE DEF c, m, l, k
    <3>2. k \in 1..3 /\ c \in 1..3 /\ (k = 1 => m = l) /\ (m = l => k = 1) BY <3>1
    <3> QED BY <3>2 DEF c, m, l
  <2>6. Head(calls) = StartCalls[k] BY <2>1, <2>3, <2>4
  <2>7. /\ (StartCalls[k] = "epoll_create") = (k = 1)
        /\ StartCalls[k] \in {"epoll_create", "nonblock", "add_read"}
    <3> HIDE DEF k
    <3>1. k = 1 \/ k = 2 \/ k = 3 BY <2>5
    <3> QED BY <3>1 DEF StartCalls
  <2> HIDE DEF k
  <2> QED BY <2>1, <2>3, <2>4, <2>5, <2>6, <2>7
<1>6. CASE StartCall
  <2>1. /\ pc = "start" /\ UNCHANGED <<asked, opts, addr, sock, file, kept>>
        /\ made' = Append(made, Head(calls)) /\ calls' = Tail(calls)
        /\ poller' = IF Head(calls) = "epoll_create" THEN "open" ELSE poller
        /\ IF calls' = << >> THEN pc' = "serving" /\ size' = InitPollEventsCap ELSE pc' = "start"
    BY <1>6 DEF StartCall
  <2>2. /\ Len(calls) \in 1..3 /\ Len(made) \in Nat /\ Len(L) \in Nat /\ calls # << >>
        /\ Len(made) + Len(calls) = Len(L) + 3 /\ Len(made) >= Len(L)
        /\ \A i \in 1..Len(L) : made[i] = L[i]
        /\ \A i \in (Len(L) + 1)..Len(made) : made[i] # "bind"
        /\ \A i \in 1..Len(calls) : calls[i] = StartCalls[(Len(made) - Len(L)) + i]
        /\ (Head(calls) = "epoll_create") = (Len(made) = Len(L))
        /\ Head(calls) \in {"epoll_create", "nonblock", "add_read"}
        /\ sock = "open" /\ poller = IF Len(made) = Len(L) THEN "none" ELSE "open"
        /\ Listens(addr) /\ opts = Normalized(asked)
    BY <1>s, <2>1
  <2>3. L' = L BY <2>1 DEF L
  <2>4. Head(calls) \in Names BY <1>t, <2>2
  <2>5. /\ made' \in Seq(Names) /\ Len(made') = Len(made) + 1
        /\ \A i \in 1..Len(made) : made'[i] = made[i]
        /\ made'[Len(made) + 1] = Head(calls)
    BY <1>t, <2>1, <2>4
  <2>6. /\ calls' \in Seq(Names) /\ Len(calls') = Len(calls) - 1
        /\ \A i \in 1..Len(calls') : calls'[i] = calls[i + 1]
    BY <1>t, <2>1, <2>2, HeadTailProperties
  <2>7. \A i \in 1..Len(L) : made'[i] = L[i]
    <3>1. \A i \in 1..Len(L) : i \in 1..Len(made) BY <2>2
    <3> QED BY <2>2, <2>5, <3>1
  <2>14. \A i \in (Len(L) + 1)..Len(made') : made'[i] # "bind"
    <3>1. \A i \in (Len(L) + 1)..Len(made') :
            i = Len(made) + 1 \/ (i \in 1..Len(made) /\ i \in (Len(L) + 1)..Len(made))
      BY <2>2, <2>5
    <3>2. Head(calls) # "bind" BY <2>2
    <3> QED BY <2>2, <2>5, <3>1, <3>2
  <2>8. poller' = "open"
    <3>1. CASE Len(made) = Len(L) BY <2>1, <2>2, <3>1
    <3>2. CASE Len(made) # Len(L) BY <2>1, <2>2, <3>2
    <3> QED BY <3>1, <3>2
  <2>9. pc' \in {"start", "serving"} BY <2>1
  <2>10. TypeInv' BY <1>t, <2>1, <2>5, <2>6, <2>9 DEF TypeInv
  <2>11. FixedInv' BY <2>1, <2>2 DEF FixedInv
  <2>12. StartInv'
    <3> SUFFICES ASSUME pc' = "start" PROVE StartInv' BY DEF StartInv
    <3>1. Len(calls') > 0 BY <2>1, <2>6
    <3>2. /\ Len(made') >= Len(L) /\ Len(made') # Len(L) /\ Len(made') + Len(calls') = Len(L) + 3
      BY <2>2, <2>5, <2>6
    <3>3. \A i \in 1..Len(calls') : calls'[i] = StartCalls[(Len(made') - Len(L)) + i]
      <4> SUFFICES ASSUME NEW i \in 1..Len(calls')
                   PROVE  calls'[i] = StartCalls[(Len(made') - Len(L)) + i]
        OBVIOUS
      <4>1. i + 1 \in 1..Len(calls) BY <2>2, <2>6
      <4>2. (Len(made') - Len(L)) + i = (Len(made) - Len(L)) + (i + 1) BY <2>2, <2>5, <2>6
      <4> QED BY <2>2, <2>6, <4>1, <4>2
    <3> QED BY <2>1, <2>2, <2>3, <2>7, <2>8, <2>14, <3>1, <3>2, <3>3 DEF StartInv
  <2>13. ServingInv'
    <3> SUFFICES ASSUME pc' = "serving" PROVE ServingInv' BY DEF ServingInv
    <3>1. size' = InitPollEventsCap BY <2>1
    <3>2. size' \in MinPollEventsCap..MaxPollEventsCap
      BY <3>1 DEF InitPollEventsCap, MinPollEventsCap, MaxPollEventsCap
    <3>3. Len(made') >= Len(L) BY <2>2, <2>5
    <3> QED BY <2>1, <2>2, <2>3, <2>7, <2>8, <2>14, <3>2, <3>3 DEF ServingInv
  <2> QED BY <2>9, <2>10, <2>11, <2>12, <2>13 DEF Inv, OptionsInv, ListenerInv, StoppedInv, NothingLeft
<1>7. CASE StartCallFails
  <2>1. /\ pc = "start" /\ pc' = "stopped" /\ failed' = Head(calls)
        /\ sock' = Close(sock) /\ RemoveAll(addr)
        /\ UNCHANGED <<asked, opts, addr, calls, made, poller>>
    BY <1>7 DEF StartCallFails, Stop, close
  <2>2. /\ (Head(calls) = "epoll_create") = (Len(made) = Len(L))
        /\ Head(calls) \in {"epoll_create", "nonblock", "add_read"}
        /\ sock = "open" /\ poller = IF Len(made) = Len(L) THEN "none" ELSE "open"
        /\ opts = Normalized(asked)
    BY <1>s, <2>1
  <2>3. sock' = "closed" BY <2>1, <2>2 DEF Close
  <2>4. poller' # "twice" /\ (poller' = "open" => failed' \in {"nonblock", "add_read"})
    <3>1. CASE Len(made) = Len(L) BY <2>1, <2>2, <3>1
    <3>2. CASE Len(made) # Len(L) BY <2>1, <2>2, <3>2
    <3> QED BY <3>1, <3>2
  <2>5. file' \in BOOLEAN /\ kept' \in BOOLEAN /\ (addr'.proto = "unix" /\ file' => kept') BY <1>r, <2>1
  <2>6. StoppedInv' BY <2>1, <2>2, <2>3, <2>4, <2>5 DEF StoppedInv, NothingLeft
  <2>7. TypeInv' BY <1>t, <2>1, <2>5 DEF TypeInv
  <2> QED BY <2>1, <2>6, <2>7 DEF Inv, OptionsInv, FixedInv, ListenerInv, StartInv, ServingInv
<1>8. CASE Poll
  <2>1. /\ pc = "serving" /\ UNCHANGED <<pc, asked, opts, addr, calls, made, failed, sock, poller, file, kept>>
        /\ size' \in {expand(size), shrink(size), size}
    BY <1>8 DEF Poll
  <2>2. size \in 32..1024 BY <2>1 DEF Inv, ServingInv, MinPollEventsCap, MaxPollEventsCap
  <2>3. expand(size) \in 32..1024 BY <2>2 DEF expand, MaxPollEventsCap
  <2>4. shrink(size) \in 32..1024 BY <2>2 DEF shrink, MinPollEventsCap
  <2>5. size' \in MinPollEventsCap..MaxPollEventsCap
    BY <2>1, <2>2, <2>3, <2>4 DEF MinPollEventsCap, MaxPollEventsCap
  <2>6. L' = L BY <2>1 DEF L
  <2>7. ServingInv' BY <2>1, <2>5, <2>6 DEF Inv, ServingInv
  <2>8. TypeInv' BY <1>t, <2>1 DEF TypeInv
  <2>9. FixedInv' BY <2>1 DEF Inv, FixedInv
  <2> QED BY <2>1, <2>7, <2>8, <2>9 DEF Inv, OptionsInv, ListenerInv, StartInv, StoppedInv, NothingLeft
<1>9. CASE PollingFails
  <2>1. /\ pc = "serving" /\ pc' = "stopped"
        /\ sock' = Close(sock) /\ RemoveAll(addr) /\ poller' = Close(poller)
        /\ UNCHANGED <<asked, opts, addr, calls, made>>
    BY <1>9 DEF PollingFails, Stop, close
  <2>2. sock = "open" /\ poller = "open" /\ opts = Normalized(asked) BY <2>1 DEF Inv, ServingInv, FixedInv
  <2>3. sock' = "closed" /\ poller' = "closed" BY <2>1, <2>2 DEF Close
  <2>6. file' \in BOOLEAN /\ kept' \in BOOLEAN /\ (addr'.proto = "unix" /\ file' => kept') BY <1>r, <2>1
  <2>4. StoppedInv' BY <2>1, <2>2, <2>3, <2>6 DEF StoppedInv, NothingLeft
  <2>5. TypeInv' BY <1>t, <2>1, <2>6 DEF TypeInv
  <2> QED BY <2>1, <2>4, <2>5 DEF Inv, OptionsInv, FixedInv, ListenerInv, StartInv, ServingInv
<1>10. CASE Crash
  <2>1. /\ pc' = "options" /\ asked' = Zero /\ addr' = NoAddr /\ calls' = << >> /\ made' = << >>
        /\ sock' = "none" /\ poller' = "none" /\ UNCHANGED file /\ kept' = FALSE
    BY <1>10 DEF Crash
  <2>2. kept' \in BOOLEAN BY <2>1, Zenon
  <2>3. TypeInv' BY <1>t, <2>1, <2>2, NoOptions DEF TypeInv
  <2> QED BY <2>1, <2>3
        DEF Inv, OptionsInv, FixedInv, ListenerInv, StartInv, ServingInv, StoppedInv, NothingLeft
<1>11. CASE UNCHANGED vars
  BY <1>11 DEF vars, Inv, TypeInv, OptionsInv, FixedInv, ListenerInv, StartInv, ServingInv, StoppedInv,
               NothingLeft, L
<1> QED BY <1>1, <1>2, <1>3, <1>4, <1>5, <1>6, <1>7, <1>8, <1>9, <1>10, <1>11 DEF Next

(* Inv is an inductive invariant of Server from its options to Polling and back. *)
THEOREM Invariance == Spec => []Inv
<1>1. Inv /\ [Next]_vars => Inv' BY Step
<1>2. Init => Inv BY Initially
<1> QED BY <1>1, <1>2, PTL DEF Spec

(* However many events a round of Polling reports, the event list stays within
   its limits (epoll_events.go, epoll_default_poller.go). *)
THEOREM ListStaysWithinLimits == Spec => []ListWithinLimits
<1>1. Inv => ListWithinLimits BY DEF Inv, ServingInv, ListWithinLimits
<1> QED BY <1>1, Invariance, PTL

(* Whichever system call fails, the descriptors are closed, once each, and no file
   is left, but for the three cases that NothingLeft names (engine_unix.go,
   listener_unix.go, internal/socket). *)
THEOREM NothingIsLeft == Spec => []NothingLeft
<1>1. Inv => NothingLeft BY DEF Inv, StoppedInv
<1> QED BY <1>1, Invariance, PTL

(* A unix socket finds its name free when it binds, however often the process died
   before and left the file, unless the file could not be removed
   (listener_unix.go). *)
THEOREM PathIsFree == Spec => []PathFree
<1>1. ASSUME Inv PROVE PathFree
  <2> SUFFICES ASSUME pc = "listener", Head(calls) = "bind", addr.proto = "unix"
                PROVE  ~file \/ kept
    BY DEF PathFree
  <2>1. /\ (Head(calls) = "bind") = (Len(made) + 1 = Place(addr, opts))
        /\ Len(made) \in Nat /\ file \in BOOLEAN
    BY <1>1, AtListener
  <2>2. file => Len(made) >= Place(addr, opts) \/ kept BY <1>1 DEF Inv, ListenerInv
  <2>3. Len(made) + 1 = Place(addr, opts) BY <2>1
  <2> QED BY <2>1, <2>2, <2>3
<1> QED BY <1>1, Invariance, PTL

(* No buffer is smaller than was asked for, and capacities from 2^10 to 2^32 become
   the least such power of two (engine_unix.go, math.go), whatever is asked for. *)
THEOREM CapsAreNormalized == Spec => []NormalizedCaps
<1>1. ASSUME Inv PROVE NormalizedCaps
  <2> DEFINE Right(n, c) == IF n = {} THEN c = {16}
                            ELSE /\ NotLess(c, n)
                                 /\ InReach(n) => IsLeastPower(c, n)
  <2> SUFFICES ASSUME addr # NoAddr, NEW f \in {"ReadBufferCap", "WriteBufferCap"}
               PROVE  Right(asked[f], opts[f])
    BY DEF NormalizedCaps
  <2>1. asked \in Options BY <1>1 DEF Inv, TypeInv
  <2>2. opts = Normalized(asked)
    BY <1>1 DEF Inv, TypeInv, OptionsInv, FixedInv, StoppedInv
  <2>3. opts[f] = BufferCap(asked[f]) BY <2>1, <2>2, NormalizedFields
  <2>4. asked[f] \in SUBSET (0..62) BY <2>1 DEF Options
  <2>5. CASE asked[f] = {} BY <2>3, <2>5 DEF BufferCap
  <2>6. CASE asked[f] # {} BY <2>3, <2>4, <2>6, CapIsLeastPower, CapNotLess
  <2> QED BY <2>5, <2>6
<1> QED BY <1>1, Invariance, PTL

(* Exactly the socket options that were asked for are set before bind
   (tcp_socket.go, udp_socket.go, unix_socket.go, listener_unix.go). *)
THEOREM OptionsAreSetBeforeBind == Spec => []OptionsBeforeBind
<1>1. ASSUME Inv PROVE OptionsBeforeBind
  <2> SUFFICES ASSUME pc \in {"start", "serving"} PROVE OptionsBeforeBind BY DEF OptionsBeforeBind
  <2> DEFINE n   == Place(addr, opts)
             T   == Settings(addr, opts)
             at  == CHOOSE i \in 1..Len(made) : made[i] = "bind"
             set == {made[i] : i \in 1..at}
  <2>1. /\ Listens(addr) /\ asked \in Options /\ opts = Normalized(asked) /\ made \in Seq(Names)
        /\ Len(made) >= Len(L) /\ \A i \in 1..Len(L) : made[i] = L[i]
        /\ \A i \in (Len(L) + 1)..Len(made) : made[i] # "bind"
    BY <1>1 DEF Inv, TypeInv, FixedInv, StartInv, ServingInv
  <2>2. /\ L \in Seq(Names) /\ n \in Nat \ {0, 1}
        /\ Len(L) = n + IF addr.proto = "udp" THEN 0 ELSE 1
        /\ L[1] = "socket" /\ L[n] = "bind"
        /\ \A i \in 2..(n - 1) : L[i] = T[i - 1]
        /\ \A i \in 2..(n - 1) : L[i] \notin {"socket", "bind", "listen"}
        /\ addr.proto # "udp" => L[n + 1] = "listen"
        /\ T \in Seq(Names) /\ n = Len(T) + 2
        /\ Range(T) \ Auxiliary = InForce(addr, opts)
        /\ Range(T) \cap {"socket", "bind", "listen"} = {}
    BY <2>1, CallsOfServer DEF L
  <2>3. Wanted = InForce(addr, opts)
    <3>1. /\ opts.ReusePort = asked.ReusePort /\ opts.ReuseAddr = asked.ReuseAddr
          /\ opts.TCPNoDelay = asked.TCPNoDelay
          /\ opts.SocketRecvBuffer = asked.SocketRecvBuffer /\ opts.SocketSendBuffer = asked.SocketSendBuffer
          /\ opts.MulticastInterfaceIndex = asked.MulticastInterfaceIndex
          /\ Settable(opts)
      BY <2>1, NormalizedFields
    <3> DEFINE All == {"reuseport", "reuseaddr", "nodelay", "rcvbuf", "sndbuf", "membership", "multicast_if", "v6only"}
    <3>2. Wanted \subseteq All /\ InForce(addr, opts) \subseteq All BY DEF Wanted, InForce, If
    <3>3. ASSUME NEW g \in All PROVE g \in Wanted <=> g \in InForce(addr, opts)
      <4>1. CASE g = "reuseport" BY <3>1, <4>1 DEF Wanted, InForce, If, Settable
      <4>2. CASE g = "reuseaddr" BY <3>1, <4>2 DEF Wanted, InForce, If, Settable
      <4>3. CASE g = "nodelay" BY <3>1, <4>3 DEF Wanted, InForce, If, Settable
      <4>4. CASE g = "rcvbuf" BY <3>1, <4>4 DEF Wanted, InForce, If, Settable
      <4>5. CASE g = "sndbuf" BY <3>1, <4>5 DEF Wanted, InForce, If, Settable
      <4>6. CASE g = "membership" BY <3>1, <4>6 DEF Wanted, InForce, If, Settable
      <4>7. CASE g = "multicast_if" BY <3>1, <4>7 DEF Wanted, InForce, If, Settable
      <4>8. CASE g = "v6only" BY <3>1, <4>8 DEF Wanted, InForce, If, Settable
      <4> QED BY <4>1, <4>2, <4>3, <4>4, <4>5, <4>6, <4>7, <4>8
    <3> DEFINE F == InForce(addr, opts)
    <3>4. Wanted \subseteq All /\ F \subseteq All /\ \A g \in All : g \in Wanted <=> g \in F BY <3>2, <3>3
    <3> HIDE DEF All, F
    <3>5. Wanted = F BY ONLY <3>4
    <3> QED BY <3>5 DEF F
  <2> HIDE DEF n, T
  <2>4. at \in 1..Len(made) /\ made[at] = "bind"
    <3>1. n \in 1..Len(made) /\ n \in 1..Len(L) BY <2>1, <2>2
    <3>2. made[n] = "bind" BY <2>1, <2>2, <3>1
    <3> QED BY <3>1, <3>2
  <2>5. at = n
    <3> HIDE DEF at
    <3>1. \/ at \in (Len(L) + 1)..Len(made) \/ at \in 1..Len(L) BY <2>1, <2>2, <2>4
    <3>2. at \in 1..Len(L) /\ L[at] = "bind" BY <2>1, <2>4, <3>1
    <3>3. at = 1 \/ at \in 2..(n - 1) \/ at = n \/ (addr.proto # "udp" /\ at = n + 1) BY <2>2, <3>2
    <3> QED BY <2>2, <3>2, <3>3
  <2>6. set = {"socket", "bind"} \cup Range(T)
    <3>1. \A i \in 1..n : made[i] = L[i] BY <2>1, <2>2
    <3>2. DOMAIN T = 1..(n - 2) BY <2>2
    <3>3. ASSUME NEW i \in 1..n PROVE L[i] \in {"socket", "bind"} \cup Range(T)
      <4>1. i = 1 \/ i = n \/ (i \in 2..(n - 1) /\ i - 1 \in 1..(n - 2)) BY <2>2
      <4>2. CASE i \in 2..(n - 1) /\ i - 1 \in 1..(n - 2)
        <5>1. L[i] = T[i - 1] /\ T[i - 1] \in Range(T) BY <2>2, <3>2, <4>2 DEF Range
        <5> QED BY <5>1
      <4> QED BY <2>2, <4>1, <4>2
    <3>4. ASSUME NEW x \in Range(T) PROVE \E i \in 1..n : x = L[i]
      <4>1. PICK j \in 1..(n - 2) : x = T[j] BY <3>2 DEF Range
      <4>2. j + 1 \in 2..(n - 1) /\ j + 1 \in 1..n /\ (j + 1) - 1 = j BY <2>2
      <4>3. x = L[j + 1] BY <2>2, <4>1, <4>2
      <4> QED BY <4>2, <4>3
    <3>5. 1 \in 1..n /\ n \in 1..n BY <2>2
    <3>6. set = {L[i] : i \in 1..n} BY <2>5, <3>1
    <3> HIDE DEF set
    <3>7. set \subseteq {"socket", "bind"} \cup Range(T) BY <3>3, <3>6
    <3>8. {"socket", "bind"} \cup Range(T) \subseteq set BY <2>2, <3>4, <3>5, <3>6
    <3> QED BY <3>7, <3>8
  <2>7. set \ {"socket", "broadcast", "interface", "multicast_loop", "bind"} = Range(T) \ Auxiliary
    <3> HIDE DEF set
    <3> QED BY <2>2, <2>6 DEF Auxiliary
  <2>8. Wanted = set \ {"socket", "broadcast", "interface", "multicast_loop", "bind"} BY <2>2, <2>3, <2>7
  <2> QED BY <2>8 DEF OptionsBeforeBind
<1> QED BY <1>1, Invariance, PTL

=============================================================================

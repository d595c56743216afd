-------------------------------- MODULE Numeric -------------------------------
(***************************************************************************)
(* internal/math/math.go and the size classes of pkg/pool/byteslice: Go's  *)
(* integers as the sets of their one bits, so that the code's shifts keep  *)
(* their 64-bit meaning whatever the width of the checker's integers.      *)
(***************************************************************************)
EXTENDS Integers, FiniteSets, FiniteSetsExt

CONSTANT WordBits   \* bits of the numbers that are converted from and to Nat

BitsOf(n)  == {i \in 0..WordBits : (n \div 2^i) % 2 = 1}
NatOf(b)   == MapThenSumSet(LAMBDA i : 2^i, b)

ShiftRight(b, k) == {i - k : i \in {j \in b : j >= k}}

\* The bits of n - 1 for n > 0, and of n + 1.
Decrement(b) == LET low == Min(b) IN (b \ {low}) \cup 0..(low - 1)
Increment(b) == LET low == Min(0..(Cardinality(b)) \ b) IN (b \ 0..(low - 1)) \cup {low}

\* n |= n >> 1; n |= n >> 2; ... n |= n >> 16
Smear(b) ==
  LET s1 == b  \cup ShiftRight(b, 1)
      s2 == s1 \cup ShiftRight(s1, 2)
      s3 == s2 \cup ShiftRight(s2, 4)
      s4 == s3 \cup ShiftRight(s3, 8)
  IN  s4 \cup ShiftRight(s4, 16)

\* Mutant: n is not decremented first.
CeilBitsNoDec(b) == IF b \subseteq {0} \/ b = {1} THEN {1} ELSE Increment(Smear(b))

\* math.CeilToPowerOfTwo, below its panic.
CeilBits(b) == IF b \subseteq {0} \/ b = {1} THEN {1} ELSE Increment(Smear(Decrement(b)))

CeilToPowerOfTwo(n) == NatOf(CeilBits(BitsOf(n)))

\* The number of bits of n, bits.Len32.
BitLen(n) == IF n = 0 THEN 0 ELSE Max(BitsOf(n)) + 1

\* pkg/pool/byteslice: the class a slice of n bytes is taken from, and the one a
\* slice of capacity n is put into: the class below unless n is a power of two.
GetClass(n) == BitLen(n - 1)
PutClass(n) == IF n = 2^GetClass(n) THEN GetClass(n) ELSE GetClass(n) - 1
=============================================================================

------------------------------ MODULE ListProofs ------------------------------
(***************************************************************************)
(* What the operations of the list buffer do to the bytes in it, for lists *)
(* of any nodes, empty ones included.                                      *)
(*                                                                         *)
(* The loops over the nodes are recursive functions.  A fact about one is  *)
(* shown by induction over a set of numbers (AllNumbers); that there is    *)
(* such a function, from one that has the values step by step (Iterates).  *)
(***************************************************************************)
EXTENDS LinkedList, SequenceTheorems, WellFoundedInduction, TLAPS

(* Induction, for a set of numbers. *)
LEMMA AllNumbers ==
  ASSUME NEW P, 0 \in P, \A m \in Nat : m \in P => m + 1 \in P
  PROVE  \A m \in Nat : m \in P
<1> DEFINE T == {m \in Nat : m \notin P}
<1>1. SUFFICES ASSUME T # {} PROVE FALSE OBVIOUS
<1>2. PICK x \in T : \A y \in T : ~(<<y, x>> \in OpToRel(<, Nat))
  <2>1. T \subseteq Nat OBVIOUS
  <2> HIDE DEF T
  <2> QED BY <1>1, <2>1, NatLessThanWellFounded, WFMin, Zenon
<1>3. x \in Nat /\ x # 0 /\ x - 1 \in Nat OBVIOUS
<1>4. x - 1 \in T
  <2>1. x - 1 \in P => (x - 1) + 1 \in P BY <1>3
  <2>2. (x - 1) + 1 = x BY <1>3
  <2> QED BY <1>3, <2>1, <2>2
<1>5. <<x - 1, x>> \in OpToRel(<, Nat)
  <2>1. x - 1 < x BY <1>3
  <2> QED BY <1>3, <2>1 DEF OpToRel
<1> HIDE DEF T
<1> QED BY <1>2, <1>4, <1>5, Zenon

(* What N turns of a loop over A do, and the values it goes through from x on. *)
Turns(A, N) == [1..N -> [A -> A]]
Values(A, N, x, G) == {f \in [0..N -> A] : f[0] = x /\ \A i \in 1..N : f[i] = G[i][f[i - 1]]}

(* There are such values. *)
LEMMA Iterates ==
  ASSUME NEW A, NEW N \in Nat, NEW x \in A, NEW G \in Turns(A, N)
  PROVE  \E f : f \in Values(A, N, x, G)
<1> USE DEF Turns
<1> DEFINE Good(f, m) == f[0] = x /\ \A i \in 1..m : f[i] = G[i][f[i - 1]]
           P == {m \in Nat : m <= N => \E f \in [0..m -> A] : Good(f, m)}
<1>1. 0 \in P
  <2> DEFINE f == [i \in 0..0 |-> x]
  <2>1. f \in [0..0 -> A] /\ f[0] = x OBVIOUS
  <2>2. \A i \in 1..0 : f[i] = G[i][f[i - 1]] OBVIOUS
  <2> HIDE DEF f
  <2> QED BY <2>1, <2>2
<1>2. ASSUME NEW m \in Nat, m \in P PROVE m + 1 \in P
  <2> SUFFICES ASSUME m + 1 <= N PROVE \E f \in [0..(m + 1) -> A] : Good(f, m + 1) OBVIOUS
  <2>1. PICK f \in [0..m -> A] : Good(f, m) BY <1>2
  <2> DEFINE v == G[m + 1][f[m]]
             e == [i \in 0..(m + 1) |-> IF i <= m THEN f[i] ELSE v]
  <2>2. m \in 0..m /\ m + 1 \in 1..N OBVIOUS
  <2>3. v \in A BY <2>2
  <2> HIDE DEF v
  <2>4. e \in [0..(m + 1) -> A]
    <3>1. ASSUME NEW i \in 0..(m + 1) PROVE (IF i <= m THEN f[i] ELSE v) \in A
      <4>1. i <= m => i \in 0..m OBVIOUS
      <4> QED BY <2>3, <4>1
    <3> QED BY <3>1
  <2>5. e[0] = x
    <3>1. e[0] = f[0] OBVIOUS
    <3> QED BY <2>1, <3>1
  <2>6. ASSUME NEW i \in 1..(m + 1) PROVE e[i] = G[i][e[i - 1]]
    <3>1. i \in 0..(m + 1) /\ i - 1 \in 0..(m + 1) /\ i - 1 <= m OBVIOUS
    <3>2. e[i - 1] = f[i - 1] BY <3>1
    <3>3. CASE i <= m
      <4>1. i \in 1..m /\ e[i] = f[i] BY <3>1, <3>3
      <4> QED BY <2>1, <3>2, <4>1
    <3>4. CASE ~(i <= m)
      <4>1. i = m + 1 /\ i - 1 = m BY <3>4
      <4>2. e[i] = v BY <3>1, <3>4
      <4> QED BY <3>2, <4>1, <4>2 DEF v
    <3> QED BY <3>3, <3>4
  <2> HIDE DEF e
  <2> QED BY <2>4, <2>5, <2>6
<1>3. N \in P
  <2> HIDE DEF P
  <2> QED BY <1>1, <1>2, AllNumbers
<1> QED BY <1>3 DEF Values

(* Two loops that start alike and go on alike ... *)
GoAlike(f, g, N) == f[0] = g[0] /\ \A i \in 1..N : f[i - 1] = g[i - 1] => f[i] = g[i]
Alike(f, g, N)   == \A i \in 0..N : f[i] = g[i]

(* ... have the same values. *)
LEMMA SameValues ==
  ASSUME NEW N \in Nat, NEW f, NEW g, GoAlike(f, g, N)
  PROVE  Alike(f, g, N)
<1> USE DEF GoAlike
<1> DEFINE P == {m \in Nat : m <= N => f[m] = g[m]}
<1>1. 0 \in P OBVIOUS
<1>2. ASSUME NEW m \in Nat, m \in P PROVE m + 1 \in P
  <2>1. m + 1 <= N => m + 1 \in 1..N /\ (m + 1) - 1 = m OBVIOUS
  <2> QED BY <1>2, <2>1
<1>3. \A m \in Nat : m \in P
  <2> HIDE DEF P
  <2> QED BY <1>1, <1>2, AllNumbers
<1> QED BY <1>3 DEF Alike

-----------------------------------------------------------------------------
(* The bytes of a list *)

(* No node, no byte. *)
LEMMA ContentOfNone == Content(<< >>) = << >>
<1>1. Len(<< >>) = 0 OBVIOUS
<1> QED BY <1>1 DEF Content, FlattenSeq

(* The bytes of the first i nodes, for every i. *)
LEMMA ContentSteps ==
  ASSUME NEW S, NEW l \in Seq(Seq(S))
  PROVE  \E f \in [0..Len(l) -> Seq(S)] :
           /\ f[0] = << >> /\ \A i \in 1..Len(l) : f[i] = f[i - 1] \o l[i]
           /\ f[Len(l)] = Content(l)
<1> DEFINE N == Len(l)
           G == [i \in 1..N |-> [a \in Seq(S) |-> a \o l[i]]]
<1>1. N \in Nat /\ \A i \in 1..N : l[i] \in Seq(S) OBVIOUS
<1>2. G \in Turns(Seq(S), N)
  <2>1. ASSUME NEW i \in 1..N PROVE [a \in Seq(S) |-> a \o l[i]] \in [Seq(S) -> Seq(S)]
    <3>1. \A a \in Seq(S) : a \o l[i] \in Seq(S) BY <1>1, ConcatProperties
    <3> QED BY <3>1
  <2> QED BY <2>1 DEF Turns
<1>3. \A i \in 1..N : \A a \in Seq(S) : G[i][a] = a \o l[i] OBVIOUS
<1>4. << >> \in Seq(S) OBVIOUS
<1> HIDE DEF G
<1>5. PICK f \in [0..N -> Seq(S)] : f[0] = << >> /\ \A i \in 1..N : f[i] = G[i][f[i - 1]]
  <2>1. \E f : f \in Values(Seq(S), N, << >>, G)
    <3>1. N \in Nat BY <1>1
    <3> HIDE DEF N
    <3> QED BY <1>2, <1>4, <3>1, Iterates, Zenon
  <2> QED BY <2>1 DEF Values
<1>6. ASSUME NEW i \in 1..N PROVE f[i] = f[i - 1] \o l[i]
  <2>1. i - 1 \in 0..N BY <1>1
  <2> QED BY <1>3, <1>5, <2>1
<1>7. CASE N = 0
  <2>1. l = << >> BY <1>7
  <2> QED BY <1>1, <1>5, <1>6, <1>7, <2>1, ContentOfNone
<1>8. CASE N # 0
  <2> DEFINE g == CHOOSE h : h = [i \in 1..N |-> IF i = 1 THEN l[i] ELSE h[i - 1] \o l[i]]
             e == [i \in 1..N |-> f[i]]
  <2>1. Content(l) = g[N] BY <1>8 DEF Content, FlattenSeq
  <2>2. f[1] = l[1]
    <3>1. 1 \in 1..N /\ 1 - 1 = 0 BY <1>1, <1>8
    <3>2. l[1] \in Seq(S) BY <1>1, <3>1
    <3>3. f[1] = f[1 - 1] \o l[1] BY <1>6, <3>1
    <3>4. << >> \o l[1] = l[1] BY <3>2, ConcatEmptySeq
    <3> QED BY <1>5, <3>1, <3>3, <3>4
  <2>3. e = [i \in 1..N |-> IF i = 1 THEN l[i] ELSE e[i - 1] \o l[i]]
    <3>1. ASSUME NEW i \in 1..N PROVE f[i] = IF i = 1 THEN l[i] ELSE e[i - 1] \o l[i]
      <4>1. CASE i = 1 BY <2>2, <4>1
      <4>2. CASE i # 1
        <5>1. i - 1 \in 1..N BY <1>1, <4>2
        <5>2. e[i - 1] = f[i - 1] BY <5>1
        <5> QED BY <1>6, <4>2, <5>2
      <4> QED BY <4>1, <4>2
    <3> QED BY <3>1
  <2>4. g = [i \in 1..N |-> IF i = 1 THEN l[i] ELSE g[i - 1] \o l[i]]
    <3> HIDE DEF e
    <3> QED BY <2>3
  <2> HIDE DEF g, e
  <2> DEFINE a == [i \in 0..N |-> IF i = 0 THEN << >> ELSE g[i]]
  <2>5. a[0] = << >> /\ \A i \in 1..N : a[i] = g[i]
    <3>1. 0 \in 0..N /\ \A i \in 1..N : i \in 0..N /\ i # 0 BY <1>1
    <3> QED BY <3>1
  <2> HIDE DEF a
  <2>6. ASSUME NEW i \in 1..N, f[i - 1] = a[i - 1] PROVE f[i] = a[i]
    <3>1. a[i] = g[i] BY <2>5
    <3>2. g[i] = IF i = 1 THEN l[i] ELSE g[i - 1] \o l[i] BY <2>4
    <3>3. CASE i = 1 BY <2>2, <3>1, <3>2, <3>3
    <3>4. CASE i # 1
      <4>1. i - 1 \in 1..N BY <1>1, <3>4
      <4>2. a[i - 1] = g[i - 1] BY <2>5, <4>1
      <4> QED BY <1>6, <2>6, <3>1, <3>2, <3>4, <4>2
    <3> QED BY <3>3, <3>4
  <2>7. f[0] = a[0] BY <1>5, <2>5
  <2>8. \A i \in 0..N : f[i] = a[i]
    <3>1. N \in Nat BY <1>1
    <3>2. GoAlike(f, a, N) BY <2>6, <2>7 DEF GoAlike
    <3>3. Alike(f, a, N) BY <3>1, <3>2, SameValues
    <3> QED BY <3>3 DEF Alike
  <2>9. f[N] = g[N]
    <3>1. N \in 0..N /\ N \in 1..N BY <1>1, <1>8
    <3> QED BY <2>5, <2>8, <3>1
  <2> QED BY <1>5, <1>6, <2>1, <2>9
<1> QED BY <1>7, <1>8

(* They are a sequence of bytes. *)
LEMMA ContentIs ==
  ASSUME NEW S, NEW l \in Seq(Seq(S))
  PROVE  Content(l) \in Seq(S) /\ Buffered(l) = Len(Content(l)) /\ Buffered(l) \in Nat
<1>1. PICK f \in [0..Len(l) -> Seq(S)] : f[Len(l)] = Content(l) BY ContentSteps
<1>2. Len(l) \in 0..Len(l)
  <2>1. Len(l) \in Nat OBVIOUS
  <2> QED BY <2>1
<1>3. Content(l) \in Seq(S) BY <1>1, <1>2
<1> QED BY <1>3 DEF Buffered

(* One more node, and its bytes are the last. *)
LEMMA ContentAppend ==
  ASSUME NEW S, NEW l \in Seq(Seq(S)), NEW p \in Seq(S)
  PROVE  Content(Append(l, p)) = Content(l) \o p
<1> DEFINE N == Len(l)
           m == Append(l, p)
<1>1. /\ m \in Seq(Seq(S)) /\ N \in Nat /\ Len(m) = N + 1
      /\ \A i \in 1..N : m[i] = l[i]
      /\ m[N + 1] = p
  <2> DEFINE T == Seq(S)
  <2>1. l \in Seq(T) /\ p \in T OBVIOUS
  <2> HIDE DEF T
  <2>2. /\ Append(l, p) \in Seq(T) /\ Len(Append(l, p)) = Len(l) + 1
        /\ \A i \in 1..Len(l) : Append(l, p)[i] = l[i]
        /\ Append(l, p)[Len(l) + 1] = p
    BY ONLY <2>1, AppendProperties
  <2>3. Len(l) \in Nat OBVIOUS
  <2> QED BY <2>2, <2>3 DEF T
<1> HIDE DEF m
<1>2. PICK f \in [0..N -> Seq(S)] : /\ f[0] = << >> /\ \A i \in 1..N : f[i] = f[i - 1] \o l[i]
                                    /\ f[N] = Content(l)
  BY ContentSteps
<1>3. PICK h \in [0..Len(m) -> Seq(S)] : /\ h[0] = << >> /\ \A i \in 1..Len(m) : h[i] = h[i - 1] \o m[i]
                                         /\ h[Len(m)] = Content(m)
  BY <1>1, ContentSteps
<1>4. Alike(f, h, N)
  <2>1. ASSUME NEW i \in 1..N, f[i - 1] = h[i - 1] PROVE f[i] = h[i]
    <3>1. i \in 1..Len(m) /\ m[i] = l[i] BY <1>1
    <3> QED BY <1>2, <1>3, <2>1, <3>1
  <2>2. GoAlike(f, h, N) BY <1>2, <1>3, <2>1 DEF GoAlike
  <2> HIDE DEF N
  <2> QED BY <1>1, <2>2, SameValues
<1>5. h[N + 1] = h[(N + 1) - 1] \o m[N + 1]
  <2>1. N + 1 \in 1..Len(m) BY <1>1
  <2> QED BY <1>3, <2>1
<1>6. (N + 1) - 1 = N /\ N \in 0..N BY <1>1
<1>7. f[N] = h[N] BY <1>4, <1>6 DEF Alike
<1> QED BY <1>1, <1>2, <1>3, <1>5, <1>6, <1>7 DEF m

(* The first n + 1 of a sequence. *)
LEMMA FrontAppend ==
  ASSUME NEW T, NEW s \in Seq(T), NEW n \in Nat, n < Len(s)
  PROVE  /\ SubSeq(s, 1, n) \in Seq(T) /\ s[n + 1] \in T
         /\ SubSeq(s, 1, n + 1) = Append(SubSeq(s, 1, n), s[n + 1])
<1>1. Len(s) \in Nat /\ n + 1 \in 1..Len(s) /\ 1 \in 1..Len(s) OBVIOUS
<1>2. s[n + 1] \in T BY <1>1
<1>3. SubSeq(s, 1, n) \in Seq(T)
  <2>1. \A i \in 1..n : s[i] \in T BY <1>1
  <2> QED BY <2>1, SubSeqProperties
<1>4. SubSeq(s, 1, n + 1) = SubSeq(s, 1, (n + 1) - 1) \o <<s[n + 1]>>
  BY <1>1, SubSeqRecursiveSecond
<1>5. (n + 1) - 1 = n OBVIOUS
<1>6. Append(SubSeq(s, 1, n), s[n + 1]) = SubSeq(s, 1, n) \o <<s[n + 1]>> BY <1>2, <1>3, AppendIsConcat
<1> QED BY <1>2, <1>3, <1>4, <1>5, <1>6

(* One list behind the other. *)
LEMMA ContentConcat ==
  ASSUME NEW S, NEW l \in Seq(Seq(S)), NEW m \in Seq(Seq(S))
  PROVE  Content(l \o m) = Content(l) \o Content(m)
<1> DEFINE T == Seq(S)
           F(n) == SubSeq(m, 1, n)
           P == {n \in Nat : n <= Len(m) => Content(l \o F(n)) = Content(l) \o Content(F(n))}
<1>1. l \in Seq(T) /\ m \in Seq(T) /\ Len(m) \in Nat OBVIOUS
<1>2. 0 \in P
  <2>1. F(0) = << >> BY SubSeqEmpty
  <2>2. l \o << >> = l
    <3> HIDE DEF T
    <3> QED BY <1>1, ConcatEmptySeq
  <2>3. Content(l) \in Seq(S) BY ContentIs
  <2>4. Content(l) \o << >> = Content(l) BY <2>3, ConcatEmptySeq
  <2> HIDE DEF F
  <2> QED BY <2>1, <2>2, <2>4, ContentOfNone
<1>3. ASSUME NEW n \in Nat, n \in P PROVE n + 1 \in P
  <2> SUFFICES ASSUME n + 1 <= Len(m)
               PROVE  Content(l \o F(n + 1)) = Content(l) \o Content(F(n + 1))
    OBVIOUS
  <2> DEFINE x == F(n)
             y == m[n + 1]
  <2>1. n < Len(m) /\ n <= Len(m) BY <1>1
  <2>2. x \in Seq(T) /\ y \in T /\ F(n + 1) = Append(x, y)
    <3> HIDE DEF T
    <3> QED BY <1>1, <2>1, FrontAppend
  <2>3. Content(l \o x) = Content(l) \o Content(x) BY <1>3, <2>1
  <2> HIDE DEF x, y, F
  <2>4. l \o Append(x, y) = Append(l \o x, y) /\ l \o x \in Seq(T)
    <3> HIDE DEF T
    <3>1. Append(x, y) = x \o <<y>> BY <2>2, AppendIsConcat
    <3>2. l \o x \in Seq(T) BY <1>1, <2>2, ConcatProperties
    <3>3. Append(l \o x, y) = (l \o x) \o <<y>> BY <2>2, <3>2, AppendIsConcat
    <3>4. <<y>> \in Seq(T) BY <2>2
    <3>5. (l \o x) \o <<y>> = l \o (x \o <<y>>)
      <4> DEFINE z == <<y>>
      <4>1. l \in Seq(T) /\ x \in Seq(T) /\ z \in Seq(T) BY <1>1, <2>2, <3>4
      <4> HIDE DEF z
      <4>2. (l \o x) \o z = l \o (x \o z) BY ONLY <4>1, ConcatAssociative
      <4> QED BY <4>2 DEF z
    <3> QED BY <3>1, <3>2, <3>3, <3>5
  <2>5. Content(Append(l \o x, y)) = Content(l \o x) \o y BY <2>2, <2>4, ContentAppend
  <2>6. Content(Append(x, y)) = Content(x) \o y BY <2>2, ContentAppend
  <2>7. Content(l) \in Seq(S) /\ Content(x) \in Seq(S) /\ y \in Seq(S) BY <2>2, ContentIs
  <2>8. (Content(l) \o Content(x)) \o y = Content(l) \o (Content(x) \o y)
    <3> DEFINE c == Content(l)
               d == Content(x)
    <3>1. c \in Seq(S) /\ d \in Seq(S) /\ y \in Seq(S) BY <2>7
    <3> HIDE DEF c, d
    <3>2. (c \o d) \o y = c \o (d \o y) BY ONLY <3>1, ConcatAssociative
    <3> QED BY <3>2 DEF c, d
  <2> QED BY <2>2, <2>3, <2>4, <2>5, <2>6, <2>8
<1>4. Len(m) \in P
  <2> HIDE DEF P
  <2> QED BY <1>1, <1>2, <1>3, AllNumbers
<1>5. F(Len(m)) = m
  <2> HIDE DEF T
  <2> QED BY <1>1, SubSeqFull
<1>6. Content(l \o F(Len(m))) = Content(l) \o Content(F(Len(m)))
  <2> DEFINE k == Len(m)
  <2>1. k \in Nat /\ k \in P /\ k <= Len(m) BY <1>1, <1>4
  <2> HIDE DEF k, F
  <2>2. Content(l \o F(k)) = Content(l) \o Content(F(k)) BY ONLY <2>1
  <2> QED BY <2>2 DEF k
<1> HIDE DEF F
<1> QED BY <1>5, <1>6, Zenon

-----------------------------------------------------------------------------
(* The first bytes and the others *)

Rest(s, n) == SubSeq(s, n + 1, Len(s))

(* What is left of a sequence, element by element. *)
LEMMA RestOf ==
  ASSUME NEW T, NEW s \in Seq(T), NEW n \in Nat
  PROVE  /\ Rest(s, n) \in Seq(T)
         /\ Len(Rest(s, n)) = IF n <= Len(s) THEN Len(s) - n ELSE 0
         /\ \A i \in 1..Len(Rest(s, n)) : Rest(s, n)[i] = s[n + i]
         /\ n >= Len(s) => Rest(s, n) = << >>
         /\ n = 0 => Rest(s, n) = s
<1> DEFINE k == Len(s)
           r == SubSeq(s, n + 1, k)
<1>1. k \in Nat /\ n + 1 \in Int /\ k \in Int OBVIOUS
<1>2. \A i \in (n + 1)..k : s[i] \in T BY <1>1
<1>3. /\ r \in Seq(T) /\ Len(r) = IF n + 1 <= k THEN k - (n + 1) + 1 ELSE 0
      /\ \A i \in 1..(k - (n + 1) + 1) : r[i] = s[(n + 1) + i - 1]
  BY <1>1, <1>2, SubSeqProperties
<1>4. n >= k => r = << >> BY <1>1, SubSeqEmpty
<1>5. n = 0 => r = s BY SubSeqFull
<1>6. Rest(s, n) = r BY DEF Rest
<1> HIDE DEF r, k
<1>7. Len(r) = IF n <= k THEN k - n ELSE 0 BY <1>1, <1>3
<1>8. ASSUME NEW i \in 1..Len(r) PROVE r[i] = s[n + i]
  <2>1. i \in 1..(k - (n + 1) + 1) /\ (n + 1) + i - 1 = n + i BY <1>1, <1>7
  <2> QED BY <1>3, <2>1
<1> QED BY <1>3, <1>4, <1>5, <1>6, <1>7, <1>8 DEF k

(* What is left of two sequences, one behind the other. *)
LEMMA RestOfConcat ==
  ASSUME NEW T, NEW s \in Seq(T), NEW u \in Seq(T), NEW n \in Nat
  PROVE  /\ n <= Len(s) => Rest(s \o u, n) = Rest(s, n) \o u
         /\ n >= Len(s) => Rest(s \o u, n) = Rest(u, n - Len(s))
<1> DEFINE c == s \o u
           a == Len(s)
           b == Len(u)
           r == Rest(c, n)
<1>1. a \in Nat /\ b \in Nat OBVIOUS
<1>2. /\ c \in Seq(T) /\ Len(c) = a + b
      /\ \A i \in 1..(a + b) : c[i] = IF i <= a THEN s[i] ELSE u[i - a]
  BY ConcatProperties
<1> HIDE DEF c
<1>3. /\ r \in Seq(T)
      /\ Len(r) = IF n <= a + b THEN (a + b) - n ELSE 0
      /\ \A i \in 1..Len(r) : r[i] = c[n + i]
  BY <1>2, RestOf
<1> HIDE DEF r
<1>4. CASE n <= a
  <2> DEFINE h == Rest(s, n)
             g == h \o u
  <2>1. h \in Seq(T) /\ Len(h) = a - n /\ \A i \in 1..Len(h) : h[i] = s[n + i] BY <1>4, RestOf
  <2> HIDE DEF h
  <2>2. /\ g \in Seq(T) /\ Len(g) = Len(h) + b
        /\ \A i \in 1..(Len(h) + b) : g[i] = IF i <= Len(h) THEN h[i] ELSE u[i - Len(h)]
    BY <2>1, ConcatProperties
  <2> HIDE DEF g, a, b
  <2>3. Len(r) = Len(g) /\ n <= a + b BY <1>1, <1>3, <1>4, <2>1, <2>2
  <2>4. ASSUME NEW i \in 1..Len(r) PROVE r[i] = g[i]
    <3>1. /\ n + i \in 1..(a + b) /\ i \in 1..(Len(h) + b) /\ (n + i <= a <=> i <= Len(h))
          /\ (i <= Len(h) => i \in 1..Len(h)) /\ (n + i) - a = i - Len(h)
      BY <1>1, <1>3, <1>4, <2>1, <2>3
    <3>2. r[i] = c[n + i] BY <1>3
    <3>3. c[n + i] = IF n + i <= a THEN s[n + i] ELSE u[(n + i) - a] BY <1>2, <3>1
    <3>4. g[i] = IF i <= Len(h) THEN h[i] ELSE u[i - Len(h)] BY <2>2, <3>1
    <3>5. CASE i <= Len(h) BY <2>1, <3>1, <3>2, <3>3, <3>4, <3>5
    <3>6. CASE ~(i <= Len(h)) BY <3>1, <3>2, <3>3, <3>4, <3>6
    <3> QED BY <3>5, <3>6
  <2>5. r = g BY <1>3, <2>2, <2>3, <2>4, SeqEqual
  <2>6. n >= a => g = Rest(u, n - a)
    <3> SUFFICES ASSUME n >= a PROVE g = Rest(u, n - a) OBVIOUS
    <3>1. n - a = 0 /\ Len(h) = 0 BY <1>1, <1>4, <2>1
    <3>2. h = << >> BY <2>1, <3>1
    <3>3. << >> \o u = u BY ConcatEmptySeq
    <3>4. Rest(u, 0) = u BY RestOf
    <3> QED BY <3>1, <3>2, <3>3, <3>4 DEF g
  <2> QED BY <2>5, <2>6 DEF g, h, a, r, c
<1>5. CASE ~(n <= a)
  <2> DEFINE h == Rest(u, n - a)
  <2>1. n - a \in Nat /\ n >= a BY <1>1, <1>5
  <2>2. /\ h \in Seq(T) /\ Len(h) = IF n - a <= b THEN b - (n - a) ELSE 0
        /\ \A i \in 1..Len(h) : h[i] = u[(n - a) + i]
    <3> DEFINE k == n - a
    <3>1. k \in Nat BY <2>1
    <3> HIDE DEF k
    <3>2. /\ Rest(u, k) \in Seq(T) /\ Len(Rest(u, k)) = IF k <= b THEN b - k ELSE 0
          /\ \A i \in 1..Len(Rest(u, k)) : Rest(u, k)[i] = u[k + i]
      BY <3>1, RestOf
    <3> QED BY <3>2 DEF k
  <2> HIDE DEF h, a, b
  <2>3. Len(r) = Len(h) BY <1>1, <1>3, <1>5, <2>2
  <2>4. ASSUME NEW i \in 1..Len(r) PROVE r[i] = h[i]
    <3>1. n + i \in 1..(a + b) /\ ~(n + i <= a) /\ (n + i) - a = (n - a) + i
      BY <1>1, <1>3, <1>5
    <3>2. r[i] = c[n + i] BY <1>3
    <3>3. c[n + i] = u[(n + i) - a] BY <1>2, <3>1
    <3>4. h[i] = u[(n - a) + i] BY <2>2, <2>3
    <3> QED BY <3>1, <3>2, <3>3, <3>4
  <2>5. r = h BY <1>3, <2>2, <2>3, <2>4, SeqEqual
  <2> QED BY <1>5, <2>5 DEF h, a, r, c
<1> QED BY <1>4, <1>5

-----------------------------------------------------------------------------
(* Discard *)

(* How far Discard has come: bytes still to drop, and the nodes that stay. *)
Popping(S) == [left : Nat, rest : Seq(Seq(S))]

(* It has gone through the bytes c, of which n or all are dropped. *)
Popped(a, c, n) == /\ a.left = (IF Len(c) < n THEN n - Len(c) ELSE 0)
                   /\ Content(a.rest) = Rest(c, n)

(* One node more. *)
LEMMA PopGoesOn ==
  ASSUME NEW S, NEW a \in Popping(S), NEW b \in Seq(S), NEW c \in Seq(S), NEW n \in Nat
  PROVE  Pop(a, b) \in Popping(S) /\ (Popped(a, c, n) => Popped(Pop(a, b), c \o b, n))
<1> DEFINE left == a.left
           rest == a.rest
           u == Rest(b, left)
           T == Seq(S)
<1>1. left \in Nat /\ rest \in Seq(T) /\ Len(b) \in Nat /\ Len(c) \in Nat BY DEF Popping
<1>2. c \o b \in Seq(S) /\ Len(c \o b) = Len(c) + Len(b) BY ConcatProperties
<1>3. u \in T BY <1>1, RestOf
<1>4. /\ n <= Len(c) => Rest(c \o b, n) = Rest(c, n) \o b
      /\ n >= Len(c) => Rest(c \o b, n) = Rest(b, n - Len(c))
      /\ n >= Len(c \o b) => Rest(c \o b, n) = << >>
      /\ n >= Len(c) => Rest(c, n) = << >>
  <2>1. n >= Len(c \o b) => Rest(c \o b, n) = << >>
    <3> DEFINE e == c \o b
    <3>1. e \in Seq(S) BY <1>2
    <3> HIDE DEF e
    <3>2. n >= Len(e) => Rest(e, n) = << >> BY <3>1, RestOf
    <3> QED BY <3>2 DEF e
  <2>2. n >= Len(c) => Rest(c, n) = << >> BY RestOf
  <2>3. /\ n <= Len(c) => Rest(c \o b, n) = Rest(c, n) \o b
        /\ n >= Len(c) => Rest(c \o b, n) = Rest(b, n - Len(c))
    BY RestOfConcat
  <2> QED BY <2>1, <2>2, <2>3
<1>5. CASE left > 0 /\ left >= Len(b)
  <2> DEFINE d == [left |-> left - Len(b), rest |-> rest]
  <2>1. Pop(a, b) = d BY <1>5 DEF Pop
  <2>2. d \in Popping(S)
    <3>1. left - Len(b) \in Nat BY <1>1, <1>5
    <3> QED BY <1>1, <3>1 DEF Popping
  <2>3. ASSUME Popped(a, c, n) PROVE Popped(d, c \o b, n)
    <3>1. left = (IF Len(c) < n THEN n - Len(c) ELSE 0) /\ Content(rest) = Rest(c, n) BY <2>3 DEF Popped
    <3> HIDE DEF left, rest, T
    <3>2. /\ Len(c) < n /\ n >= Len(c) /\ n >= Len(c \o b)
          /\ left - Len(b) = IF Len(c \o b) < n THEN n - Len(c \o b) ELSE 0
      BY <1>1, <1>2, <1>5, <3>1
    <3>3. Content(rest) = Rest(c \o b, n) BY <1>4, <3>1, <3>2
    <3>4. d.left = left - Len(b) /\ d.rest = rest OBVIOUS
    <3> HIDE DEF d
    <3> QED BY <3>2, <3>3, <3>4 DEF Popped
  <2> QED BY <2>1, <2>2, <2>3
<1>6. CASE ~(left > 0 /\ left >= Len(b))
  <2> DEFINE d == [left |-> 0, rest |-> Append(rest, u)]
  <2>1. Pop(a, b) = d BY <1>6 DEF Pop, Rest
  <2>2. Append(rest, u) \in Seq(T)
    <3> HIDE DEF T, rest, u
    <3> QED BY <1>1, <1>3, AppendProperties
  <2>3. d \in Popping(S) BY <2>2 DEF Popping
  <2>4. Content(Append(rest, u)) = Content(rest) \o u
    <3> HIDE DEF rest, u
    <3> QED BY <1>1, <1>3, ContentAppend
  <2>5. ASSUME Popped(a, c, n) PROVE Popped(d, c \o b, n)
    <3>1. left = (IF Len(c) < n THEN n - Len(c) ELSE 0) /\ Content(rest) = Rest(c, n) BY <2>5 DEF Popped
    <3> HIDE DEF left, rest, T
    <3>2. Rest(c \o b, n) = Content(rest) \o u
      <4>1. CASE n <= Len(c)
        <5>1. left = 0 BY <1>1, <3>1, <4>1
        <5>2. u = b BY <5>1, RestOf
        <5> HIDE DEF u
        <5> QED BY <1>4, <3>1, <4>1, <5>2
      <4>2. CASE ~(n <= Len(c))
        <5>1. n >= Len(c) /\ left = n - Len(c) BY <1>1, <3>1, <4>2
        <5>2. << >> \o u = u
          <6> HIDE DEF u
          <6> QED BY <1>3, ConcatEmptySeq DEF T
        <5>3. Rest(c \o b, n) = u BY <1>4, <5>1
        <5> HIDE DEF u
        <5> QED BY <1>4, <3>1, <5>1, <5>2, <5>3
      <4> QED BY <4>1, <4>2
    <3>3. 0 = IF Len(c \o b) < n THEN n - Len(c \o b) ELSE 0 BY <1>1, <1>2, <1>6, <3>1
    <3>4. d.left = 0 /\ d.rest = Append(rest, u) OBVIOUS
    <3> HIDE DEF d, u
    <3> QED BY <2>4, <3>2, <3>3, <3>4 DEF Popped
  <2> QED BY <2>1, <2>3, <2>5
<1> QED BY <1>5, <1>6

(* Discard drops the first n bytes, or all there are, whatever nodes they are in; an    *)
(* n of 0 or less drops none (linked_list_buffer.go:122).                             *)
THEOREM DiscardDropsFront ==
  ASSUME NEW S, NEW l \in Seq(Seq(S)), NEW n \in Int
  PROVE  /\ Discard(l, n) \in Seq(Seq(S))
         /\ n <= 0 \/ l = << >> => Discard(l, n) = l
         /\ n > 0 => Content(Discard(l, n)) = Rest(Content(l), n)
<1>1. CASE n <= 0 BY <1>1 DEF Discard
<1>2. CASE ~(n <= 0)
  <2> DEFINE N == Len(l)
             x == [left |-> n, rest |-> << >>]
             G == [i \in 1..N |-> [a \in Popping(S) |-> Pop(a, l[i])]]
             g == CHOOSE h : h = [i \in 0..N |-> IF i = 0 THEN x ELSE Pop(h[i - 1], l[i])]
  <2>1. n \in Nat /\ n > 0 /\ N \in Nat /\ \A i \in 1..N : l[i] \in Seq(S) BY <1>2
  <2>2. Discard(l, n) = g[N].rest BY <1>2 DEF Discard
  <2>3. x \in Popping(S) BY <2>1 DEF Popping
  <2>4. Popped(x, << >>, n)
    <3>1. << >> \in Seq(S) /\ Len(<< >>) = 0 OBVIOUS
    <3>2. Rest(<< >>, n) = << >> BY <2>1, <3>1, SubSeqEmpty DEF Rest
    <3>3. x.left = n /\ x.rest = << >> OBVIOUS
    <3> HIDE DEF x
    <3> QED BY <2>1, <3>1, <3>2, <3>3, ContentOfNone DEF Popped
  <2>0. x.rest = << >> OBVIOUS
  <2> HIDE DEF x
  <2>5. G \in Turns(Popping(S), N)
    <3>1. ASSUME NEW i \in 1..N PROVE [a \in Popping(S) |-> Pop(a, l[i])] \in [Popping(S) -> Popping(S)]
      <4>1. << >> \in Seq(S) OBVIOUS
      <4>2. \A a \in Popping(S) : Pop(a, l[i]) \in Popping(S) BY <2>1, <4>1, PopGoesOn
      <4> QED BY <4>2
    <3> QED BY <3>1 DEF Turns
  <2>6. \A i \in 1..N : \A a \in Popping(S) : G[i][a] = Pop(a, l[i]) OBVIOUS
  <2> HIDE DEF G
  <2>7. PICK f \in [0..N -> Popping(S)] : f[0] = x /\ \A i \in 1..N : f[i] = G[i][f[i - 1]]
    <3>1. \E f : f \in Values(Popping(S), N, x, G)
      <4>1. N \in Nat BY <2>1
      <4> HIDE DEF N
      <4> QED BY <2>3, <2>5, <4>1, Iterates, Zenon
    <3> QED BY <3>1 DEF Values
  <2>8. ASSUME NEW i \in 1..N PROVE f[i] = Pop(f[i - 1], l[i])
    <3>1. i - 1 \in 0..N BY <2>1
    <3> QED BY <2>6, <2>7, <3>1
  <2>9. g[N] = f[N]
    <3>1. f = [i \in 0..N |-> IF i = 0 THEN x ELSE Pop(f[i - 1], l[i])]
      <4>1. ASSUME NEW i \in 0..N PROVE f[i] = IF i = 0 THEN x ELSE Pop(f[i - 1], l[i])
        <5>1. i # 0 => i \in 1..N BY <2>1
        <5> QED BY <2>7, <2>8, <5>1
      <4> QED BY <2>7, <4>1
    <3>2. g = [i \in 0..N |-> IF i = 0 THEN x ELSE Pop(g[i - 1], l[i])] BY <3>1
    <3> HIDE DEF g
    <3>3. ASSUME NEW i \in 1..N, g[i - 1] = f[i - 1] PROVE g[i] = f[i]
      <4>1. i \in 0..N /\ i # 0 BY <2>1
      <4> QED BY <2>8, <3>2, <3>3, <4>1
    <3>4. g[0] = f[0]
      <4>1. 0 \in 0..N BY <2>1
      <4> QED BY <2>7, <3>2, <4>1
    <3>5. GoAlike(g, f, N) BY <3>3, <3>4 DEF GoAlike
    <3>6. N \in Nat /\ N \in 0..N BY <2>1
    <3> HIDE DEF N
    <3>7. Alike(g, f, N) BY <3>5, <3>6, SameValues
    <3> QED BY <3>6, <3>7 DEF Alike
  <2>10. PICK c \in [0..N -> Seq(S)] : /\ c[0] = << >> /\ \A i \in 1..N : c[i] = c[i - 1] \o l[i]
                                       /\ c[N] = Content(l)
    BY ContentSteps
  <2> DEFINE P == {m \in Nat : m <= N => Popped(f[m], c[m], n)}
  <2>11. 0 \in P BY <2>4, <2>7, <2>10
  <2>12. ASSUME NEW m \in Nat, m \in P PROVE m + 1 \in P
    <3> SUFFICES ASSUME m + 1 <= N PROVE Popped(f[m + 1], c[m + 1], n) OBVIOUS
    <3>1. m <= N /\ m \in 0..N /\ m + 1 \in 1..N /\ (m + 1) - 1 = m BY <2>1
    <3>2. f[m] \in Popping(S) /\ c[m] \in Seq(S) /\ l[m + 1] \in Seq(S) BY <2>1, <3>1
    <3>3. f[m + 1] = Pop(f[m], l[m + 1]) /\ c[m + 1] = c[m] \o l[m + 1] BY <2>8, <2>10, <3>1
    <3>4. Popped(f[m], c[m], n) BY <2>12, <3>1
    <3>5. Popped(Pop(f[m], l[m + 1]), c[m] \o l[m + 1], n) BY <2>1, <3>2, <3>4, PopGoesOn
    <3> QED BY <3>3, <3>5
  <2>13. N \in P
    <3> HIDE DEF P
    <3> QED BY <2>1, <2>11, <2>12, AllNumbers
  <2>14. Popped(f[N], Content(l), n) /\ f[N] \in Popping(S)
    <3>1. N \in 0..N /\ N <= N BY <2>1
    <3> QED BY <2>10, <2>13, <3>1
  <2>15. l = << >> => g[N].rest = l
    <3>1. l = << >> => N = 0 OBVIOUS
    <3> HIDE DEF g, N
    <3> QED BY <2>0, <2>7, <2>9, <3>1
  <2> HIDE DEF g, N
  <2> QED BY <1>2, <2>2, <2>9, <2>14, <2>15 DEF Popped, Popping
<1> QED BY <1>1, <1>2

-----------------------------------------------------------------------------
(* The other operations *)

(* The first n of a sequence. *)
LEMMA FirstOf ==
  ASSUME NEW T, NEW s \in Seq(T), NEW n \in Nat, n <= Len(s)
  PROVE  /\ SubSeq(s, 1, n) \in Seq(T) /\ Len(SubSeq(s, 1, n)) = n
         /\ \A i \in 1..n : SubSeq(s, 1, n)[i] = s[i]
<1>1. Len(s) \in Nat OBVIOUS
<1>2. \A i \in 1..n : s[i] \in T BY <1>1
<1> DEFINE r == SubSeq(s, 1, n)
<1>3. /\ r \in Seq(T) /\ Len(r) = IF 1 <= n THEN n - 1 + 1 ELSE 0
      /\ \A i \in 1..(n - 1 + 1) : r[i] = s[1 + i - 1]
  BY <1>2, SubSeqProperties
<1> HIDE DEF r
<1>4. ASSUME NEW i \in 1..n PROVE r[i] = s[i]
  <2>1. i \in 1..(n - 1 + 1) /\ 1 + i - 1 = i OBVIOUS
  <2> QED BY <1>3, <2>1
<1> QED BY <1>3, <1>4 DEF r

(* The first n of two sequences, one behind the other. *)
LEMMA FirstOfConcat ==
  ASSUME NEW T, NEW s \in Seq(T), NEW u \in Seq(T), NEW n \in Nat, n <= Len(s) + Len(u)
  PROVE  /\ n <= Len(s) => SubSeq(s \o u, 1, n) = SubSeq(s, 1, n)
         /\ n >= Len(s) => SubSeq(s \o u, 1, n) = s \o SubSeq(u, 1, n - Len(s))
<1> DEFINE c == s \o u
           a == Len(s)
           b == Len(u)
           r == SubSeq(c, 1, n)
<1>1. a \in Nat /\ b \in Nat OBVIOUS
<1>2. /\ c \in Seq(T) /\ Len(c) = a + b
      /\ \A i \in 1..(a + b) : c[i] = IF i <= a THEN s[i] ELSE u[i - a]
  BY ConcatProperties
<1> HIDE DEF c
<1>3. r \in Seq(T) /\ Len(r) = n /\ \A i \in 1..n : r[i] = c[i] BY <1>2, FirstOf
<1> HIDE DEF r
<1>4. ASSUME n <= a PROVE r = SubSeq(s, 1, n)
  <2> DEFINE h == SubSeq(s, 1, n)
  <2>1. h \in Seq(T) /\ Len(h) = n /\ \A i \in 1..n : h[i] = s[i] BY <1>4, FirstOf
  <2> HIDE DEF h, a, b
  <2>2. ASSUME NEW i \in 1..Len(r) PROVE r[i] = h[i]
    <3>1. i \in 1..n /\ i \in 1..(a + b) /\ i <= a BY <1>1, <1>3, <1>4
    <3> QED BY <1>2, <1>3, <2>1, <3>1
  <2> QED BY <1>3, <2>1, <2>2, SeqEqual DEF h
<1>5. ASSUME n >= a PROVE r = s \o SubSeq(u, 1, n - a)
  <2> DEFINE k == n - a
             h == SubSeq(u, 1, k)
             g == s \o h
  <2>1. k \in Nat /\ k <= b BY <1>1, <1>5
  <2>2. h \in Seq(T) /\ Len(h) = k /\ \A i \in 1..k : h[i] = u[i]
    <3> HIDE DEF k
    <3> QED BY <2>1, FirstOf
  <2> HIDE DEF h
  <2>3. /\ g \in Seq(T) /\ Len(g) = a + k
        /\ \A i \in 1..(a + k) : g[i] = IF i <= a THEN s[i] ELSE h[i - a]
    <3> HIDE DEF k
    <3>1. /\ g \in Seq(T) /\ Len(g) = Len(s) + Len(h)
          /\ \A i \in 1..(Len(s) + Len(h)) : g[i] = IF i <= Len(s) THEN s[i] ELSE h[i - Len(s)]
      BY <2>2, ConcatProperties
    <3> HIDE DEF g
    <3> QED BY <2>2, <3>1
  <2> HIDE DEF g, a, b
  <2>4. Len(r) = Len(g) BY <1>1, <1>3, <2>3
  <2>5. ASSUME NEW i \in 1..Len(r) PROVE r[i] = g[i]
    <3>1. i \in 1..n /\ i \in 1..(a + b) /\ i \in 1..(a + k) /\ (~(i <= a) => i - a \in 1..k)
      BY <1>1, <1>3, <1>5, <2>1
    <3>2. r[i] = IF i <= a THEN s[i] ELSE u[i - a] BY <1>2, <1>3, <3>1
    <3>3. g[i] = IF i <= a THEN s[i] ELSE h[i - a] BY <2>3, <3>1
    <3>4. CASE i <= a BY <3>2, <3>3, <3>4
    <3>5. CASE ~(i <= a)
      <4>1. h[i - a] = u[i - a] BY <2>2, <3>1, <3>5
      <4> QED BY <3>2, <3>3, <3>5, <4>1
    <3> QED BY <3>4, <3>5
  <2> QED BY <1>3, <2>3, <2>4, <2>5, SeqEqual DEF g, h
<1> QED BY <1>4, <1>5 DEF r, c

(* A node more, unless it is empty (linked_list_buffer.go:82). *)
LEMMA PushBackAppends ==
  ASSUME NEW S, NEW l \in Seq(Seq(S)), NEW p \in Seq(S)
  PROVE  PushBack(l, p) \in Seq(Seq(S)) /\ Content(PushBack(l, p)) = Content(l) \o p
<1>1. CASE p = << >>
  <2>1. PushBack(l, p) = l BY <1>1 DEF PushBack
  <2>2. Content(l) \in Seq(S) BY ContentIs
  <2>3. Content(l) \o << >> = Content(l) BY <2>2, ConcatEmptySeq
  <2> QED BY <1>1, <2>1, <2>3
<1>2. CASE p # << >>
  <2>1. PushBack(l, p) = Append(l, p) BY <1>2 DEF PushBack
  <2>2. Append(l, p) \in Seq(Seq(S))
    <3> DEFINE T == Seq(S)
    <3>1. l \in Seq(T) /\ p \in T OBVIOUS
    <3> HIDE DEF T
    <3>2. Append(l, p) \in Seq(T) BY <3>1, AppendProperties
    <3> QED BY <3>2 DEF T
  <2> QED BY <2>1, <2>2, ContentAppend
<1> QED BY <1>1, <1>2

(* The first nodes hold the first bytes. *)
LEMMA FirstNodes ==
  ASSUME NEW S, NEW l \in Seq(Seq(S)), NEW k \in Nat, k <= Len(l)
  PROVE  /\ SubSeq(l, 1, k) \in Seq(Seq(S))
         /\ Buffered(SubSeq(l, 1, k)) \in Nat /\ Buffered(SubSeq(l, 1, k)) <= Buffered(l)
         /\ Content(SubSeq(l, 1, k)) = SubSeq(Content(l), 1, Buffered(SubSeq(l, 1, k)))
<1> DEFINE T == Seq(S)
           x == SubSeq(l, 1, k)
           y == SubSeq(l, k + 1, Len(l))
           c == Content(x)
           d == Content(y)
<1>1. l \in Seq(T) /\ Len(l) \in Nat OBVIOUS
<1>2. x \in Seq(T) /\ y \in Seq(T)
  <2> HIDE DEF T
  <2>1. x \in Seq(T) BY <1>1, FirstOf
  <2>2. y \in Seq(T) BY <1>1, RestOf DEF Rest
  <2> QED BY <2>1, <2>2
<1>3. x \o y = l
  <2> HIDE DEF T
  <2>1. 1 \in 1..(Len(l) + 1) /\ k \in (1 - 1)..Len(l) /\ Len(l) \in k..Len(l) BY <1>1
  <2>2. x \o y = SubSeq(l, 1, Len(l)) BY <1>1, <2>1, ConcatAdjacentSubSeq
  <2>3. SubSeq(l, 1, Len(l)) = l BY <1>1, SubSeqFull
  <2> QED BY <2>2, <2>3
<1> HIDE DEF x, y
<1>4. Content(x \o y) = c \o d BY <1>2, ContentConcat
<1>5. c \in Seq(S) /\ d \in Seq(S) /\ Buffered(x) = Len(c) BY <1>2, ContentIs
<1>6. Content(l) = c \o d /\ Buffered(l) = Len(c \o d) BY <1>3, <1>4 DEF Buffered
<1> HIDE DEF c, d
<1>7. Len(c \o d) = Len(c) + Len(d) BY <1>5, ConcatProperties
<1>8. Len(c) \in Nat /\ Len(d) \in Nat /\ Len(c) <= Len(c) + Len(d) BY <1>5
<1>9. SubSeq(c \o d, 1, Len(c)) = SubSeq(c, 1, Len(c)) BY <1>5, <1>8, FirstOfConcat
<1>10. SubSeq(c, 1, Len(c)) = c BY <1>5, SubSeqFull
<1> QED BY <1>2, <1>5, <1>6, <1>7, <1>8, <1>9, <1>10 DEF x, c

(* No node is longer than the list. *)
LEMMA NodeFits ==
  ASSUME NEW S, NEW l \in Seq(Seq(S)), NEW i \in Nat, i > 0, i <= Len(l)
  PROVE  Len(l[i]) <= Buffered(l)
<1> DEFINE T == Seq(S)
           j == i - 1
           h == SubSeq(l, 1, j)
           x == l[j + 1]
<1>1. j \in Nat /\ j < Len(l) /\ j + 1 = i OBVIOUS
<1> HIDE DEF j
<1>2. h \in Seq(T) /\ x \in T /\ SubSeq(l, 1, j + 1) = Append(h, x)
  <2> HIDE DEF T
  <2>1. l \in Seq(T) BY DEF T
  <2> QED BY <1>1, <2>1, FrontAppend
<1>3. /\ Buffered(SubSeq(l, 1, i)) \in Nat /\ Buffered(SubSeq(l, 1, i)) <= Buffered(l) BY FirstNodes
<1>4. Buffered(SubSeq(l, 1, i)) = Len(Content(Append(h, x))) BY <1>1, <1>2 DEF Buffered
<1> HIDE DEF h, x
<1>5. Content(Append(h, x)) = Content(h) \o x BY <1>2, ContentAppend
<1>6. Content(h) \in Seq(S) BY <1>2, ContentIs
<1>7. Len(Content(h) \o x) = Len(Content(h)) + Len(x)
  <2> DEFINE c == Content(h)
  <2>1. c \in Seq(S) /\ x \in Seq(S) BY <1>2, <1>6
  <2> HIDE DEF c
  <2>2. Len(c \o x) = Len(c) + Len(x) BY ONLY <2>1, ConcatProperties
  <2> QED BY <2>2 DEF c
<1>8. Len(Content(h)) \in Nat /\ Len(x) \in Nat BY <1>2, <1>6
<1>9. Buffered(l) \in Nat BY ContentIs
<1>10. Len(x) <= Buffered(l) BY <1>3, <1>4, <1>5, <1>7, <1>8, <1>9
<1> QED BY <1>1, <1>10 DEF x

(* A set of numbers has a least one. *)
LEMMA MinIn ==
  ASSUME NEW T, T \subseteq Nat, T # {}
  PROVE  Min(T) \in T
<1>1. PICK x \in T : \A y \in T : ~(<<y, x>> \in OpToRel(<, Nat))
  BY NatLessThanWellFounded, WFMin, Zenon
<1>2. ASSUME NEW y \in T PROVE x <= y
  <2>1. x \in Nat /\ y \in Nat OBVIOUS
  <2>2. y < x => <<y, x>> \in OpToRel(<, Nat) BY <2>1 DEF OpToRel
  <2>3. ~(y < x) BY <1>1, <2>2, Zenon
  <2> QED BY <2>1, <2>3
<1> QED BY <1>2 DEF Min

\* r is the front of c: n bytes or more, or all of c, which it is for n <= 0.
Shows(r, c, n) == /\ Len(r) \in Nat /\ Len(r) <= Len(c) /\ r = SubSeq(c, 1, Len(r))
                  /\ (n <= 0 => r = c)
                  /\ (Len(r) >= n \/ r = c)

(* The slices of PeekWithBytes hold the first bytes of b1, b2 and the list: at least as *)
(* many as were asked for, or all of them (linked_list_buffer.go:108).                *)
THEOREM PeekShowsEnough ==
  ASSUME NEW S, NEW l \in Seq(Seq(S)), NEW n \in Int, NEW b1 \in Seq(S), NEW b2 \in Seq(S)
  PROVE  Shows(Content(PeekWithBytes(l, n, b1, b2)), (b1 \o b2) \o Content(l), n)
<1> SUFFICES ASSUME NEW c, c = (b1 \o b2) \o Content(l),
                    NEW r, r = Content(PeekWithBytes(l, n, b1, b2))
             PROVE  /\ Len(r) \in Nat /\ Len(r) <= Len(c) /\ r = SubSeq(c, 1, Len(r))
                    /\ n <= 0 => r = c
                    /\ Len(r) >= n \/ r = c
  BY DEF Shows
<1> DEFINE T == Seq(S)
           p == PushBack(PushBack(<< >>, b1), b2)
           nodes == p \o l
           enough == {k \in 1..Len(nodes) : n > 0 /\ Buffered(SubSeq(nodes, 1, k)) >= n}
           s == IF enough = {} THEN nodes ELSE SubSeq(nodes, 1, Min(enough))
<1>1. p \in Seq(T) /\ Content(p) = b1 \o b2
  <2> DEFINE q == PushBack(<< >>, b1)
  <2>1. q \in Seq(T) /\ Content(q) = Content(<< >>) \o b1
    <3>1. << >> \in Seq(Seq(S)) OBVIOUS
    <3> QED BY <3>1, PushBackAppends
  <2>2. Content(q) = b1 BY <2>1, ContentOfNone, ConcatEmptySeq
  <2> HIDE DEF q
  <2>3. PushBack(q, b2) \in Seq(T) /\ Content(PushBack(q, b2)) = Content(q) \o b2 BY <2>1, PushBackAppends
  <2> QED BY <2>2, <2>3 DEF q
<1> HIDE DEF p
<1>2. nodes \in Seq(T) /\ Content(nodes) = c
  <2>1. p \o l \in Seq(T)
    <3>1. l \in Seq(T) OBVIOUS
    <3> HIDE DEF T
    <3> QED BY <1>1, <3>1, ConcatProperties
  <2>2. Content(p \o l) = Content(p) \o Content(l) BY <1>1, ContentConcat
  <2>3. Content(nodes) = (b1 \o b2) \o Content(l) BY <1>1, <2>2
  <2> HIDE DEF nodes
  <2>4. Content(nodes) = c BY <2>3, Zenon
  <2> QED BY <2>1, <2>4 DEF nodes
<1>3. c \in Seq(S) /\ Buffered(nodes) = Len(c) /\ Len(c) \in Nat BY <1>2, ContentIs DEF Buffered
<1>4. PeekWithBytes(l, n, b1, b2) = s BY DEF PeekWithBytes, p
<1>5. Len(nodes) \in Nat
  <2> HIDE DEF T, nodes
  <2> QED BY <1>2
<1> HIDE DEF nodes
<1>6. CASE enough = {}
  <2>1. r = c BY <1>2, <1>4, <1>6
  <2>2. SubSeq(c, 1, Len(c)) = c BY <1>3, SubSeqFull
  <2> QED BY <1>3, <2>1, <2>2
<1>7. CASE enough # {}
  <2> DEFINE k == Min(enough)
  <2>1. k \in enough
    <3>1. enough \subseteq Nat BY <1>5
    <3> HIDE DEF enough
    <3> QED BY <1>7, <3>1, MinIn
  <2>2. k \in Nat /\ k <= Len(nodes) /\ n > 0 /\ Buffered(SubSeq(nodes, 1, k)) >= n
    <3> HIDE DEF k
    <3> QED BY <1>5, <2>1
  <2>3. r = Content(SubSeq(nodes, 1, k)) BY <1>4, <1>7
  <2> HIDE DEF k
  <2>4. /\ Buffered(SubSeq(nodes, 1, k)) \in Nat /\ Buffered(SubSeq(nodes, 1, k)) <= Buffered(nodes)
        /\ Content(SubSeq(nodes, 1, k)) = SubSeq(Content(nodes), 1, Buffered(SubSeq(nodes, 1, k)))
    BY <1>2, <2>2, FirstNodes
  <2>5. Buffered(SubSeq(nodes, 1, k)) = Len(r) BY <2>3 DEF Buffered
  <2>6. n > 0 /\ Len(r) >= n BY <2>2, <2>5
  <2> QED BY <1>2, <1>3, <2>3, <2>4, <2>5, <2>6
<1> QED BY <1>6, <1>7

(* WriteTo drops what the writer takes; with an error the node it had in its hands is *)
(* lost too, so nothing else only when it has taken everything                       *)
(* (linked_list_buffer.go:165).                                                      *)
THEOREM WriteToDropsFront ==
  ASSUME NEW S, NEW l \in Seq(Seq(S)), NEW k \in Nat, NEW err \in BOOLEAN
  PROVE  /\ WriteTo(l, k, err) \in Seq(Seq(S))
         /\ l = << >> => WriteTo(l, k, err) = l
         /\ ~err \/ k >= Buffered(l) => Content(WriteTo(l, k, err)) = Rest(Content(l), k)
<1> DEFINE T == Seq(S)
           d == Discard(l, k)
<1>1. d \in Seq(T) /\ Content(d) = Rest(Content(l), k) /\ (l = << >> => d = l)
  <2>1. Content(l) \in Seq(S) BY ContentIs
  <2>2. Rest(Content(l), 0) = Content(l) BY <2>1, RestOf
  <2>3. k \in Int OBVIOUS
  <2>4. /\ Discard(l, k) \in Seq(Seq(S)) /\ (k <= 0 \/ l = << >> => Discard(l, k) = l)
        /\ k > 0 => Content(Discard(l, k)) = Rest(Content(l), k)
    BY <2>3, DiscardDropsFront
  <2>5. k = 0 \/ k > 0 OBVIOUS
  <2> HIDE DEF d
  <2>6. d = Discard(l, k) BY DEF d
  <2>7. k <= 0 => k = 0 OBVIOUS
  <2> QED BY <2>2, <2>4, <2>5, <2>6, <2>7
<1> HIDE DEF d
<1>2. CASE ~err \/ d = << >>
  <2>1. WriteTo(l, k, err) = d BY <1>2 DEF WriteTo, d
  <2> QED BY <1>1, <2>1
<1>3. CASE err /\ d # << >>
  <2>1. WriteTo(l, k, err) = Tail(d) BY <1>3 DEF WriteTo, d
  <2>2. Tail(d) \in Seq(T)
    <3> HIDE DEF T
    <3> QED BY <1>1, <1>3, HeadTailProperties
  <2>3. ASSUME k >= Buffered(l) PROVE Content(Tail(d)) = Rest(Content(l), k)
    <3>1. Content(l) \in Seq(S) /\ k >= Len(Content(l)) BY <2>3, ContentIs
    <3>2. Rest(Content(l), k) = << >> BY <3>1, RestOf
    <3> DEFINE h == SubSeq(d, 1, 1)
               t == SubSeq(d, 2, Len(d))
    <3>3. h \in Seq(T) /\ t \in Seq(T) /\ h \o t = d /\ t = Tail(d)
      <4> HIDE DEF T
      <4>1. Len(d) \in Nat /\ Len(d) > 0 BY <1>1, <1>3
      <4>2. t = Tail(d) BY <1>1, <1>3, TailIsSubSeq
      <4>3. h \in Seq(T) BY <1>1, <4>1, FirstOf
      <4>4. 1 \in 1..(Len(d) + 1) /\ 1 \in (1 - 1)..Len(d) /\ Len(d) \in 1..Len(d) /\ 1 + 1 = 2 BY <4>1
      <4>5. SubSeq(d, 1, 1) \o SubSeq(d, 1 + 1, Len(d)) = SubSeq(d, 1, Len(d))
        BY <1>1, <4>4, ConcatAdjacentSubSeq
      <4>6. SubSeq(d, 1, Len(d)) = d BY <1>1, SubSeqFull
      <4> QED BY <2>2, <4>2, <4>3, <4>4, <4>5, <4>6
    <3> HIDE DEF h, t
    <3>4. Content(h \o t) = Content(h) \o Content(t) BY <3>3, ContentConcat
    <3>5. Content(h) \in Seq(S) /\ Content(t) \in Seq(S) BY <3>3, ContentIs
    <3>6. Content(h) \o Content(t) = << >> BY <1>1, <3>2, <3>3, <3>4
    <3>7. Content(t) = << >> BY <3>5, <3>6, ConcatEqualIffEmpty
    <3> QED BY <3>2, <3>3, <3>7
  <2>4. l # << >> BY <1>1, <1>3
  <2> QED BY <1>3, <2>1, <2>2, <2>3, <2>4
<1> QED BY <1>2, <1>3
=============================================================================

--------------------------- MODULE OutboundProofs ---------------------------
(***************************************************************************)
(* Theorems about Outbound for every set of goroutines, every capacity of  *)
(* the send buffer and every payload length, with or without faults:       *)
(* types, order of the byte stream, EPOLLOUT armed while bytes wait, and   *)
(* no teardown of a healthy connection.                                    *)
(***************************************************************************)
EXTENDS Outbound, SequenceTheorems, TLAPS

-----------------------------------------------------------------------------
(* Sequences *)

(* Cutting a sequence in two and joining the parts gives it back: what a    *)
(* partial write sent and what is buffered are together the payload.        *)
LEMMA TakeDrop ==
  ASSUME NEW S, NEW s \in Seq(S), NEW k \in 0..Len(s)
  PROVE  /\ Take(s, k) \in Seq(S) /\ Len(Take(s, k)) = k
         /\ Drop(s, k) \in Seq(S) /\ Len(Drop(s, k)) = Len(s) - k
         /\ Take(s, k) \o Drop(s, k) = s
         /\ Drop(s, k) = << >> <=> k = Len(s)
<1>1. Len(s) \in Nat /\ \A i \in 1..Len(s) : s[i] \in S
  BY LenProperties, ElementOfSeq
<1> DEFINE t == Take(s, k)
           d == Drop(s, k)
<1>2. t \in Seq(S) /\ Len(t) = k /\ \A i \in 1..k : t[i] = s[i]
  <2>1. \A i \in 1..k : s[i] \in S
    BY <1>1
  <2> QED BY <1>1, <2>1, SubSeqProperties DEF Take
<1>3. d \in Seq(S) /\ Len(d) = Len(s) - k /\ \A i \in 1..Len(s) - k : d[i] = s[k + i]
  <2>1. \A i \in (k+1)..Len(s) : s[i] \in S
    BY <1>1
  <2> QED BY <1>1, <2>1, SubSeqProperties DEF Drop
<1> HIDE DEF t, d
<1>4. t \o d = s
  <2>1. /\ t \o d \in Seq(S) /\ Len(t \o d) = Len(t) + Len(d)
        /\ \A i \in 1..Len(t) + Len(d) : (t \o d)[i] = IF i <= Len(t) THEN t[i] ELSE d[i - Len(t)]
    BY <1>2, <1>3, ConcatProperties
  <2>2. Len(t \o d) = Len(s)
    BY <1>1, <1>2, <1>3, <2>1
  <2>3. \A i \in 1..Len(s) : (t \o d)[i] = s[i]
    BY <1>1, <1>2, <1>3, <2>1
  <2> QED BY <2>1, <2>2, <2>3, SeqEqual
<1>5. d = << >> <=> k = Len(s)
  BY <1>1, <1>3, EmptySeq
<1> QED BY <1>2, <1>3, <1>4, <1>5 DEF t, d

(* Joining is associative.                                                  *)
LEMMA Regroup ==
  ASSUME NEW S, NEW a \in Seq(S), NEW b \in Seq(S), NEW c \in Seq(S)
  PROVE  (a \o b) \o c = a \o (b \o c)
BY ConcatAssociative

(* Receiving the head of the send buffer.                                   *)
LEMMA AppendHead ==
  ASSUME NEW S, NEW a \in Seq(S), NEW b \in Seq(S), b # << >>
  PROVE  /\ Append(a, Head(b)) \in Seq(S) /\ Tail(b) \in Seq(S)
         /\ Append(a, Head(b)) \o Tail(b) = a \o b
         /\ Len(Tail(b)) = Len(b) - 1
<1>1. /\ Head(b) \in S /\ Tail(b) \in Seq(S)
      /\ Len(Tail(b)) = Len(b) - 1
  BY HeadTailProperties
<1>2. Append(a, Head(b)) = a \o <<Head(b)>> /\ Append(a, Head(b)) \in Seq(S)
  BY <1>1, AppendIsConcat, AppendProperties
<1>3. <<Head(b)>> \in Seq(S)
  BY <1>1
<1>4. <<Head(b)>> \o Tail(b) = b
  BY HeadTailProperties
<1> QED BY <1>1, <1>2, <1>3, <1>4, ConcatAssociative

-----------------------------------------------------------------------------
(* Types *)

LEMMA InitType == Init => TypeOK
<1> SUFFICES ASSUME Init PROVE TypeOK
  OBVIOUS
<1>1. << >> \in Seq(Byte) /\ Len(<< >>) = 0
  BY EmptySeq
<1>2. /\ pc \in [Procs -> Labels] /\ made \in [Procs -> Nat]
      /\ arg \in [Procs -> Seq(Byte)] /\ mtx \in Procs \cup {NoOne}
  BY <1>1 DEF Init, Labels
<1>3. /\ outBuf \in Seq(Byte) /\ sndBuf \in Seq(Byte) /\ peerGot \in Seq(Byte)
      /\ accepted \in Seq(Byte) /\ lost \in Seq(Byte) /\ Len(sndBuf) <= SndCap
  BY <1>1, BoundAssumption DEF Init
<1> QED BY <1>2, <1>3 DEF Init, TypeOK

(* The part of a step every send has in common: the socket takes a prefix   *)
(* of s that fits, the outbound buffer keeps the rest.                      *)
LEMMA TransmitType ==
  ASSUME TypeOK, NEW s \in Seq(Byte), NEW k \in 1..Len(s), Transmit(s, k)
  PROVE  /\ sndBuf' \in Seq(Byte) /\ outBuf' \in Seq(Byte)
         /\ Len(sndBuf') <= SndCap
         /\ sndBuf' = sndBuf \o Take(s, k) /\ outBuf' = Drop(s, k)
         /\ sndBuf' \o outBuf' = sndBuf \o s
         /\ outBuf' = << >> <=> k = Len(s)
         /\ Writable
<1>1. Len(s) \in Nat /\ Len(sndBuf) \in Nat /\ sndBuf \in Seq(Byte) /\ Len(sndBuf) <= SndCap
  BY LenProperties DEF TypeOK
<1>2. k \in 0..Len(s)
  BY <1>1
<1>3. /\ Take(s, k) \in Seq(Byte) /\ Len(Take(s, k)) = k
      /\ Drop(s, k) \in Seq(Byte)
      /\ Take(s, k) \o Drop(s, k) = s
      /\ Drop(s, k) = << >> <=> k = Len(s)
  BY <1>2, TakeDrop
<1>4. sndBuf' = sndBuf \o Take(s, k) /\ outBuf' = Drop(s, k) /\ k \in Sendable(s)
  BY DEF Transmit
<1>5. Writable /\ k <= Room
  BY <1>1, <1>4, BoundAssumption DEF Sendable, Min2, Room
<1>6. sndBuf' \in Seq(Byte) /\ Len(sndBuf') = Len(sndBuf) + k
  <2> DEFINE t == Take(s, k)
  <2>1. sndBuf \in Seq(Byte) /\ t \in Seq(Byte) /\ Len(t) = k /\ sndBuf' = sndBuf \o t
    BY <1>1, <1>3, <1>4
  <2> HIDE DEF t
  <2>2. sndBuf \o t \in Seq(Byte) /\ Len(sndBuf \o t) = Len(sndBuf) + Len(t)
    BY ONLY <2>1, ConcatProperties
  <2> QED BY <2>1, <2>2
<1>7. Len(sndBuf') <= SndCap
  BY <1>1, <1>5, <1>6, BoundAssumption DEF Room
<1>8. sndBuf' \o outBuf' = sndBuf \o s
  <2> DEFINE t == Take(s, k)
             d == Drop(s, k)
  <2>1. sndBuf \in Seq(Byte) /\ t \in Seq(Byte) /\ d \in Seq(Byte)
    BY <1>1, <1>3
  <2> HIDE DEF t, d
  <2>2. (sndBuf \o t) \o d = sndBuf \o (t \o d)
    <3> DEFINE a == sndBuf
               B == Byte
    <3>1. a \in Seq(B) /\ t \in Seq(B) /\ d \in Seq(B) BY <2>1
    <3> HIDE DEF a, B
    <3>2. (a \o t) \o d = a \o (t \o d) BY ONLY <3>1, Regroup
    <3> QED BY <3>2 DEF a
  <2> QED BY <1>3, <1>4, <2>2 DEF t, d
<1> QED BY <1>3, <1>4, <1>5, <1>6, <1>7, <1>8

LEMMA EnterWriteType ==
  ASSUME TypeOK, NEW p \in Writers, EnterWrite(p)
  PROVE  /\ arg' \in [Procs -> Seq(Byte)] /\ made' \in [Procs -> Nat]
         /\ pc' = [pc EXCEPT ![p] = "w_lock"]
<1>1. PICK n \in Lens : /\ arg' = [arg EXCEPT ![p] = Payload(p, n)]
                        /\ made' = [made EXCEPT ![p] = @ + n]
                        /\ pc' = [pc EXCEPT ![p] = "w_lock"]
  BY DEF EnterWrite, Goto
<1>2. p \in Procs /\ n \in Nat /\ made[p] \in Nat
  BY BoundAssumption DEF TypeOK, Procs
<1>3. \A i \in 1..n : <<p, made[p] + i>> \in Byte
  BY <1>2 DEF Byte
<1>4. Payload(p, n) \in Seq(Byte)
  BY <1>2, <1>3 DEF Payload
<1> QED BY <1>1, <1>2, <1>4 DEF TypeOK

(* A step that moves one goroutine, takes or frees writeMtx, and touches    *)
(* nothing else.                                                            *)
LEMMA QuietType ==
  ASSUME TypeOK, NEW p \in Procs, NEW a \in Labels, NEW b \in Labels,
         Move(p, a, b) \/ Acquire(p, a, b) \/ Leave(p, a, b)
  PROVE  TypeOK'
BY DEF TypeOK, Move, Acquire, Leave, Step, Goto, Unlock, conn, net, hist

LEMMA WriteType ==
  ASSUME TypeOK, NEW p \in Writers,
         WriteCall(p) \/ WriteLock(p) \/ WriteSend(p) \/ WriteRearm(p)
  PROVE  TypeOK'
<1>0. p \in Procs /\ arg[p] \in Seq(Byte) /\ arg[p] = arg[p] /\ << >> \in Seq(Byte)
  BY EmptySeq DEF Procs, TypeOK
<1>1. CASE WriteCall(p)
  <2>1. EnterWrite(p)
    BY <1>1 DEF WriteCall
  <2>2. /\ arg' \in [Procs -> Seq(Byte)] /\ made' \in [Procs -> Nat]
        /\ pc' \in [Procs -> Labels]
    BY <2>1, EnterWriteType DEF TypeOK, Labels
  <2> QED BY <1>1, <2>2 DEF WriteCall, TypeOK, conn, net, hist
<1>2. CASE WriteLock(p)
  BY <1>0, <1>2, QuietType DEF WriteLock, Labels
<1>3. ASSUME Accepted(p) PROVE /\ arg' \in [Procs -> Seq(Byte)]
                               /\ accepted' \in Seq(Byte)
                               /\ lost' = lost /\ onClosed' = onClosed
  <2>1. accepted' = accepted \o arg[p] /\ accepted \in Seq(Byte)
    BY <1>3 DEF Accepted, TypeOK
  <2>2. accepted' \in Seq(Byte)
    BY <1>0, <2>1, ConcatProperties
  <2> QED BY <1>0, <1>3, <2>2 DEF Accepted, TypeOK
<1>4. CASE WriteQueue(p)
  <2>1. outBuf' = outBuf \o arg[p] /\ outBuf \in Seq(Byte)
    BY <1>4 DEF WriteQueue, TypeOK
  <2>2. outBuf' \in Seq(Byte)
    BY <1>0, <2>1, ConcatProperties
  <2>3. pc' \in [Procs -> Labels] /\ mtx' \in Procs \cup {NoOne}
    BY <1>4 DEF WriteQueue, Step, Goto, Unlock, TypeOK, Labels
  <2> QED BY <1>3, <1>4, <2>2, <2>3 DEF WriteQueue, TypeOK, net
<1>5. CASE WriteAgain(p)
  <2>1. pc' \in [Procs -> Labels] /\ outBuf' \in Seq(Byte)
    BY <1>0, <1>5 DEF WriteAgain, Step, Goto, TypeOK, Labels
  <2> QED BY <1>3, <1>5, <2>1 DEF WriteAgain, TypeOK, net
<1>6. CASE WriteSome(p)
  <2>1. PICK k \in 1..Len(arg[p]) :
          /\ Transmit(arg[p], k)
          /\ IF k < Len(arg[p]) THEN Step(p, "w_send", "w_rearm") /\ UNCHANGED mtx
                                ELSE Step(p, "w_send", "idle") /\ Unlock
    BY <1>6 DEF WriteSome
  <2>2. sndBuf' \in Seq(Byte) /\ outBuf' \in Seq(Byte) /\ Len(sndBuf') <= SndCap
    BY <1>0, <2>1, TransmitType
  <2>3. pc' \in [Procs -> Labels] /\ mtx' \in Procs \cup {NoOne}
    BY <2>1 DEF Step, Goto, Unlock, TypeOK, Labels
  <2> QED BY <1>3, <1>6, <2>2, <2>3 DEF WriteSome, TypeOK
<1>7. CASE WriteFail(p)
  BY <1>0, <1>7, QuietType DEF WriteFail, Labels
<1>8. CASE WriteRearm(p)
  BY <1>0, <1>8 DEF WriteRearm, Step, Goto, Unlock, Modified, TypeOK, Labels, net, hist
<1> QED BY <1>1, <1>2, <1>4, <1>5, <1>6, <1>7, <1>8 DEF WriteSend

LEMMA CloseType ==
  ASSUME TypeOK, NEW p \in Procs,
         CloseCall(p) \/ CloseLock(p) \/ CloseStep(p) \/ Release(p)
  PROVE  TypeOK'
<1>1. CASE CloseCall(p)
  BY <1>1, QuietType DEF CloseCall, Labels
<1>2. CASE CloseLock(p)
  BY <1>2, QuietType DEF CloseLock, Labels
<1>3. CASE CloseFlush(p)
  <2>1. PICK k \in 1..Len(outBuf) : Transmit(outBuf, k)
    BY <1>3 DEF CloseFlush
  <2>2. sndBuf' \in Seq(Byte) /\ outBuf' \in Seq(Byte) /\ Len(sndBuf') <= SndCap
    BY <2>1, TransmitType DEF TypeOK
  <2> QED BY <1>3, <2>2 DEF CloseFlush, Step, Goto, TypeOK, Labels, hist
<1>4. CASE CloseFlushEnd(p)
  BY <1>4, QuietType DEF CloseFlushEnd, Labels
<1>5. CASE CloseDelete(p)
  BY <1>5 DEF CloseDelete, Step, Goto, TypeOK, Labels, net, hist
<1>6. CASE CloseFd(p)
  BY <1>6 DEF CloseFd, Step, Goto, TypeOK, Labels, net, hist
<1>7. CASE Release(p)
  <2>1. lost' \in Seq(Byte) /\ outBuf' \in Seq(Byte)
    BY <1>7, ConcatProperties, EmptySeq DEF Release, TypeOK
  <2> QED BY <1>7, <2>1 DEF Release, Step, Goto, TypeOK, Labels, net
<1> QED BY <1>1, <1>2, <1>3, <1>4, <1>5, <1>6, <1>7 DEF CloseStep

LEMMA LoopType ==
  ASSUME TypeOK, LoopEvent \/ FlushLock \/ Flush
  PROVE  TypeOK'
<1>0. Loop \in Procs
  BY DEF Procs
<1>1. CASE EventOut \/ EventIn \/ EventReadFail \/ FlushLock \/ FlushAgain \/ FlushFail
  <2>1. \E a, b \in Labels : Move(Loop, a, b) \/ Acquire(Loop, a, b) \/ Leave(Loop, a, b)
    BY <1>1 DEF EventOut, EventIn, EventReadFail, FlushLock, FlushAgain, FlushFail, Labels
  <2> QED BY <1>0, <2>1, QuietType
<1>2. CASE EventRead
  <2>1. CASE Move(Loop, "r_read", "idle")
    BY <1>0, <2>1, QuietType DEF Labels
  <2>2. CASE Loop \in Writers /\ EnterWrite(Loop) /\ UNCHANGED <<mtx, conn, net, hist>>
    <3>1. /\ arg' \in [Procs -> Seq(Byte)] /\ made' \in [Procs -> Nat]
          /\ pc' \in [Procs -> Labels]
      BY <2>2, EnterWriteType DEF TypeOK, Labels
    <3> QED BY <2>2, <3>1 DEF TypeOK, conn, net, hist
  <2> QED BY <1>2, <2>1, <2>2 DEF EventRead
<1>3. CASE Teardown
  BY <1>3 DEF Teardown, Step, Goto, TypeOK, Labels, conn, net
<1>4. CASE FlushSome
  <2>1. PICK k \in 1..Len(outBuf) :
          /\ Transmit(outBuf, k)
          /\ IF k = Len(outBuf) THEN Step(Loop, "f_send", "f_rearm") /\ UNCHANGED mtx
                                ELSE Step(Loop, "f_send", "idle") /\ Unlock
    BY <1>4 DEF FlushSome
  <2>2. sndBuf' \in Seq(Byte) /\ outBuf' \in Seq(Byte) /\ Len(sndBuf') <= SndCap
    BY <2>1, TransmitType DEF TypeOK
  <2>3. pc' \in [Procs -> Labels] /\ mtx' \in Procs \cup {NoOne}
    BY <2>1 DEF Step, Goto, Unlock, TypeOK, Labels
  <2> QED BY <1>4, <2>2, <2>3 DEF FlushSome, TypeOK, hist
<1>5. CASE FlushRearm
  BY <1>5 DEF FlushRearm, Step, Goto, Unlock, Modified, TypeOK, Labels, net, hist
<1> QED BY <1>1, <1>2, <1>3, <1>4, <1>5 DEF LoopEvent, Flush

LEMMA PeerType ==
  ASSUME TypeOK, PeerRecv \/ \E f \in Faults : PeerFault(f)
  PROVE  TypeOK'
<1>1. CASE PeerRecv
  <2>1. /\ peerGot' = Append(peerGot, Head(sndBuf)) /\ sndBuf' = Tail(sndBuf)
        /\ sndBuf # << >>
    BY <1>1 DEF PeerRecv
  <2>2. /\ peerGot' \in Seq(Byte) /\ sndBuf' \in Seq(Byte)
        /\ Len(sndBuf') = Len(sndBuf) - 1 /\ Len(sndBuf) \in Nat
    BY <2>1, AppendHead, LenProperties DEF TypeOK
  <2>3. Len(sndBuf') <= SndCap
    BY <2>2, BoundAssumption DEF TypeOK
  <2> QED BY <1>1, <2>2, <2>3 DEF PeerRecv, TypeOK, conn, hist
<1>2. ASSUME NEW f \in Faults, PeerFault(f) PROVE TypeOK'
  BY <1>2, FaultAssumption DEF PeerFault, TypeOK, conn, hist
<1> QED BY <1>1, <1>2

LEMMA NextType == TypeOK /\ [Next]_vars => TypeOK'
<1> SUFFICES ASSUME TypeOK, [Next]_vars PROVE TypeOK'
  OBVIOUS
<1>1. CASE \E p \in Writers : WriteCall(p) \/ WriteLock(p) \/ WriteSend(p) \/ WriteRearm(p)
  BY <1>1, WriteType
<1>2. CASE \E p \in Closers : CloseCall(p)
  BY <1>2, CloseType DEF Procs
<1>3. CASE \E p \in Procs : CloseLock(p) \/ CloseStep(p) \/ Release(p)
  BY <1>3, CloseType
<1>4. CASE LoopEvent \/ FlushLock \/ Flush
  BY <1>4, LoopType
<1>5. CASE PeerRecv \/ \E f \in Faults : PeerFault(f)
  BY <1>5, PeerType
<1>6. CASE UNCHANGED vars
  BY <1>6 DEF vars, TypeOK
<1> QED BY <1>1, <1>2, <1>3, <1>4, <1>5, <1>6 DEF Next

(* Every reachable state has the types of TypeOK; the part that is not a     *)
(* matter of types is that the socket's send buffer never overflows.         *)
THEOREM TypeCorrect == Spec => []TypeOK
<1>1. Init => TypeOK
  BY InitType
<1>2. TypeOK /\ [Next]_vars => TypeOK'
  BY NextType
<1> QED BY <1>1, <1>2, PTL DEF Spec

-----------------------------------------------------------------------------
(* The lock *)

LEMMA LockPreserved ==
  ASSUME TypeOK, LockInv, [Next]_vars
  PROVE  LockInv'
<1> USE DEF LockInv, Step, Goto, Unlock
<1>0. Loop \in Procs /\ Writers \subseteq Procs /\ NoOne \notin Procs /\ pc \in [Procs -> Labels]
  BY ProcAssumption DEF Procs, TypeOK
<1>1. ASSUME NEW p \in Writers, WriteCall(p) PROVE LockInv'
  BY <1>0, <1>1 DEF WriteCall, EnterWrite, conn
<1>2. ASSUME NEW p \in Procs, NEW a \in Labels, NEW b \in Labels, Acquire(p, a, b),
             b \notin {"w_rearm", "f_rearm"}
      PROVE LockInv'
  BY <1>0, <1>2 DEF Acquire, conn
<1>3. ASSUME NEW p \in Procs, NEW a \in Labels, NEW b \in Labels, Leave(p, a, b),
             a \in {"w_send", "w_rearm", "c_flush", "f_send", "f_rearm"},
             b \notin {"w_send", "w_rearm", "c_flush", "f_send", "f_rearm"}
      PROVE LockInv'
  BY <1>0, <1>3 DEF Leave, conn
<1>4. ASSUME NEW p \in Procs, NEW a \in Labels, NEW b \in Labels, Move(p, a, b),
             b \notin {"w_send", "w_rearm", "c_flush", "f_send", "f_rearm"}
      PROVE LockInv'
  BY <1>0, <1>4 DEF Move, conn
<1>5. ASSUME NEW p \in Writers, WriteQueue(p) PROVE LockInv'
  BY <1>0, <1>5 DEF WriteQueue
<1>6. ASSUME NEW p \in Writers, WriteAgain(p) PROVE LockInv'
  BY <1>0, <1>6 DEF WriteAgain
<1>7. ASSUME NEW p \in Writers, WriteSome(p) PROVE LockInv'
  <2>1. PICK k \in 1..Len(arg[p]) :
          /\ Transmit(arg[p], k)
          /\ IF k < Len(arg[p]) THEN Step(p, "w_send", "w_rearm") /\ UNCHANGED mtx
                                ELSE Step(p, "w_send", "idle") /\ Unlock
    BY <1>7 DEF WriteSome
  <2>2. arg[p] \in Seq(Byte) /\ Len(arg[p]) \in Nat
    BY <1>0, LenProperties DEF TypeOK
  <2>3. outBuf' = << >> <=> k = Len(arg[p])
    BY <2>1, <2>2, TransmitType
  <2> QED BY <1>0, <2>1, <2>2, <2>3
<1>8. ASSUME NEW p \in Procs, CloseFlush(p) PROVE LockInv'
  <2>1. outBuf # << >>
    BY <1>8, EmptySeq DEF CloseFlush
  <2> QED BY <1>0, <1>8, <2>1 DEF CloseFlush
<1>9. CASE FlushSome
  <2>1. PICK k \in 1..Len(outBuf) :
          /\ Transmit(outBuf, k)
          /\ IF k = Len(outBuf) THEN Step(Loop, "f_send", "f_rearm") /\ UNCHANGED mtx
                                ELSE Step(Loop, "f_send", "idle") /\ Unlock
    BY <1>9 DEF FlushSome
  <2>2. outBuf' = << >> <=> k = Len(outBuf)
    BY <2>1, TransmitType DEF TypeOK
  <2> QED BY <1>0, <2>1, <2>2
<1>10. ASSUME NEW p \in Writers, WriteRearm(p) PROVE LockInv'
  BY <1>0, <1>10 DEF WriteRearm
<1>11. CASE FlushRearm
  BY <1>0, <1>11 DEF FlushRearm
<1>12. ASSUME NEW p \in Procs, CloseDelete(p) \/ CloseFd(p) \/ Release(p) PROVE LockInv'
  BY <1>0, <1>12 DEF CloseDelete, CloseFd, Release
<1>13. CASE EventRead \/ Teardown
  BY <1>0, <1>4, <1>13 DEF EventRead, Teardown, EnterWrite, Labels, conn
<1>14. CASE UNCHANGED vars \/ PeerRecv \/ \E f \in Faults : PeerFault(f)
  BY <1>0, <1>14 DEF PeerRecv, PeerFault, conn, vars
<1>15. ASSUME NEW p \in Writers, WriteLock(p) \/ WriteFail(p) PROVE LockInv'
  BY <1>0, <1>2, <1>4, <1>15 DEF WriteLock, WriteFail, Labels
<1>16. ASSUME NEW p \in Procs, CloseCall(p) \/ CloseLock(p) \/ CloseFlushEnd(p) PROVE LockInv'
  BY <1>0, <1>2, <1>3, <1>4, <1>16 DEF CloseCall, CloseLock, CloseFlushEnd, Labels
<1>17. CASE EventOut \/ EventIn \/ EventReadFail \/ FlushLock \/ FlushAgain \/ FlushFail
  BY <1>0, <1>2, <1>3, <1>4, <1>17
     DEF EventOut, EventIn, EventReadFail, FlushLock, FlushAgain, FlushFail, Labels
<1> QED BY <1>0, <1>1, <1>5, <1>6, <1>7, <1>8, <1>9, <1>10, <1>11, <1>12, <1>13, <1>14, <1>15,
           <1>16, <1>17
        DEF Next, WriteSend, CloseStep, LoopEvent, Flush, Procs

-----------------------------------------------------------------------------
(* Close and the descriptor *)

LEMMA ReleasePreserved ==
  ASSUME TypeOK, LockInv, ReleaseInv, [Next]_vars
  PROVE  ReleaseInv'
<1> USE DEF ReleaseInv, Step, Goto, Unlock
<1>0. Loop \in Procs /\ Writers \subseteq Procs /\ pc \in [Procs -> Labels]
  BY DEF Procs, TypeOK
<1>1. ASSUME NEW p \in Procs, NEW a \in Labels, NEW b \in Labels \ {"c_rel"},
             Move(p, a, b) \/ Acquire(p, a, b) \/ Leave(p, a, b)
      PROVE  ReleaseInv'
  BY <1>0, <1>1 DEF Move, Acquire, Leave, conn, hist
<1>2. ASSUME NEW p \in Writers, WriteCall(p) PROVE ReleaseInv'
  BY <1>0, <1>2 DEF WriteCall, EnterWrite, conn, hist
<1>3. ASSUME NEW p \in Writers, WriteQueue(p) PROVE ReleaseInv'
  BY <1>0, <1>3 DEF WriteQueue, Accepted
<1>4. ASSUME NEW p \in Writers, WriteAgain(p) PROVE ReleaseInv'
  BY <1>0, <1>4 DEF WriteAgain, Accepted, Writable
<1>5. ASSUME NEW p \in Writers, WriteSome(p) PROVE ReleaseInv'
  <2>1. PICK k \in 1..Len(arg[p]) :
          /\ Transmit(arg[p], k)
          /\ IF k < Len(arg[p]) THEN Step(p, "w_send", "w_rearm") /\ UNCHANGED mtx
                                ELSE Step(p, "w_send", "idle") /\ Unlock
    BY <1>5 DEF WriteSome
  <2>2. fdOpen
    BY <1>0, <2>1, TransmitType DEF TypeOK, Writable
  <2> QED BY <1>0, <1>5, <2>1, <2>2 DEF WriteSome, Accepted
<1>6. ASSUME NEW p \in Procs, CloseFlush(p) PROVE ReleaseInv'
  <2>1. PICK k \in 1..Len(outBuf) : Transmit(outBuf, k)
    BY <1>6 DEF CloseFlush
  <2>2. fdOpen
    BY <2>1, TransmitType DEF TypeOK, Writable
  <2> QED BY <1>0, <1>6, <2>2 DEF CloseFlush, hist
<1>7. CASE FlushSome
  <2>1. PICK k \in 1..Len(outBuf) :
          /\ Transmit(outBuf, k)
          /\ IF k = Len(outBuf) THEN Step(Loop, "f_send", "f_rearm") /\ UNCHANGED mtx
                                ELSE Step(Loop, "f_send", "idle") /\ Unlock
    BY <1>7 DEF FlushSome
  <2>2. fdOpen
    BY <2>1, TransmitType DEF TypeOK, Writable
  <2> QED BY <1>0, <1>7, <2>1, <2>2 DEF FlushSome, hist
<1>8. ASSUME NEW p \in Writers, WriteRearm(p) PROVE ReleaseInv'
  BY <1>0, <1>8 DEF WriteRearm, Modified, hist
<1>9. CASE FlushRearm
  BY <1>0, <1>9 DEF FlushRearm, Modified, hist
<1>10. ASSUME NEW p \in Procs, CloseDelete(p) \/ CloseFd(p) PROVE ReleaseInv'
  BY <1>0, <1>10 DEF CloseDelete, CloseFd, hist
<1>11. ASSUME NEW p \in Procs, Release(p) PROVE ReleaseInv'
  BY <1>0, <1>11 DEF Release
<1>12. CASE EventRead \/ Teardown
  BY <1>0, <1>1, <1>12 DEF EventRead, Teardown, EnterWrite, Labels, conn, hist
<1>13. CASE UNCHANGED vars \/ PeerRecv \/ \E f \in Faults : PeerFault(f)
  BY <1>0, <1>13 DEF PeerRecv, PeerFault, conn, hist, vars
<1>14. ASSUME NEW p \in Writers, WriteLock(p) \/ WriteFail(p) PROVE ReleaseInv'
  BY <1>0, <1>1, <1>14 DEF WriteLock, WriteFail, Labels
<1>15. ASSUME NEW p \in Procs, CloseCall(p) \/ CloseLock(p) \/ CloseFlushEnd(p) PROVE ReleaseInv'
  BY <1>0, <1>1, <1>15 DEF CloseCall, CloseLock, CloseFlushEnd, Labels
<1>16. CASE EventOut \/ EventIn \/ EventReadFail \/ FlushLock \/ FlushAgain \/ FlushFail
  BY <1>0, <1>1, <1>16
     DEF EventOut, EventIn, EventReadFail, FlushLock, FlushAgain, FlushFail, Labels
<1> QED BY <1>0, <1>2, <1>3, <1>4, <1>5, <1>6, <1>7, <1>8, <1>9, <1>10, <1>11, <1>12, <1>13,
           <1>14, <1>15, <1>16
        DEF Next, WriteSend, CloseStep, LoopEvent, Flush, Procs

-----------------------------------------------------------------------------
(* EPOLLOUT *)

LEMMA ArmedPreserved ==
  ASSUME TypeOK, LockInv, ReleaseInv, ArmedWhenPending, [Next]_vars
  PROVE  ArmedWhenPending'
<1> USE DEF ArmedWhenPending, Step, Goto, Unlock
<1>0. Loop \in Procs /\ Writers \subseteq Procs /\ pc \in [Procs -> Labels]
  BY DEF Procs, TypeOK
<1>1. ASSUME NEW p \in Procs, NEW a \in Labels \ {"w_rearm"}, NEW b \in Labels,
             Move(p, a, b) \/ Acquire(p, a, b) \/ Leave(p, a, b)
      PROVE  ArmedWhenPending'
  BY <1>0, <1>1 DEF Move, Acquire, Leave, conn
<1>2. ASSUME NEW p \in Writers, WriteCall(p) PROVE ArmedWhenPending'
  BY <1>0, <1>2 DEF WriteCall, EnterWrite, conn
<1>3. ASSUME NEW p \in Writers, WriteQueue(p) PROVE ArmedWhenPending'
  BY <1>0, <1>3 DEF WriteQueue
<1>4. ASSUME NEW p \in Writers, WriteAgain(p) PROVE ArmedWhenPending'
  BY <1>0, <1>4 DEF WriteAgain
<1>5. ASSUME NEW p \in Writers, WriteSome(p) PROVE ArmedWhenPending'
  <2>1. PICK k \in 1..Len(arg[p]) :
          /\ Transmit(arg[p], k)
          /\ IF k < Len(arg[p]) THEN Step(p, "w_send", "w_rearm") /\ UNCHANGED mtx
                                ELSE Step(p, "w_send", "idle") /\ Unlock
    BY <1>5 DEF WriteSome
  <2>2. arg[p] \in Seq(Byte) /\ Len(arg[p]) \in Nat
    BY <1>0, LenProperties DEF TypeOK
  <2>3. outBuf' = << >> <=> k = Len(arg[p])
    BY <2>1, <2>2, TransmitType
  <2> QED BY <1>0, <2>1, <2>2, <2>3
<1>6. ASSUME NEW p \in Procs, CloseFlush(p) PROVE ArmedWhenPending'
  <2>1. outBuf # << >>
    BY <1>6, EmptySeq DEF CloseFlush
  <2> QED BY <1>0, <1>6, <2>1 DEF CloseFlush
<1>7. CASE FlushSome
  <2>1. outBuf # << >>
    BY <1>7, EmptySeq DEF FlushSome
  <2> QED BY <1>0, <1>7, <2>1 DEF FlushSome
<1>8. ASSUME NEW p \in Writers, WriteRearm(p) PROVE ArmedWhenPending'
  BY <1>0, <1>8 DEF WriteRearm, Modified
<1>9. CASE FlushRearm
  BY <1>0, <1>9 DEF FlushRearm, LockInv
<1>10. ASSUME NEW p \in Procs, CloseDelete(p) \/ CloseFd(p) \/ Release(p) PROVE ArmedWhenPending'
  BY <1>0, <1>10 DEF CloseDelete, CloseFd, Release
<1>11. CASE EventRead \/ Teardown
  BY <1>0, <1>1, <1>11 DEF EventRead, Teardown, EnterWrite, Labels, conn
<1>12. CASE UNCHANGED vars \/ PeerRecv \/ \E f \in Faults : PeerFault(f)
  BY <1>0, <1>12 DEF PeerRecv, PeerFault, conn, vars
<1>13. ASSUME NEW p \in Writers, WriteLock(p) \/ WriteFail(p) PROVE ArmedWhenPending'
  BY <1>0, <1>1, <1>13 DEF WriteLock, WriteFail, Labels
<1>14. ASSUME NEW p \in Procs, CloseCall(p) \/ CloseLock(p) \/ CloseFlushEnd(p)
       PROVE  ArmedWhenPending'
  BY <1>0, <1>1, <1>14 DEF CloseCall, CloseLock, CloseFlushEnd, Labels
<1>15. CASE EventOut \/ EventIn \/ EventReadFail \/ FlushLock \/ FlushAgain \/ FlushFail
  BY <1>0, <1>1, <1>15
     DEF EventOut, EventIn, EventReadFail, FlushLock, FlushAgain, FlushFail, Labels
<1> QED BY <1>0, <1>2, <1>3, <1>4, <1>5, <1>6, <1>7, <1>8, <1>9, <1>10, <1>11, <1>12, <1>13,
           <1>14, <1>15
        DEF Next, WriteSend, CloseStep, LoopEvent, Flush, Procs

(* Nobody leaves a Close, but the event goroutine at its end.               *)
LEMMA ClosingStays ==
  ASSUME TypeOK, Next, NEW p \in Procs, Closing(p)
  PROVE  Closing(p)' \/ (p = Loop /\ pc[Loop] = "c_rel" /\ Release(Loop))
<1> USE DEF Closing, Step, Goto
<1>0. Loop \in Procs /\ Writers \subseteq Procs /\ Closers \subseteq Procs /\ pc \in [Procs -> Labels]
  BY DEF Procs, TypeOK
<1>1. ASSUME NEW q \in Writers, WriteCall(q) \/ WriteLock(q) \/ WriteSend(q) \/ WriteRearm(q)
      PROVE  Closing(p)'
  BY <1>0, <1>1 DEF WriteCall, EnterWrite, WriteLock, WriteSend, WriteQueue, WriteAgain,
                    WriteSome, WriteFail, WriteRearm, Move, Acquire
<1>2. ASSUME NEW q \in Procs, CloseCall(q) \/ CloseLock(q) \/ CloseStep(q) PROVE Closing(p)'
  BY <1>0, <1>2 DEF CloseCall, CloseLock, CloseStep, CloseFlush, CloseFlushEnd, CloseDelete,
                    CloseFd, Move, Acquire, Leave
<1>3. ASSUME NEW q \in Procs, Release(q)
      PROVE  Closing(p)' \/ (p = Loop /\ pc[Loop] = "c_rel" /\ Release(Loop))
  BY <1>0, <1>3 DEF Release
<1>4. CASE LoopEvent \/ FlushLock \/ Flush
  BY <1>0, <1>4 DEF LoopEvent, EventOut, EventIn, EventRead, EventReadFail, Teardown, EnterWrite,
                    FlushLock, Flush, FlushSome, FlushAgain, FlushFail, FlushRearm,
                    Move, Acquire, Leave
<1>5. CASE PeerRecv \/ \E f \in Faults : PeerFault(f)
  BY <1>0, <1>5 DEF PeerRecv, PeerFault
<1> QED BY <1>0, <1>1, <1>2, <1>3, <1>4, <1>5 DEF Next

LEMMA OutEventPreserved ==
  ASSUME TypeOK, LockInv, ReleaseInv, OutEventInv, Next
  PROVE  OutEventInv'
<1> DEFINE C == \E p \in Procs : Closing(p)
<1>0. Loop \in Procs /\ Writers \subseteq Procs /\ pc \in [Procs -> Labels]
  BY DEF Procs, TypeOK
<1>1. CASE \E p \in Procs : Release(p)
  <2>1. PICK p \in Procs : Release(p)
    BY <1>1
  <2>2. ~fdOpen /\ interest = "none" /\ interest' = "none"
    BY <2>1 DEF Release, Step, ReleaseInv
  <2>3. CASE p = Loop
    BY <1>0, <2>1, <2>2, <2>3 DEF Release, Step, Goto, OutEventInv
  <2>4. CASE p # Loop
    <3>1. Closing(p)'
      BY <1>0, <2>1, <2>4 DEF Release, Step, Goto, Closing
    <3> QED BY <2>2, <3>1 DEF OutEventInv
  <2> QED BY <2>3, <2>4
<1>2. CASE C /\ ~\E p \in Procs : Release(p)
  <2>1. C'
    BY <1>0, <1>2, ClosingStays
  <2> QED BY <2>1 DEF OutEventInv
<1>3. CASE ~C /\ ~\E p \in Procs : Release(p)
  <2> USE DEF OutEventInv, Step, Goto, Unlock
  <2>1. ASSUME NEW p \in Writers, WriteCall(p) \/ WriteLock(p) \/ WriteFail(p) PROVE OutEventInv'
    BY <1>0, <1>3, <2>1
       DEF WriteCall, EnterWrite, WriteLock, WriteFail, Move, Acquire, Closing, conn, net
  <2>2. ASSUME NEW p \in Writers, WriteQueue(p) PROVE OutEventInv'
    <3>1. outBuf' # << >>
      BY <1>0, <2>2, ConcatProperties, EmptySeq DEF WriteQueue, TypeOK
    <3> QED BY <1>0, <1>3, <2>2, <3>1 DEF WriteQueue, net
  <2>3. ASSUME NEW p \in Writers, WriteAgain(p) PROVE OutEventInv'
    BY <1>0, <1>3, <2>3 DEF WriteAgain, net
  <2>4. ASSUME NEW p \in Writers, WriteSome(p) PROVE OutEventInv'
    <3>1. outBuf = << >> /\ mtx = p /\ pc[p] = "w_send"
      BY <1>0, <2>4 DEF WriteSome, LockInv
    <3>2. pc[Loop] \notin {"f_rearm", "f_send"}
      BY <1>0, <3>1 DEF LockInv
    <3>3. interest # "readwrite"
      BY <1>3, <3>1, <3>2
    <3> QED BY <1>0, <1>3, <2>4, <3>1, <3>2, <3>3 DEF WriteSome
  <2>5. ASSUME NEW p \in Writers, WriteRearm(p) PROVE OutEventInv'
    BY <1>0, <1>3, <2>5 DEF WriteRearm, LockInv, net
  <2>6. ASSUME NEW p \in Procs, CloseCall(p) \/ CloseLock(p) \/ CloseStep(p) PROVE OutEventInv'
    <3>1. Closing(p)'
      BY <1>0, <2>6 DEF CloseCall, CloseLock, CloseStep, CloseFlush, CloseFlushEnd, CloseDelete,
                        CloseFd, Move, Acquire, Leave, Closing
    <3> QED BY <3>1
  <2>7. CASE EventOut
    BY <1>0, <1>3, <2>7 DEF EventOut, OutReady, Move, ReleaseInv, conn, net
  <2>8. CASE EventIn
    BY <1>0, <1>3, <2>8 DEF EventIn, Move, ReleaseInv, conn, net
  <2>9. CASE EventRead \/ EventReadFail \/ FlushLock \/ FlushAgain \/ FlushFail
    BY <1>0, <1>3, <2>9 DEF EventRead, EnterWrite, EventReadFail, FlushLock, FlushAgain, FlushFail,
                            Move, Acquire, Leave, conn, net
  <2>10. CASE FlushSome
    <3>1. PICK k \in 1..Len(outBuf) :
            /\ Transmit(outBuf, k)
            /\ IF k = Len(outBuf) THEN Step(Loop, "f_send", "f_rearm") /\ UNCHANGED mtx
                                  ELSE Step(Loop, "f_send", "idle") /\ Unlock
      BY <2>10 DEF FlushSome
    <3>2. outBuf' = << >> <=> k = Len(outBuf)
      BY <3>1, TransmitType DEF TypeOK
    <3> QED BY <1>0, <1>3, <2>10, <3>1, <3>2 DEF FlushSome
  <2>11. CASE FlushRearm
    BY <1>0, <1>3, <2>11 DEF FlushRearm, Modified, net
  <2>12. CASE Teardown
    BY <1>0, <1>3, <2>12 DEF Teardown, Closing, conn, net
  <2>13. CASE PeerRecv \/ \E f \in Faults : PeerFault(f)
    BY <1>0, <1>3, <2>13, FaultAssumption DEF PeerRecv, PeerFault, conn
  <2> QED BY <1>0, <1>3, <2>1, <2>2, <2>3, <2>4, <2>5, <2>6, <2>7, <2>8, <2>9, <2>10, <2>11,
             <2>12, <2>13
          DEF Next, WriteSend, LoopEvent, Flush, Procs
<1> QED BY <1>1, <1>2, <1>3

-----------------------------------------------------------------------------
(* The order of the bytes *)

LEMMA OrderPreserved ==
  ASSUME TypeOK, ReleaseInv, StreamOrder, [Next]_vars
  PROVE  StreamOrder'
<1>0. /\ peerGot \in Seq(Byte) /\ sndBuf \in Seq(Byte) /\ outBuf \in Seq(Byte)
      /\ lost \in Seq(Byte) /\ accepted \in Seq(Byte) /\ << >> \in Seq(Byte)
      /\ \A p \in Procs : arg[p] \in Seq(Byte)
      /\ Writers \subseteq Procs
  BY EmptySeq DEF TypeOK, Procs
<1>1. peerGot \o sndBuf \in Seq(Byte) /\ (peerGot \o sndBuf) \o outBuf \in Seq(Byte)
  BY <1>0, ConcatProperties
<1>2. ASSUME UNCHANGED <<peerGot, sndBuf, outBuf, lost, accepted>> PROVE StreamOrder'
  BY <1>2 DEF StreamOrder
<1>3. ASSUME NEW s \in Seq(Byte), NEW k \in 1..Len(s), Transmit(s, k), UNCHANGED peerGot
      PROVE  (peerGot' \o sndBuf') \o outBuf' = (peerGot \o sndBuf) \o s
  <2>1. sndBuf' \in Seq(Byte) /\ outBuf' \in Seq(Byte) /\ sndBuf' \o outBuf' = sndBuf \o s
    BY <1>3, TransmitType
  <2>4. peerGot \in Seq(Byte) /\ sndBuf \in Seq(Byte) /\ s \in Seq(Byte)
    BY <1>0
  <2>2. (peerGot \o sndBuf') \o outBuf' = peerGot \o (sndBuf' \o outBuf')
    <3> DEFINE a == sndBuf'
               b == outBuf'
               c == peerGot
               B == Byte
    <3>1. a \in Seq(B) /\ b \in Seq(B) /\ c \in Seq(B)
      BY <2>4, <2>1
    <3> HIDE DEF a, b, c, B
    <3>2. (c \o a) \o b = c \o (a \o b)
      BY ONLY <3>1, Regroup
    <3> QED BY <3>2 DEF a, b, c
  <2>3. peerGot \o (sndBuf \o s) = (peerGot \o sndBuf) \o s
    <3> DEFINE a == sndBuf
               c == peerGot
               B == Byte
    <3>1. a \in Seq(B) /\ s \in Seq(B) /\ c \in Seq(B)
      BY <2>4
    <3> HIDE DEF a, c, B
    <3>2. (c \o a) \o s = c \o (a \o s)
      BY ONLY <3>1, Regroup
    <3> QED BY <3>2 DEF a, c
  <2> QED BY <1>3, <2>1, <2>2, <2>3
<1>4. ASSUME NEW p \in Writers, WriteQueue(p) PROVE StreamOrder'
  <2>1. lost = << >> /\ lost' = << >> /\ outBuf' = outBuf \o arg[p] /\ accepted' = accepted \o arg[p]
        /\ peerGot' = peerGot /\ sndBuf' = sndBuf
    BY <1>4 DEF WriteQueue, Accepted, ReleaseInv, net
  <2>2. accepted = (peerGot \o sndBuf) \o outBuf
    BY <1>1, <2>1, ConcatEmptySeq DEF StreamOrder
  <2>3. arg[p] \in Seq(Byte)
    BY <1>0
  <2>4. ((peerGot \o sndBuf) \o outBuf) \o arg[p] = (peerGot \o sndBuf) \o (outBuf \o arg[p])
    <3> DEFINE q == peerGot \o sndBuf
               t == arg[p]
    <3>1. q \in Seq(Byte) /\ outBuf \in Seq(Byte) /\ t \in Seq(Byte)
      BY <1>0, <1>1, <2>3
    <3> HIDE DEF q, t
    <3>2. (q \o outBuf) \o t = q \o (outBuf \o t)
      BY <3>1, Regroup
    <3> QED BY <3>2 DEF q, t
  <2>5. (peerGot \o sndBuf) \o (outBuf \o arg[p]) \in Seq(Byte)
    BY <1>0, <1>1, <2>3, ConcatProperties
  <2>6. ((peerGot \o sndBuf) \o (outBuf \o arg[p])) \o << >> = (peerGot \o sndBuf) \o (outBuf \o arg[p])
    BY <2>5, ConcatEmptySeq
  <2> QED BY <2>1, <2>2, <2>4, <2>6 DEF StreamOrder
<1>5. ASSUME outBuf = << >>, fdOpen PROVE accepted = peerGot \o sndBuf /\ lost = << >>
  <2>1. lost = << >>
    BY <1>5 DEF ReleaseInv
  <2>2. accepted = ((peerGot \o sndBuf) \o << >>) \o << >>
    BY <1>5, <2>1 DEF StreamOrder
  <2> QED BY <1>1, <2>1, <2>2, ConcatEmptySeq
<1>6. ASSUME NEW p \in Writers, WriteAgain(p) PROVE StreamOrder'
  <2>1. accepted = peerGot \o sndBuf /\ lost' = << >> /\ outBuf' = arg[p]
        /\ accepted' = accepted \o arg[p] /\ peerGot' = peerGot /\ sndBuf' = sndBuf
    BY <1>5, <1>6 DEF WriteAgain, Accepted, Writable, net
  <2>2. (peerGot \o sndBuf) \o arg[p] \in Seq(Byte)
    BY <1>0, <1>1, ConcatProperties
  <2>3. ((peerGot \o sndBuf) \o arg[p]) \o << >> = (peerGot \o sndBuf) \o arg[p]
    BY <2>2, ConcatEmptySeq
  <2> QED BY <2>1, <2>3 DEF StreamOrder
<1>7. ASSUME NEW p \in Writers, WriteSome(p) PROVE StreamOrder'
  <2>1. PICK k \in 1..Len(arg[p]) : Transmit(arg[p], k)
    BY <1>7 DEF WriteSome
  <2>2. arg[p] \in Seq(Byte) /\ fdOpen /\ outBuf = << >>
    BY <1>0, <1>7, <2>1, TransmitType DEF WriteSome, Writable
  <2>3. accepted = peerGot \o sndBuf /\ lost' = << >> /\ accepted' = accepted \o arg[p]
        /\ UNCHANGED peerGot
    BY <1>5, <1>7, <2>2 DEF WriteSome, Accepted
  <2>4. (peerGot' \o sndBuf') \o outBuf' = (peerGot \o sndBuf) \o arg[p]
    BY <1>3, <2>1, <2>2, <2>3
  <2>5. (peerGot \o sndBuf) \o arg[p] \in Seq(Byte)
    BY <1>1, <2>2, ConcatProperties
  <2>6. ((peerGot \o sndBuf) \o arg[p]) \o << >> = (peerGot \o sndBuf) \o arg[p]
    BY <2>5, ConcatEmptySeq
  <2> QED BY <2>3, <2>4, <2>6 DEF StreamOrder
<1>8. ASSUME NEW k \in 1..Len(outBuf), Transmit(outBuf, k), UNCHANGED <<peerGot, accepted, lost>>
      PROVE  StreamOrder'
  BY <1>0, <1>3, <1>8 DEF StreamOrder
<1>9. ASSUME NEW p \in Procs, Release(p) PROVE StreamOrder'
  <2>1. outBuf' = << >> /\ lost' = outBuf \o lost /\ UNCHANGED <<peerGot, sndBuf, accepted>>
    BY <1>9 DEF Release, net
  <2>2. ((peerGot \o sndBuf) \o outBuf) \o lost = (peerGot \o sndBuf) \o (outBuf \o lost)
    <3> DEFINE q == peerGot \o sndBuf
    <3>1. q \in Seq(Byte) /\ outBuf \in Seq(Byte) /\ lost \in Seq(Byte)
      BY <1>0, <1>1
    <3> HIDE DEF q
    <3>2. (q \o outBuf) \o lost = q \o (outBuf \o lost)
      BY ONLY <3>1, Regroup
    <3> QED BY <3>2 DEF q
  <2>3. (peerGot \o sndBuf) \o << >> = peerGot \o sndBuf
    BY <1>1, ConcatEmptySeq
  <2> QED BY <2>1, <2>2, <2>3 DEF StreamOrder
<1>10. CASE PeerRecv
  <2>1. /\ peerGot' = Append(peerGot, Head(sndBuf)) /\ sndBuf' = Tail(sndBuf) /\ sndBuf # << >>
        /\ UNCHANGED <<outBuf, accepted, lost>>
    BY <1>10 DEF PeerRecv, conn, hist
  <2>2. peerGot' \o sndBuf' = peerGot \o sndBuf
    <3>1. peerGot \in Seq(Byte) /\ sndBuf \in Seq(Byte)
      BY <1>0
    <3>2. Append(peerGot, Head(sndBuf)) \o Tail(sndBuf) = peerGot \o sndBuf
      BY <3>1, <2>1, AppendHead
    <3> QED BY <3>2, <2>1
  <2> QED BY <2>1, <2>2 DEF StreamOrder
<1>11. ASSUME NEW p \in Writers,
              WriteCall(p) \/ WriteLock(p) \/ WriteFail(p) \/ WriteRearm(p)
       PROVE  StreamOrder'
  BY <1>2, <1>11 DEF WriteCall, WriteLock, WriteFail, WriteRearm, Move, Acquire, conn, net, hist
<1>12. ASSUME NEW p \in Procs, CloseFlush(p) \/ FlushSome PROVE StreamOrder'
  BY <1>8, <1>12 DEF CloseFlush, FlushSome, hist
<1>13. ASSUME NEW p \in Procs, CloseCall(p) \/ CloseLock(p) \/ CloseFlushEnd(p)
                               \/ CloseDelete(p) \/ CloseFd(p)
       PROVE  StreamOrder'
  BY <1>2, <1>13 DEF CloseCall, CloseLock, CloseFlushEnd, CloseDelete, CloseFd,
                     Move, Acquire, Leave, conn, net, hist
<1>14. CASE LoopEvent \/ FlushLock \/ FlushAgain \/ FlushFail \/ FlushRearm
  BY <1>2, <1>14 DEF LoopEvent, EventOut, EventIn, EventRead, EventReadFail, Teardown, FlushLock,
                     FlushAgain, FlushFail, FlushRearm, Move, Acquire, Leave, conn, net, hist
<1>15. CASE UNCHANGED vars \/ \E f \in Faults : PeerFault(f)
  BY <1>2, <1>15 DEF PeerFault, conn, hist, vars
<1> QED BY <1>4, <1>6, <1>7, <1>9, <1>10, <1>11, <1>12, <1>13, <1>14, <1>15
        DEF Next, WriteSend, CloseStep, Flush, Procs

-----------------------------------------------------------------------------
(* The theorems *)

LEMMA InitInv == Init => Inv
<1> SUFFICES ASSUME Init PROVE Inv
  OBVIOUS
<1>1. TypeOK
  BY InitType
<1>2. LockInv /\ ReleaseInv /\ OutEventInv /\ ArmedWhenPending
  BY DEF Init, LockInv, ReleaseInv, OutEventInv, ArmedWhenPending, Procs
<1>3. StreamOrder
  <2>1. << >> \in Seq(Byte)
    BY EmptySeq
  <2>2. << >> \o << >> = << >>
    BY <2>1, ConcatEmptySeq
  <2> QED BY <2>2 DEF Init, StreamOrder
<1> QED BY <1>1, <1>2, <1>3 DEF Inv

LEMMA NextInv == Inv /\ [Next]_vars => Inv'
<1> SUFFICES ASSUME Inv, [Next]_vars PROVE Inv'
  OBVIOUS
<1>1. TypeOK' /\ LockInv' /\ ReleaseInv' /\ ArmedWhenPending' /\ StreamOrder'
  BY NextType, LockPreserved, ReleasePreserved, ArmedPreserved, OrderPreserved DEF Inv
<1>2. OutEventInv'
  <2>1. CASE Next
    BY <2>1, OutEventPreserved DEF Inv
  <2>2. CASE UNCHANGED vars
    BY <2>2 DEF Inv, OutEventInv, Closing, vars
  <2> QED BY <2>1, <2>2
<1> QED BY <1>1, <1>2 DEF Inv

(* Inv is inductive: every reachable state satisfies it.                     *)
THEOREM Invariance == Spec => []Inv
<1>1. Init => Inv
  BY InitInv
<1>2. Inv /\ [Next]_vars => Inv'
  BY NextInv
<1> QED BY <1>1, <1>2, PTL DEF Spec

(* No byte a Write took over is lost, doubled or overtaken, whatever the     *)
(* interleaving of Write, WriteFlush and Close: the peer's bytes, the send   *)
(* buffer and the outbound buffer are the accepted bytes in order.           *)
THEOREM BytesInOrder == Spec => []StreamOrder
<1>1. Inv => StreamOrder
  BY DEF Inv
<1> QED BY <1>1, Invariance, PTL

(* Buffered bytes always have an event coming that will flush them.          *)
THEOREM AlwaysArmed == Spec => []ArmedWhenPending
<1>1. Inv => ArmedWhenPending
  BY DEF Inv
<1> QED BY <1>1, Invariance, PTL

(* The event goroutine closes a connection only when its peer is gone or     *)
(* somebody closes it: WriteFlush never meets an empty buffer by itself.     *)
THEOREM HealthyConnectionsStay == Spec => NoSpuriousTeardown
<1> DEFINE A == pc[Loop] # "e_close" /\ pc'[Loop] = "e_close" =>
                  peer # "open" \/ \E p \in Procs : Closing(p)
<1>1. Inv /\ [Next]_vars => [A]_vars
  <2> SUFFICES ASSUME Inv, Next, pc[Loop] # "e_close", pc'[Loop] = "e_close"
               PROVE  peer # "open" \/ \E p \in Procs : Closing(p)
    OBVIOUS
  <2> USE DEF Step, Goto
  <2>0. Loop \in Procs /\ Writers \subseteq Procs /\ Closers \subseteq Procs /\ pc \in [Procs -> Labels]
    BY DEF Procs, Inv, TypeOK
  <2>1. ASSUME NEW p \in Writers, WriteCall(p) \/ WriteLock(p) \/ WriteSend(p) \/ WriteRearm(p)
        PROVE  FALSE
    BY <2>0, <2>1 DEF WriteCall, EnterWrite, WriteLock, WriteSend, WriteQueue, WriteAgain,
                      WriteSome, WriteFail, WriteRearm, Move, Acquire
  <2>2. ASSUME NEW p \in Procs,
               CloseCall(p) \/ CloseLock(p) \/ CloseStep(p) \/ Release(p)
        PROVE  FALSE
    BY <2>0, <2>2 DEF CloseCall, CloseLock, CloseStep, CloseFlush, CloseFlushEnd, CloseDelete,
                      CloseFd, Release, Move, Acquire, Leave
  <2>3. CASE FlushFail
    BY <2>3 DEF FlushFail, Leave, Writable, Inv, OutEventInv
  <2>4. CASE EventReadFail
    BY <2>4 DEF EventReadFail, Move, Inv, OutEventInv
  <2>5. CASE EventOut \/ EventIn \/ EventRead \/ Teardown \/ FlushLock \/ FlushSome
             \/ FlushAgain \/ FlushRearm \/ PeerRecv \/ \E f \in Faults : PeerFault(f)
    BY <2>0, <2>5 DEF EventOut, EventIn, EventRead, EnterWrite, Teardown, FlushLock, FlushSome,
                      FlushAgain, FlushRearm, PeerRecv, PeerFault, Move, Acquire, Leave
  <2> QED BY <2>0, <2>1, <2>2, <2>3, <2>4, <2>5 DEF Next, LoopEvent, Flush
<1> QED BY <1>1, Invariance, PTL DEF Spec, NoSpuriousTeardown
-----------------------------------------------------------------------------
(* The write side implements a byte stream *)

(* A prefix of what follows itself.                                         *)
LEMMA PrefixOfConcat ==
  ASSUME NEW S, NEW a \in Seq(S), NEW m \in Seq(S)
  PROVE  Len(a \o m) >= Len(a) /\ SubSeq(a \o m, 1, Len(a)) = a
<1>1. Len(a) \in Nat /\ Len(m) \in Nat /\ \A i \in 1..Len(a) : a[i] \in S
  BY LenProperties, ElementOfSeq
<1> DEFINE c == a \o m
<1>2. /\ c \in Seq(S) /\ Len(c) = Len(a) + Len(m)
      /\ \A i \in 1..Len(a) : c[i] = a[i]
  BY <1>1, ConcatProperties
<1> HIDE DEF c
<1> DEFINE t == SubSeq(c, 1, Len(a))
<1>3. t \in Seq(S) /\ Len(t) = Len(a) /\ \A i \in 1..Len(a) : t[i] = c[i]
  <2>1. \A i \in 1..Len(a) : c[i] \in S
    BY <1>1, <1>2
  <2>2. \A i \in 1..Len(a) : c[1 + i - 1] = c[i]
    BY <1>1
  <2> QED BY <1>1, <1>2, <2>1, <2>2, SubSeqProperties
<1> HIDE DEF t
<1>4. t = a
  BY <1>2, <1>3, SeqEqual
<1> QED BY <1>1, <1>2, <1>4 DEF c, t

(* The byte after a prefix is the head of what follows it.                  *)
LEMMA NextByte ==
  ASSUME NEW S, NEW a \in Seq(S), NEW b \in Seq(S), NEW c \in Seq(S), b # << >>
  PROVE  Len(a) < Len(a \o (b \o c)) /\ (a \o (b \o c))[Len(a) + 1] = Head(b)
<1>1. Len(a) \in Nat /\ Len(b) \in Nat /\ Len(c) \in Nat /\ Len(b) # 0
  BY LenProperties, EmptySeq
<1> DEFINE d == b \o c
<1>2. d \in Seq(S) /\ Len(d) = Len(b) + Len(c) /\ d[1] = b[1]
  BY <1>1, ConcatProperties
<1> HIDE DEF d
<1>3. Len(a \o d) = Len(a) + Len(d) /\ (a \o d)[Len(a) + 1] = d[1]
  <2>1. Len(a) + 1 \in 1..Len(a) + Len(d)
    BY <1>1, <1>2
  <2>2. /\ Len(a \o d) = Len(a) + Len(d)
        /\ \A i \in 1..Len(a) + Len(d) :
             (a \o d)[i] = IF i <= Len(a) THEN a[i] ELSE d[i - Len(a)]
    <3>1. d \in Seq(S)
      BY <1>2
    <3> QED BY <3>1, ConcatProperties
  <2> QED BY <1>1, <2>1, <2>2
<1>4. Head(b) = b[1]
  BY HeadTailProperties
<1> QED BY <1>1, <1>2, <1>3, <1>4 DEF d

LEMMA StepImplements ==
  ASSUME Inv, [Next]_vars
  PROVE  [Stream!Accept \/ Stream!Deliver]_(Stream!bsvars)
<1>0. /\ peerGot \in Seq(Byte) /\ sndBuf \in Seq(Byte) /\ outBuf \in Seq(Byte)
      /\ lost \in Seq(Byte) /\ accepted \in Seq(Byte)
      /\ \A p \in Writers : arg[p] \in Seq(Byte)
  BY DEF Inv, TypeOK, Procs
<1>1. ASSUME NEW p \in Writers, Accepted(p), UNCHANGED peerGot PROVE Stream!Accept
  <2>1. arg[p] \in Seq(Byte) /\ accepted \in Seq(Byte)
    BY <1>0
  <2>2. Len(accepted \o arg[p]) >= Len(accepted)
        /\ SubSeq(accepted \o arg[p], 1, Len(accepted)) = accepted
    BY <2>1, PrefixOfConcat
  <2> QED BY <1>1, <2>2 DEF Accepted, Stream!Accept
<1>2. ASSUME NEW p \in Writers, WriteQueue(p) \/ WriteAgain(p) \/ WriteSome(p)
      PROVE  Stream!Accept
  BY <1>1, <1>2 DEF WriteQueue, WriteAgain, WriteSome, net
<1>3. CASE PeerRecv
  <2>1. sndBuf # << >> /\ peerGot' = Append(peerGot, Head(sndBuf)) /\ accepted' = accepted
    BY <1>3 DEF PeerRecv, hist
  <2>2. accepted = peerGot \o (sndBuf \o (outBuf \o lost))
    <3> DEFINE q == peerGot \o sndBuf
               r == outBuf \o lost
    <3>1. q \in Seq(Byte) /\ r \in Seq(Byte)
      BY <1>0, ConcatProperties
    <3>2. q \o r = peerGot \o (sndBuf \o r)
      <4>1. peerGot \in Seq(Byte) /\ sndBuf \in Seq(Byte)
        BY <1>0
      <4> HIDE DEF r
      <4>2. (peerGot \o sndBuf) \o r = peerGot \o (sndBuf \o r)
        BY ONLY <3>1, <4>1, Regroup
      <4> QED BY <4>2
    <3>3. (q \o outBuf) \o lost = q \o r
      <4>1. outBuf \in Seq(Byte) /\ lost \in Seq(Byte)
        BY <1>0
      <4> HIDE DEF q
      <4>2. (q \o outBuf) \o lost = q \o (outBuf \o lost)
        BY ONLY <3>1, <4>1, Regroup
      <4> QED BY <4>2
    <3> QED BY <3>2, <3>3 DEF Inv, StreamOrder
  <2>3. Len(peerGot) < Len(accepted) /\ accepted[Len(peerGot) + 1] = Head(sndBuf)
    <3>1. outBuf \o lost \in Seq(Byte)
      BY <1>0, ConcatProperties
    <3> QED BY <1>0, <2>1, <2>2, <3>1, NextByte
  <2> QED BY <2>1, <2>3 DEF Stream!Deliver
<1>4. ASSUME UNCHANGED <<accepted, peerGot>> PROVE UNCHANGED Stream!bsvars
  BY <1>4 DEF Stream!bsvars
<1>5. ASSUME NEW p \in Procs,
             \/ CloseCall(p) \/ CloseLock(p) \/ CloseStep(p) \/ Release(p)
             \/ WriteCall(p) \/ WriteLock(p) \/ WriteFail(p) \/ WriteRearm(p)
      PROVE  UNCHANGED Stream!bsvars
  BY <1>4, <1>5 DEF CloseCall, CloseLock, CloseStep, CloseFlush, CloseFlushEnd, CloseDelete,
                    CloseFd, Release, WriteCall, WriteLock, WriteFail, WriteRearm,
                    Move, Acquire, Leave, net, hist
<1>6. CASE LoopEvent \/ FlushLock \/ Flush \/ UNCHANGED vars \/ \E f \in Faults : PeerFault(f)
  BY <1>4, <1>6 DEF LoopEvent, EventOut, EventIn, EventRead, EventReadFail, Teardown, FlushLock,
                    Flush, FlushSome, FlushAgain, FlushFail, FlushRearm, PeerFault,
                    Move, Acquire, Leave, net, hist, vars
<1> QED BY <1>2, <1>3, <1>5, <1>6 DEF Next, WriteSend, Procs

(* Write, WriteFlush and Close together implement ByteStream: a step extends *)
(* the stream at its end, or hands the peer its next byte, or is invisible.  *)
THEOREM Refinement == Spec => ImplementsStream
<1>1. Init => Stream!StreamInit
  BY DEF Init, Stream!StreamInit
<1>2. Inv /\ [Next]_vars => [Stream!Accept \/ Stream!Deliver]_(Stream!bsvars)
  BY StepImplements
<1> QED BY <1>1, <1>2, Invariance, PTL DEF Spec, ImplementsStream, Stream!StreamSpec
=============================================================================

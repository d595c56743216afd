------------------------------ MODULE Outbound ------------------------------
(***************************************************************************)
(* The write side of one connection (connection_unix.go) as its users see  *)
(* it: application goroutines that call Write and Close, the event         *)
(* goroutine that flushes on EPOLLOUT, reads on EPOLLIN and tears the      *)
(* connection down, the socket's send buffer, the epoll registration and   *)
(* the peer.                                                               *)
(*                                                                         *)
(* A step is one system call, one lock operation, or the work done between *)
(* two of them on data that writeMtx protects.  writeMtx is a sync.Mutex:  *)
(* not reentrant, so a Write that calls Close on its error path, with the  *)
(* lock still held, is a process at "c_lock" that waits for itself.        *)
(***************************************************************************)
EXTENDS Naturals, Sequences, FiniteSets

CONSTANTS
  Writers,    \* goroutines that call Write; Loop is one of them when OnTraffic does
  Closers,    \* goroutines that call Close, once each
  Loop,       \* the event goroutine of this connection (one per poll round)
  NoOne,      \* writeMtx is free
  SndCap,     \* bytes the socket's send buffer holds
  Lens,       \* lengths of the payloads passed to Write
  MaxBytes,   \* bound on the bytes one writer produces
  Faults      \* what the peer may do: a subset of {"fin", "reset"}

Procs == Writers \cup Closers \cup {Loop}

ASSUME ProcAssumption == NoOne \notin Procs /\ Loop \notin Closers
ASSUME WriterAssumption == Writers \cap Closers = {}
ASSUME BoundAssumption == SndCap \in Nat \ {0} /\ Lens \subseteq Nat /\ MaxBytes \in Nat
ASSUME FaultAssumption == Faults \subseteq {"fin", "reset"}

VARIABLES
  pc,         \* where each goroutine is
  arg,        \* the payload of the Write call a goroutine is in
  made,       \* bytes each writer has produced so far
  mtx,        \* c.writeMtx: who holds it
  outBuf,     \* c.outboundBuffer
  released,   \* c.sysfd = -1
  fdOpen,     \* the descriptor is open in the kernel
  interest,   \* epoll registration of the descriptor
  sndBuf,     \* the socket's send buffer
  peer,       \* the state of the remote end
  peerGot,    \* bytes the peer has received
  accepted,   \* history: bytes of the Write calls that were taken over
  lost,       \* history: accepted bytes that release threw away
  onClosed    \* history: OnClose has fired

conn == <<outBuf, released, fdOpen, interest>>
net  == <<sndBuf, peer, peerGot>>
hist == <<accepted, lost, onClosed>>
vars == <<pc, arg, made, mtx, outBuf, released, fdOpen, interest,
          sndBuf, peer, peerGot, accepted, lost, onClosed>>

Byte == Writers \X Nat
Labels == {"idle", "done", "w_lock", "w_send", "w_rearm",
           "c_lock", "c_flush", "c_del", "c_fd", "c_rel",
           "f_lock", "f_send", "f_rearm", "r_read", "e_close"}

Take(s, k) == SubSeq(s, 1, k)
Drop(s, k) == SubSeq(s, k + 1, Len(s))
Min2(a, b) == IF a < b THEN a ELSE b

\* The n bytes writer p passes to its next Write.
Payload(p, n) == [i \in 1..n |-> <<p, made[p] + i>>]

-----------------------------------------------------------------------------
(* The kernel, as the code uses it. *)

Room == SndCap - Len(sndBuf)

\* write(2) and writev(2) can succeed; otherwise EBADF, EPIPE or ECONNRESET.
Writable == fdOpen /\ peer # "reset"

\* What one write of the bytes s may send: a part or all of it.
Sendable(s) == IF Writable THEN 1..Min2(Len(s), Room) ELSE {}

\* epoll_ctl MOD: fails, changing nothing, on a descriptor that is not registered.
Modified(to) == IF interest = "none" THEN "none" ELSE to

\* EPOLLOUT when armed and there is room; EPOLLERR and EPOLLHUP always reported.
OutReady == /\ interest # "none"
            /\ \/ interest = "readwrite" /\ Room > 0
               \/ peer = "reset"

\* The send buffer takes the first k bytes of s; the rest is (left) in outBuf.
Transmit(s, k) == /\ k \in Sendable(s)
                  /\ sndBuf' = sndBuf \o Take(s, k)
                  /\ outBuf' = Drop(s, k)

\* Goroutine p goes on from label a to label b; takes writeMtx on the way; runs
\* the deferred Unlock on the way.
Goto(p, l) == pc' = [pc EXCEPT ![p] = l]
Unlock     == mtx' = NoOne
Step(p, a, b)    == pc[p] = a /\ Goto(p, b)
Move(p, a, b)    == Step(p, a, b) /\ UNCHANGED <<arg, made, mtx, conn, net, hist>>
Acquire(p, a, b) == Step(p, a, b) /\ mtx = NoOne /\ mtx' = p
                    /\ UNCHANGED <<arg, made, conn, net, hist>>
Leave(p, a, b)   == Step(p, a, b) /\ Unlock /\ UNCHANGED <<arg, made, conn, net, hist>>

-----------------------------------------------------------------------------
TypeOK ==
  /\ pc \in [Procs -> Labels]
  /\ arg \in [Procs -> Seq(Byte)]
  /\ made \in [Procs -> Nat]
  /\ mtx \in Procs \cup {NoOne}
  /\ outBuf \in Seq(Byte) /\ sndBuf \in Seq(Byte)
  /\ peerGot \in Seq(Byte) /\ accepted \in Seq(Byte) /\ lost \in Seq(Byte)
  /\ released \in BOOLEAN /\ fdOpen \in BOOLEAN /\ onClosed \in BOOLEAN
  /\ interest \in {"none", "read", "readwrite"}
  /\ peer \in {"open", "fin", "reset"}
  /\ Len(sndBuf) <= SndCap

\* An accepted connection after AddRead, OnOpen and addConn.
Init ==
  /\ pc = [p \in Procs |-> "idle"]
  /\ arg = [p \in Procs |-> << >>]
  /\ made = [p \in Procs |-> 0]
  /\ mtx = NoOne
  /\ outBuf = << >> /\ sndBuf = << >> /\ peerGot = << >>
  /\ accepted = << >> /\ lost = << >>
  /\ released = FALSE /\ fdOpen = TRUE /\ onClosed = FALSE
  /\ interest = "read"
  /\ peer = "open"

-----------------------------------------------------------------------------
(* conn.Write *)

EnterWrite(p) ==
  \E n \in Lens :
    /\ made[p] + n <= MaxBytes
    /\ arg' = [arg EXCEPT ![p] = Payload(p, n)]
    /\ made' = [made EXCEPT ![p] = @ + n]
    /\ Goto(p, "w_lock")

\* An application goroutine calls Write; the event goroutine does in EventRead.
WriteCall(p) ==
  /\ p \in Writers \ {Loop} /\ pc[p] = "idle"
  /\ EnterWrite(p)
  /\ UNCHANGED <<mtx, conn, net, hist>>

WriteLock(p) == Acquire(p, "w_lock", "w_send")

\* The call takes the payload over.
Accepted(p) == /\ accepted' = accepted \o arg[p]
               /\ arg' = [arg EXCEPT ![p] = << >>]
               /\ UNCHANGED <<lost, onClosed>>

\* Data is pending: queue behind it.
WriteQueue(p) ==
  /\ Step(p, "w_send", "idle") /\ Unlock
  /\ outBuf # << >> /\ outBuf' = outBuf \o arg[p]
  /\ Accepted(p)
  /\ UNCHANGED <<made, released, fdOpen, interest, net>>

\* Mutant: EAGAIN is taken for an error.
WriteAgainIsError(p) ==
  /\ outBuf = << >> /\ Writable /\ arg[p] # << >> /\ Room = 0
  /\ Move(p, "w_send", "c_lock")

\* EAGAIN: nothing was sent, all of it is buffered.
WriteAgain(p) ==
  /\ Step(p, "w_send", "w_rearm")
  /\ outBuf = << >> /\ Writable /\ arg[p] # << >> /\ Room = 0
  /\ outBuf' = arg[p]
  /\ Accepted(p)
  /\ UNCHANGED <<made, mtx, released, fdOpen, interest, net>>

\* Mutant: sends without looking at what is already buffered.
WriteSomeOvertakes(p) ==
  /\ Step(p, "w_send", "idle") /\ Unlock
  /\ Len(arg[p]) \in Sendable(arg[p])
  /\ sndBuf' = sndBuf \o arg[p] /\ UNCHANGED outBuf
  /\ Accepted(p)
  /\ UNCHANGED <<made, released, fdOpen, interest, peer, peerGot>>

\* k bytes were sent; what is left, if anything, is buffered.
WriteSome(p) ==
  /\ outBuf = << >>
  /\ \E k \in 1..Len(arg[p]) :
       /\ Transmit(arg[p], k)
       /\ IF k < Len(arg[p]) THEN Step(p, "w_send", "w_rearm") /\ UNCHANGED mtx
                             ELSE Step(p, "w_send", "idle") /\ Unlock
  /\ Accepted(p)
  /\ UNCHANGED <<made, released, fdOpen, interest, peer, peerGot>>

\* An error, or a write of 0 bytes: Close is called, and writeMtx is still held.
WriteFail(p) ==
  /\ outBuf = << >> /\ (~Writable \/ arg[p] = << >>)
  /\ Move(p, "w_send", "c_lock")

\* Mutants: EPOLLOUT is not armed; EPOLLIN is lost when it is.
WriteRearmForgotten(p) == Leave(p, "w_rearm", "idle")
WriteRearmOutOnly(p) ==
  /\ Step(p, "w_rearm", "idle") /\ Unlock
  /\ interest' = Modified("write")
  /\ UNCHANGED <<arg, made, outBuf, released, fdOpen, net, hist>>

\* netpoll.ModReadWrite, then the deferred Unlock.
WriteRearm(p) ==
  /\ Step(p, "w_rearm", "idle") /\ Unlock
  /\ interest' = Modified("readwrite")
  /\ UNCHANGED <<arg, made, outBuf, released, fdOpen, net, hist>>

WriteSend(p) == WriteQueue(p) \/ WriteAgain(p) \/ WriteSome(p) \/ WriteFail(p)

-----------------------------------------------------------------------------
(* conn.Close and conn.release *)

CloseCall(p) == p \in Closers /\ Move(p, "idle", "c_lock")

CloseLock(p) == Acquire(p, "c_lock", "c_flush")

\* One turn of the loop that sends the residual data.
CloseFlush(p) ==
  /\ Step(p, "c_flush", "c_flush")
  /\ \E k \in 1..Len(outBuf) : Transmit(outBuf, k)
  /\ UNCHANGED <<arg, made, mtx, released, fdOpen, interest, peer, peerGot, hist>>

\* Everything is sent, or writev failed, with EAGAIN too: the loop is left.
CloseFlushEnd(p) == Sendable(outBuf) = {} /\ Leave(p, "c_flush", "c_del")

CloseDelete(p) ==
  /\ Step(p, "c_del", "c_fd")
  /\ interest' = "none"
  /\ UNCHANGED <<arg, made, mtx, outBuf, released, fdOpen, net, hist>>

CloseFd(p) ==
  /\ Step(p, "c_fd", "c_rel")
  /\ fdOpen' = FALSE /\ interest' = "none"
  /\ UNCHANGED <<arg, made, mtx, outBuf, released, net, hist>>

\* conn.release: what is still buffered is dropped.
Release(p) ==
  /\ Step(p, "c_rel", IF p = Loop THEN "idle" ELSE "done") /\ mtx = NoOne
  /\ outBuf' = << >> /\ lost' = outBuf \o lost
  /\ released' = TRUE
  /\ UNCHANGED <<arg, made, mtx, fdOpen, interest, net, accepted, onClosed>>

CloseStep(p) == CloseFlush(p) \/ CloseFlushEnd(p) \/ CloseDelete(p) \/ CloseFd(p)

-----------------------------------------------------------------------------
(* Server.Callback: the event goroutine *)

\* The OUT branch comes first: eventWrite calls WriteFlush.
EventOut == OutReady /\ Move(Loop, "idle", "f_lock")

\* EPOLLIN: data from the peer, or its FIN.
EventIn == interest # "none" /\ ~OutReady /\ Move(Loop, "idle", "r_read")

FlushLock == Acquire(Loop, "f_lock", "f_send")

\* Mutant: what a partial write sent is not discarded.
FlushSomeTwice ==
  /\ Step(Loop, "f_send", "idle") /\ Unlock
  /\ \E k \in 1..Len(outBuf) : k \in Sendable(outBuf) /\ sndBuf' = sndBuf \o Take(outBuf, k)
  /\ UNCHANGED <<arg, made, conn, peer, peerGot, hist>>

\* k bytes leave the outbound buffer; EPOLLOUT is disarmed once it is empty.
FlushSome ==
  /\ \E k \in 1..Len(outBuf) :
       /\ Transmit(outBuf, k)
       /\ IF k = Len(outBuf) THEN Step(Loop, "f_send", "f_rearm") /\ UNCHANGED mtx
                             ELSE Step(Loop, "f_send", "idle") /\ Unlock
  /\ UNCHANGED <<arg, made, released, fdOpen, interest, peer, peerGot, hist>>

FlushAgain == /\ outBuf # << >> /\ Writable /\ Room = 0
              /\ Leave(Loop, "f_send", "idle")

\* An error, or nothing to flush (a write of an empty slice returns 0).
FlushFail == (~Writable \/ outBuf = << >>) /\ Leave(Loop, "f_send", "e_close")

\* Mutant: EPOLLOUT stays armed.
FlushRearmForgotten == Leave(Loop, "f_rearm", "idle")

FlushRearm ==
  /\ Step(Loop, "f_rearm", "idle") /\ Unlock
  /\ interest' = Modified("read")
  /\ UNCHANGED <<arg, made, outBuf, released, fdOpen, net, hist>>

\* conn.eventRead got data up to EAGAIN; the handler may answer with a Write.
EventRead ==
  /\ fdOpen /\ peer = "open"
  /\ \/ Move(Loop, "r_read", "idle")
     \/ /\ Loop \in Writers /\ pc[Loop] = "r_read" /\ EnterWrite(Loop)
        /\ UNCHANGED <<mtx, conn, net, hist>>

\* Mutant: a read of 0 bytes is taken for "nothing more to read".
EventReadNoEof == Move(Loop, "r_read", "idle")

\* conn.eventRead met end of file, or an error.
EventReadFail == (~fdOpen \/ peer # "open") /\ Move(Loop, "r_read", "e_close")

\* OnClose(c) and delConn, then Close.
Teardown ==
  /\ Step(Loop, "e_close", "c_lock")
  /\ onClosed' = TRUE
  /\ UNCHANGED <<arg, made, mtx, conn, net, accepted, lost>>

LoopEvent == EventOut \/ EventIn \/ EventRead \/ EventReadFail \/ Teardown
Flush == FlushSome \/ FlushAgain \/ FlushFail \/ FlushRearm

-----------------------------------------------------------------------------
(* The peer *)

PeerRecv ==
  /\ sndBuf # << >> /\ peer # "reset"
  /\ peerGot' = Append(peerGot, Head(sndBuf)) /\ sndBuf' = Tail(sndBuf)
  /\ UNCHANGED <<pc, arg, made, mtx, conn, peer, hist>>

PeerFault(f) ==
  /\ peer # "reset" /\ (f = "fin" => peer = "open")
  /\ peer' = f
  /\ UNCHANGED <<pc, arg, made, mtx, conn, sndBuf, peerGot, hist>>

-----------------------------------------------------------------------------
Next ==
  \/ \E p \in Writers : WriteCall(p) \/ WriteLock(p) \/ WriteSend(p) \/ WriteRearm(p)
  \/ \E p \in Closers : CloseCall(p)
  \/ \E p \in Procs : CloseLock(p) \/ CloseStep(p) \/ Release(p)
  \/ LoopEvent \/ FlushLock \/ Flush
  \/ PeerRecv \/ \E f \in Faults : PeerFault(f)

Spec == Init /\ [][Next]_vars

\* Goroutines that can run are scheduled; a sync.Mutex does not starve a waiter
\* (it hands over after 1 ms); a level-triggered epoll reports a ready
\* descriptor again; a peer that is up keeps reading.  Nobody has to call.
Fairness ==
  /\ \A p \in Writers : WF_vars(WriteSend(p) \/ WriteRearm(p)) /\ SF_vars(WriteLock(p))
  /\ \A p \in Procs : WF_vars(CloseStep(p)) /\ SF_vars(CloseLock(p)) /\ SF_vars(Release(p))
  /\ WF_vars(LoopEvent) /\ WF_vars(Flush) /\ SF_vars(FlushLock)
  /\ WF_vars(PeerRecv)

FairSpec == Spec /\ Fairness

-----------------------------------------------------------------------------
(* Properties *)

\* The stream of accepted bytes lies, in order and without a gap, in the peer's
\* hands, the socket's send buffer and the outbound buffer; a byte is missing
\* only at the end, where release threw it away (connection_unix.go:242-278,
\* 336-375, 106-136: a Write queues behind what is buffered, a flush discards
\* exactly what the socket took).
StreamOrder == accepted = ((peerGot \o sndBuf) \o outBuf) \o lost

\* While a registered connection has buffered bytes it is armed for EPOLLOUT, or
\* a Write is about to arm it: no byte waits for an event that cannot come
\* (ModReadWrite in Write, ModRead in WriteFlush, both under writeMtx).
ArmedWhenPending ==
  outBuf # << >> /\ interest # "none" =>
    interest = "readwrite" \/ \E p \in Writers : pc[p] = "w_rearm"

\* Close has been entered by goroutine p.
Closing(p) == pc[p] \in {"c_lock", "c_flush", "c_del", "c_fd", "c_rel", "done"}

\* The event goroutine tears a connection down only if the peer went away or
\* somebody is closing it: it never flushes an empty buffer, which WriteFlush
\* (connection_unix.go:350-365) takes for a reset.
NoSpuriousTeardown ==
  [][pc[Loop] # "e_close" /\ pc'[Loop] = "e_close" =>
       peer # "open" \/ \E p \in Procs : Closing(p)]_vars

\* Inductive strengthening, part 1: a goroutine between Lock and Unlock holds
\* writeMtx (so two are never there at once); one that still has to arm EPOLLOUT
\* left bytes behind, one that still has to disarm it left none.
LockInv ==
  /\ \A p \in Procs :
       pc[p] \in {"w_send", "w_rearm", "c_flush", "f_send", "f_rearm"} => mtx = p
  /\ \A p \in Procs : pc[p] = "w_rearm" => outBuf # << >>
  /\ pc[Loop] = "f_rearm" => outBuf = << >>

\* Part 2: how far a Close has come, and what that means for the descriptor.
ReleaseInv ==
  /\ \A p \in Procs : pc[p] = "c_rel" => ~fdOpen
  /\ released => ~fdOpen /\ outBuf = << >>
  /\ lost # << >> => released
  /\ ~fdOpen => interest = "none"

\* Part 3: EPOLLOUT is armed, or being served, only for buffered bytes, for a
\* peer that is gone, or while somebody closes.
OutEventInv ==
  /\ interest = "readwrite" =>
       outBuf # << >> \/ pc[Loop] = "f_rearm" \/ \E p \in Procs : Closing(p)
  /\ pc[Loop] \in {"f_lock", "f_send"} =>
       outBuf # << >> \/ peer # "open" \/ \E p \in Procs : Closing(p)
  /\ pc[Loop] \in {"f_lock", "f_send", "r_read"} /\ ~fdOpen => \E p \in Procs : Closing(p)

Inv == TypeOK /\ LockInv /\ ReleaseInv /\ OutEventInv /\ ArmedWhenPending /\ StreamOrder

\* The write side implements the byte stream.
Stream == INSTANCE ByteStream WITH delivered <- peerGot
ImplementsStream == Stream!StreamSpec

\* Every byte a Write took over reaches the peer, unless the connection is torn
\* down first (the EAGAIN, EPOLLOUT, WriteFlush, ModRead cycle makes progress).
DrainOrClosed ==
  \A n \in 1..(MaxBytes * Cardinality(Writers)) : Len(accepted) >= n ~> Len(peerGot) >= n \/ onClosed

\* Write returns to its caller, unless the connection is torn down first.
WritesReturn == \A p \in Writers : pc[p] = "w_lock" ~> pc[p] = "idle" \/ onClosed

\* The peer's FIN leads to OnClose and to the descriptor being closed
\* (engine_unix.go:144-154).
FinIsReported == peer = "fin" ~> onClosed /\ ~fdOpen

\* What the comment at connection_unix.go:110 says of Close: the residual data is
\* sent before the connection is closed, if the peer still takes it.
ResidualSent ==
  [][\A p \in Procs : pc[p] = "c_flush" /\ pc'[p] = "c_del" /\ Writable => outBuf = << >>]_vars

\* What glibevent.go:55 says: OnClose fires when a connection has been closed,
\* here by a reset.
ResetIsReported == peer = "reset" ~> onClosed
=============================================================================

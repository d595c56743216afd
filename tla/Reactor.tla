------------------------------- MODULE Reactor -------------------------------
(***************************************************************************)
(* The server's event loop (engine_unix.go, conn_matrix.go,                *)
(* internal/netpoll/epoll_default_poller.go): one goroutine waits in       *)
(* epoll_wait and starts one goroutine per reported event; it waits for    *)
(* all of them before it polls again.  Descriptors are numbers the kernel  *)
(* hands out again as soon as they are closed, so the kernel's table, the  *)
(* epoll registrations, connMatrix and the conn objects must agree on      *)
(* whose they are.                                                         *)
(*                                                                         *)
(* What a connection does with its outbound buffer is module Outbound;     *)
(* here nothing is pending, so an OUT event means an error or a hang-up.   *)
(***************************************************************************)
EXTENDS Naturals, FiniteSets

CONSTANTS
  Conns,          \* peers that connect, and the conn object of each
  Fds,            \* descriptor numbers available for connections
  Ln,             \* the goroutine of an event of the listener
  Ticker,         \* the goroutine of Server.ticker
  Users,          \* application goroutines that call Close
  None,           \* no connection, no descriptor (nil, -1)
  MaxReqs,        \* bound on the requests of one peer
  MaxUserCloses,  \* bound on the Close calls of application goroutines
  HandlerCloses,  \* BOOLEAN: OnTraffic may call Close
  Faults          \* system calls of accept that may fail although numbers are left

Workers == Fds \cup {Ln}                      \* the goroutines of one poll round
Procs   == Workers \cup {Ticker} \cup Users

ASSUME FdAssumption == None \notin Fds \cup Conns /\ Ln \notin Fds
ASSUME ProcAssumption == ({Ticker} \cup Users) \cap Workers = {} /\ Ticker \notin Users
ASSUME BoundAssumption == MaxReqs \in Nat /\ MaxUserCloses \in Nat /\ HandlerCloses \in BOOLEAN
ASSUME FaultAssumption == Faults \subseteq {"accept", "nonblock", "addread"}

VARIABLES
  pc, cur,        \* per goroutine: where it is, the conn it works on
  todo,           \* keys the ticker has yet to visit
  connMap,        \* connMatrix: descriptor -> conn
  sysfd, paFD,    \* per conn: c.sysfd and c.pollAttachment.FD
  owner, reg,     \* kernel: descriptor -> socket, descriptors registered with epoll
  backlog,        \* connections waiting to be accepted
  peer,           \* per peer: "away", "up", "fin" or "reset"
  sent, unread,   \* requests a peer sent; those still in the socket
  inbound, heard, \* requests in c.inboundBuffer; those OnTraffic got
  closes,         \* history: OnClose calls per conn
  closing,        \* history: conns on which Close was called
  opened,         \* history: conns that OnOpen kept
  fault,          \* history: the call of accept that failed for a conn, or "none"
  userCloses      \* Close calls of application goroutines so far

procs  == <<pc, cur>>
kernel == <<owner, reg, backlog>>
peers  == <<peer, sent, unread>>
ids    == <<sysfd, paFD>>
app    == <<inbound, heard, closes, closing, opened, fault, userCloses>>
vars   == <<pc, cur, todo, connMap, sysfd, paFD, owner, reg, backlog, peer, sent,
            unread, inbound, heard, closes, closing, opened, fault, userCloses>>

Labels == {"idle", "get_in", "get_out", "flush", "read", "traffic", "onclose",
           "delconn", "c_del", "c_fd", "c_rel", "accept", "addread", "onopen",
           "addconn", "iterate", "delete"}

TypeOK ==
  /\ pc \in [Procs -> Labels] /\ cur \in [Procs -> Conns \cup {None}]
  /\ todo \subseteq Fds
  /\ connMap \in [Fds -> Conns \cup {None}]
  /\ sysfd \in [Conns -> Fds \cup {None}] /\ paFD \in [Conns -> Fds \cup {None}]
  /\ owner \in [Fds -> Conns \cup {None}] /\ reg \subseteq Fds
  /\ backlog \subseteq Conns
  /\ peer \in [Conns -> {"away", "up", "fin", "reset"}]
  /\ sent \in [Conns -> Nat] /\ unread \in [Conns -> Nat]
  /\ inbound \in [Conns -> Nat] /\ heard \in [Conns -> Nat]
  /\ closes \in [Conns -> Nat] /\ closing \subseteq Conns /\ opened \subseteq Conns
  /\ fault \in [Conns -> {"none", "nonblock", "addread"}] /\ userCloses \in Nat
  /\ \A fd \in reg : owner[fd] # None

\* Server.Start up to the first epoll_wait.
Init ==
  /\ pc = [p \in Procs |-> "idle"] /\ cur = [p \in Procs |-> None]
  /\ todo = {}
  /\ connMap = [fd \in Fds |-> None]
  /\ sysfd = [c \in Conns |-> None] /\ paFD = [c \in Conns |-> None]
  /\ owner = [fd \in Fds |-> None] /\ reg = {} /\ backlog = {}
  /\ peer = [c \in Conns |-> "away"]
  /\ sent = [c \in Conns |-> 0] /\ unread = [c \in Conns |-> 0]
  /\ inbound = [c \in Conns |-> 0] /\ heard = [c \in Conns |-> 0]
  /\ closes = [c \in Conns |-> 0] /\ closing = {} /\ opened = {}
  /\ fault = [c \in Conns |-> "none"] /\ userCloses = 0

-----------------------------------------------------------------------------
(* Steps of goroutine p: to a label, or back to its caller. *)

Step(p, a, b) == /\ pc[p] = a
                 /\ pc' = [pc EXCEPT ![p] = b]
                 /\ cur' = IF b = "idle" THEN [cur EXCEPT ![p] = None] ELSE cur

\* connMatrix.mtx can be taken for writing: the ticker does not hold its read lock.
MapFree == pc[Ticker] \notin {"iterate", "delete"}

\* The socket a system call on c.sysfd reaches; None is EBADF.
Sock(c) == IF sysfd[c] = None THEN None ELSE owner[sysfd[c]]

-----------------------------------------------------------------------------
(* netpoll.Polling *)

\* Level-triggered: data, end of file or an error; for the listener, a peer.
ReadyFds == {fd \in reg : unread[owner[fd]] > 0 \/ peer[owner[fd]] # "up"}
Ready == ReadyFds \cup (IF backlog # {} THEN {Ln} ELSE {})

FirstLabel(w) == IF w = Ln THEN "accept"
                 ELSE IF peer[owner[w]] = "reset" THEN "get_out" ELSE "get_in"

StartWorkers(S) ==
  /\ S # {}
  /\ pc' = [p \in Procs |-> IF p \in S THEN FirstLabel(p) ELSE pc[p]]
  /\ UNCHANGED <<cur, todo, connMap, ids, kernel, peers, app>>

\* Mutant: does not wait for the goroutines of the last round.
PollNoWait == StartWorkers({w \in Ready : pc[w] = "idle"})

\* wg.Wait, then epoll_wait, then one goroutine per event.
Poll == /\ \A w \in Workers : pc[w] = "idle"
        /\ StartWorkers(Ready)

-----------------------------------------------------------------------------
(* Server.Callback, eventWrite, eventRead *)

\* getConn; an OUT event, error or hang-up goes to eventWrite alone.
GetConn(fd) ==
  \E k \in {<<"get_in", "read">>, <<"get_out", "flush">>} :
    /\ pc[fd] = k[1]
    /\ pc' = [pc EXCEPT ![fd] = IF connMap[fd] = None THEN "idle" ELSE k[2]]
    /\ cur' = [cur EXCEPT ![fd] = connMap[fd]]
    /\ UNCHANGED <<todo, connMap, ids, kernel, peers, app>>

\* WriteFlush with nothing pending: an error, or a write of 0 bytes.
FlushFail(fd) == Step(fd, "flush", "onclose")
                 /\ UNCHANGED <<todo, connMap, ids, kernel, peers, app>>

\* What conn.eventRead moves from socket s into c.inboundBuffer.
Receive(c, s) == /\ inbound' = [inbound EXCEPT ![c] = @ + unread[s]]
                 /\ unread' = [unread EXCEPT ![s] = 0]
                 /\ UNCHANGED <<todo, connMap, ids, kernel, peer, sent,
                                heard, closes, closing, opened, fault, userCloses>>

EventRead(fd) ==
  LET c == cur[fd] s == Sock(c) IN
    /\ pc[fd] = "read" /\ s # None /\ peer[s] = "up"
    /\ Step(fd, "read", IF inbound[c] + unread[s] = 0 THEN "idle" ELSE "traffic")
    /\ Receive(c, s)

\* EBADF, ECONNRESET, or end of file behind data that stays in the buffer.
EventReadFail(fd) ==
  LET c == cur[fd] s == Sock(c) IN
    /\ Step(fd, "read", "onclose")
    /\ \/ s = None /\ UNCHANGED <<todo, connMap, ids, kernel, peers, app>>
       \/ s # None /\ peer[s] # "up" /\ Receive(c, s)

\* OnTraffic for every complete request; the handler may end with c.Close().
Traffic(fd) ==
  /\ \/ Step(fd, "traffic", "idle") /\ UNCHANGED closing
     \/ HandlerCloses /\ Step(fd, "traffic", "c_del") /\ closing' = closing \cup {cur[fd]}
  /\ heard' = [heard EXCEPT ![cur[fd]] = @ + inbound[cur[fd]]]
  /\ inbound' = [inbound EXCEPT ![cur[fd]] = 0]
  /\ UNCHANGED <<todo, connMap, ids, kernel, peers, closes, opened, fault, userCloses>>

\* Mutant: the handler is told, but nothing is torn down.
OnCloseOnly(fd) ==
  /\ Step(fd, "onclose", "idle")
  /\ closes' = [closes EXCEPT ![cur[fd]] = @ + 1]
  /\ UNCHANGED <<todo, connMap, ids, kernel, peers, inbound, heard, closing, opened,
                 fault, userCloses>>

OnClose(fd) ==
  /\ Step(fd, "onclose", "delconn")
  /\ closes' = [closes EXCEPT ![cur[fd]] = @ + 1]
  /\ UNCHANGED <<todo, connMap, ids, kernel, peers, inbound, heard, closing, opened,
                 fault, userCloses>>

\* delConn(c.sysfd), then Close is entered.
DelConn(fd) ==
  /\ Step(fd, "delconn", "c_del") /\ MapFree
  /\ connMap' = [k \in Fds |-> IF k = sysfd[cur[fd]] THEN None ELSE connMap[k]]
  /\ closing' = closing \cup {cur[fd]}
  /\ UNCHANGED <<todo, ids, kernel, peers, inbound, heard, closes, opened, fault, userCloses>>

-----------------------------------------------------------------------------
(* conn.Close: netpoll.Delete, unix.Close, release *)

\* By pollAttachment.FD, which keeps its number for ever.
CloseDelete(p) ==
  /\ Step(p, "c_del", "c_fd")
  /\ reg' = reg \ {paFD[cur[p]]}
  /\ UNCHANGED <<todo, connMap, ids, owner, backlog, peers, app>>

\* Mutant: unix.Close is forgotten.
CloseFdForgotten(p) == Step(p, "c_fd", "c_rel")
                       /\ UNCHANGED <<todo, connMap, ids, kernel, peers, app>>

\* Mutant: unix.Close is repeated as if it had been interrupted (EINTR).
CloseFdRetried(p) ==
  /\ Step(p, "c_fd", "c_fd") \/ Step(p, "c_fd", "c_rel")
  /\ owner' = [fd \in Fds |-> IF fd = sysfd[cur[p]] THEN None ELSE owner[fd]]
  /\ reg' = reg \ {sysfd[cur[p]]}
  /\ UNCHANGED <<todo, connMap, ids, backlog, peers, app>>

CloseFd(p) ==
  /\ Step(p, "c_fd", "c_rel")
  /\ owner' = [fd \in Fds |-> IF fd = sysfd[cur[p]] THEN None ELSE owner[fd]]
  /\ reg' = reg \ {sysfd[cur[p]]}
  /\ UNCHANGED <<todo, connMap, ids, backlog, peers, app>>

\* The inbound buffer is dropped and c.sysfd becomes -1.
Release(p) ==
  /\ Step(p, "c_rel", "idle")
  /\ inbound' = [inbound EXCEPT ![cur[p]] = 0]
  /\ sysfd' = [sysfd EXCEPT ![cur[p]] = None]
  /\ UNCHANGED <<todo, connMap, paFD, kernel, peers, heard, closes, closing, opened,
                 fault, userCloses>>

\* An application goroutine closes a connection it kept in OnOpen.
UserClose(u) ==
  /\ pc[u] = "idle" /\ userCloses < MaxUserCloses
  /\ \E c \in opened :
       /\ cur' = [cur EXCEPT ![u] = c]
       /\ closing' = closing \cup {c}
  /\ pc' = [pc EXCEPT ![u] = "c_del"]
  /\ userCloses' = userCloses + 1
  /\ UNCHANGED <<todo, connMap, ids, kernel, peers, inbound, heard, closes, opened, fault>>

CloseStep(p) == CloseDelete(p) \/ CloseFd(p) \/ Release(p)

-----------------------------------------------------------------------------
(* Server.accept *)

\* Accept, SetNonblock, newTCPConn.  Any free number: the process opens others.
Accept ==
  /\ pc[Ln] = "accept" /\ pc' = [pc EXCEPT ![Ln] = "addread"]
  /\ \E c \in backlog, fd \in {f \in Fds : owner[f] = None} :
       /\ backlog' = backlog \ {c}
       /\ owner' = [owner EXCEPT ![fd] = c]
       /\ sysfd' = [sysfd EXCEPT ![c] = fd] /\ paFD' = [paFD EXCEPT ![c] = fd]
       /\ cur' = [cur EXCEPT ![Ln] = c]
  /\ UNCHANGED <<todo, connMap, reg, peers, app>>

\* Mutant: the error is logged, and accept goes on.
AcceptFailIgnored ==
  /\ {f \in Fds : owner[f] = None} = {}
  /\ Step(Ln, "accept", "onopen")
  /\ UNCHANGED <<todo, connMap, ids, kernel, peers, app>>

\* No descriptor is left (EMFILE), or another error, which a connection that was
\* reset in the backlog does not survive: back to epoll_wait.
AcceptFail ==
  /\ Step(Ln, "accept", "idle")
  /\ \/ {f \in Fds : owner[f] = None} = {} /\ UNCHANGED backlog
     \/ "accept" \in Faults /\ UNCHANGED backlog
     \/ "accept" \in Faults /\ \E c \in backlog : peer[c] = "reset" /\ backlog' = backlog \ {c}
  /\ UNCHANGED <<todo, connMap, ids, owner, reg, peers, app>>

\* The return under SetNonblock: the descriptor stays open, and no conn has it.
NonblockFail ==
  /\ "nonblock" \in Faults /\ Step(Ln, "accept", "idle")
  /\ \E c \in backlog, fd \in {f \in Fds : owner[f] = None} :
       /\ backlog' = backlog \ {c}
       /\ owner' = [owner EXCEPT ![fd] = c]
       /\ fault' = [fault EXCEPT ![c] = "nonblock"]
  /\ UNCHANGED <<todo, connMap, ids, reg, peers, inbound, heard, closes, closing, opened,
                 userCloses>>

AddRead ==
  /\ Step(Ln, "addread", "onopen")
  /\ reg' = IF Sock(cur[Ln]) # None THEN reg \cup {sysfd[cur[Ln]]} ELSE reg
  /\ UNCHANGED <<todo, connMap, ids, owner, backlog, peers, app>>

\* Mutant: the error is taken for one of accept itself, and ends it.
AddReadFailReturns ==
  /\ "addread" \in Faults /\ Step(Ln, "addread", "idle")
  /\ fault' = [fault EXCEPT ![cur[Ln]] = "addread"]
  /\ UNCHANGED <<todo, connMap, ids, kernel, peers, inbound, heard, closes, closing, opened,
                 userCloses>>

\* The error of AddRead is not looked at: a connection that epoll never reports.
AddReadFail ==
  /\ "addread" \in Faults /\ Step(Ln, "addread", "onopen")
  /\ fault' = [fault EXCEPT ![cur[Ln]] = "addread"]
  /\ UNCHANGED <<todo, connMap, ids, kernel, peers, inbound, heard, closes, closing, opened,
                 userCloses>>

\* OnOpen keeps the connection, or refuses it: OnClose and Close.
OnOpen ==
  /\ \/ /\ Step(Ln, "onopen", "addconn")
        /\ opened' = opened \cup {cur[Ln]}
        /\ UNCHANGED <<closes, closing>>
     \/ /\ Step(Ln, "onopen", "c_del")
        /\ UNCHANGED opened
        /\ closes' = [closes EXCEPT ![cur[Ln]] = @ + 1]
        /\ closing' = closing \cup {cur[Ln]}
  /\ UNCHANGED <<todo, connMap, ids, kernel, peers, inbound, heard, fault, userCloses>>

\* Mutant: the connection is not stored.
AddConnForgotten == Step(Ln, "addconn", "idle")
                    /\ UNCHANGED <<todo, connMap, ids, kernel, peers, app>>

AddConn ==
  /\ Step(Ln, "addconn", "idle") /\ MapFree
  /\ connMap' = [fd \in Fds |-> IF fd = sysfd[cur[Ln]] THEN cur[Ln] ELSE connMap[fd]]
  /\ UNCHANGED <<todo, ids, kernel, peers, app>>

-----------------------------------------------------------------------------
(* Server.ticker: connMatrix.iterate with conn.ConnInfo, under the read lock *)

TickStart ==
  /\ Step(Ticker, "idle", "iterate")
  /\ todo' = {fd \in Fds : connMap[fd] # None}
  /\ UNCHANGED <<connMap, ids, kernel, peers, app>>

\* ConnInfo is false for a conn whose descriptor is gone: delete its key.
TickVisit ==
  /\ pc[Ticker] = "iterate"
  /\ \E fd \in todo :
       /\ todo' = todo \ {fd}
       /\ IF sysfd[connMap[fd]] = None
            THEN /\ pc' = [pc EXCEPT ![Ticker] = "delete"]
                 /\ cur' = [cur EXCEPT ![Ticker] = connMap[fd]]
            ELSE UNCHANGED procs
  /\ UNCHANGED <<connMap, ids, kernel, peers, app>>

TickDelete ==
  /\ pc[Ticker] = "delete" /\ pc' = [pc EXCEPT ![Ticker] = "iterate"]
  /\ cur' = [cur EXCEPT ![Ticker] = None]
  /\ connMap' = [fd \in Fds |-> IF connMap[fd] = cur[Ticker] THEN None ELSE connMap[fd]]
  /\ UNCHANGED <<todo, ids, kernel, peers, app>>

TickEnd == /\ todo = {} /\ Step(Ticker, "iterate", "idle")
           /\ UNCHANGED <<todo, connMap, ids, kernel, peers, app>>

Tick == TickStart \/ TickVisit \/ TickDelete \/ TickEnd

-----------------------------------------------------------------------------
(* The peers *)

PeerConnect(c) ==
  /\ peer[c] = "away"
  /\ peer' = [peer EXCEPT ![c] = "up"] /\ backlog' = backlog \cup {c}
  /\ UNCHANGED <<procs, todo, connMap, ids, owner, reg, sent, unread, app>>

\* The server still has the socket of c.
Held(c) == c \in backlog \/ \E fd \in Fds : owner[fd] = c

PeerSend(c) ==
  /\ peer[c] = "up" /\ Held(c) /\ sent[c] < MaxReqs
  /\ sent' = [sent EXCEPT ![c] = @ + 1] /\ unread' = [unread EXCEPT ![c] = @ + 1]
  /\ UNCHANGED <<procs, todo, connMap, ids, kernel, peer, app>>

\* The peer closes, or its network fails: a reset discards what is unread.
PeerGone(c) ==
  /\ peer[c] = "up"
  /\ \/ peer' = [peer EXCEPT ![c] = "fin"] /\ UNCHANGED unread
     \/ peer' = [peer EXCEPT ![c] = "reset"] /\ unread' = [unread EXCEPT ![c] = 0]
  /\ UNCHANGED <<procs, todo, connMap, ids, kernel, sent, app>>

-----------------------------------------------------------------------------
Worker(fd) == \/ GetConn(fd) \/ FlushFail(fd) \/ EventRead(fd) \/ EventReadFail(fd)
              \/ Traffic(fd) \/ OnClose(fd) \/ DelConn(fd)
Listener == \/ Accept \/ AcceptFail \/ NonblockFail \/ AddRead \/ AddReadFail
            \/ OnOpen \/ AddConn

Next ==
  \/ Poll \/ Listener \/ Tick
  \/ \E fd \in Fds : Worker(fd)
  \/ \E p \in Workers \cup Users : CloseStep(p)
  \/ \E u \in Users : UserClose(u)
  \/ \E c \in Conns : PeerConnect(c) \/ PeerSend(c) \/ PeerGone(c)

Spec == Init /\ [][Next]_vars

\* Goroutines run; the waits for connMatrix's lock end, for its mutex does not
\* starve a writer.  Peers and the ticker's clock promise nothing.
Fairness ==
  /\ WF_vars(Poll)
  /\ \A fd \in Fds : WF_vars(Worker(fd)) /\ SF_vars(DelConn(fd))
  /\ \A p \in Workers \cup Users : WF_vars(CloseStep(p))
  /\ WF_vars(Listener) /\ SF_vars(AddConn)
  /\ WF_vars(TickVisit \/ TickDelete \/ TickEnd)

FairSpec == Spec /\ Fairness

-----------------------------------------------------------------------------
(* Properties *)

\* Whenever the loop is about to poll, every socket the server holds is stored
\* in connMatrix under its number, known to its conn and registered with epoll
\* (engine_unix.go:176-210, 144-154; connection_unix.go:106-136).  The two
\* exceptions are those of accept: a descriptor whose SetNonblock failed is open
\* and nobody's (186-190), and one whose AddRead failed is not registered (193).
QuietConsistent ==
  (\A w \in Workers : pc[w] = "idle") =>
    \A fd \in Fds : owner[fd] # None =>
      \/ fault[owner[fd]] = "nonblock"
      \/ /\ connMap[fd] = owner[fd] /\ sysfd[owner[fd]] = fd
         /\ fd \in reg <=> fault[owner[fd]] = "none"

\* An event is handled with the conn whose socket reported it, although numbers
\* are reused, keys outlive a Close in a handler, and accept registers the new
\* descriptor before it stores it (engine_unix.go:109-128, 193, 204): the wait
\* for the round's goroutines is what makes this so.
DispatchToOwner ==
  \A fd \in Fds : pc[fd] \in {"read", "flush"} =>
    sysfd[cur[fd]] = fd /\ owner[fd] = cur[fd]

\* A socket loses its registration or its descriptor only in the Close of its
\* own conn, never in that of another one that had the number before
\* (connection_unix.go:125-134).
NoForeignTeardown ==
  [][\A fd \in Fds : owner[fd] # None /\ (owner'[fd] # owner[fd] \/ fd \in reg \ reg') =>
       \E p \in Procs : pc[p] \in {"c_del", "c_fd"} /\ cur[p] = owner[fd]]_vars

\* OnClose fires at most once per connection, although an error, a refusal and
\* a second event each call it (engine_unix.go:133, 147, 196).  Not at least once,
\* as glibevent.go:55 has it: a Close by a handler or the application calls none.
OnCloseOnce ==
  [][\A c \in Conns : closes'[c] # closes[c] => closes[c] = 0]_vars

\* A request that reached an accepted connection reaches OnTraffic, unless the
\* connection is closed, its peer goes away first, or a call of accept failed.
\* glibevent.go:58 excuses none of these: a FIN behind the request loses it.
RequestHeard ==
  \A c \in Conns, n \in 1..MaxReqs :
    sent[c] >= n /\ c \notin backlog ~>
      heard[c] >= n \/ c \in closing \/ peer[c] # "up" \/ fault[c] # "none"

\* A peer that went away costs no descriptor for ever, unless a call of accept
\* failed for it.
DescriptorFreed ==
  \A c \in Conns :
    peer[c] \in {"fin", "reset"} /\ c \notin backlog ~>
      \/ sysfd[c] = None /\ \A fd \in Fds : owner[fd] # c
      \/ fault[c] # "none"
=============================================================================

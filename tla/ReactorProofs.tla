---------------------------- MODULE ReactorProofs -----------------------------
(***************************************************************************)
(* Theorems about Reactor for every set of peers, descriptor numbers and   *)
(* goroutines and every bound on the requests.                             *)
(*                                                                         *)
(* Whose a descriptor is was checked to hold only as long as no            *)
(* application goroutine closes a connection (the run reactor_userclose    *)
(* shows what happens otherwise), so that is a hypothesis of the theorems  *)
(* about it.  Handlers may close, and calls of accept may fail.            *)
(***************************************************************************)
EXTENDS Reactor, TLAPS

(* What TypeOK needs to be inductive: at the labels of a handler, of accept  *)
(* and of Close a goroutine has a conn.                                     *)
ConnLabels == {"flush", "read", "traffic", "onclose", "delconn", "c_del", "c_fd", "c_rel",
               "addread", "onopen", "addconn"}
CurInv  == \A p \in Procs : pc[p] \in ConnLabels => cur[p] \in Conns
TypeInv == TypeOK /\ CurInv

-----------------------------------------------------------------------------
(* Types *)

LEMMA InitType == Init => TypeInv
BY BoundAssumption DEF Init, TypeInv, TypeOK, CurInv, Labels, ConnLabels

LEMMA PollType == ASSUME TypeInv, Poll PROVE TypeInv'
<1>1. pc' \in [Procs -> Labels]
  BY DEF TypeInv, TypeOK, Poll, StartWorkers, FirstLabel, Labels
<1>2. \A p \in Procs : pc'[p] \in ConnLabels => pc[p] \in ConnLabels
  BY DEF TypeInv, TypeOK, Poll, StartWorkers, FirstLabel, ConnLabels
<1> QED BY <1>1, <1>2 DEF TypeInv, TypeOK, CurInv, Poll, StartWorkers, ids, kernel, peers, app

(* A step of one goroutine from label a to label b, with a conn to work on  *)
(* at b if b is a label that needs one.                                     *)
LEMMA StepType ==
  ASSUME TypeInv, NEW p \in Procs, NEW a \in Labels, NEW b \in Labels, Step(p, a, b),
         b \in ConnLabels => a \in ConnLabels
  PROVE  pc' \in [Procs -> Labels] /\ cur' \in [Procs -> Conns \cup {None}] /\ CurInv'
BY DEF TypeInv, TypeOK, CurInv, Step, ConnLabels

LEMMA SockType ==
  ASSUME TypeInv, NEW c \in Conns PROVE Sock(c) \in Conns \cup {None}
BY DEF TypeInv, TypeOK, Sock

(* One step of the goroutine of an event.                                   *)
LEMMA WorkerType == ASSUME TypeInv, NEW fd \in Fds, Worker(fd) PROVE TypeInv'
<1> USE DEF kernel, peers, ids, app
<1>0. fd \in Procs /\ TypeOK
  BY DEF Procs, Workers, TypeInv
<1>1. CASE GetConn(fd)
  BY <1>0, <1>1 DEF TypeInv, TypeOK, CurInv, GetConn, Labels, ConnLabels
<1>2. CASE FlushFail(fd)
  <2>1. pc' \in [Procs -> Labels] /\ cur' \in [Procs -> Conns \cup {None}] /\ CurInv'
    BY <1>0, <1>2, StepType DEF FlushFail, Labels, ConnLabels
  <2> QED BY <1>0, <1>2, <2>1 DEF TypeInv, TypeOK, FlushFail
<1>3. CASE EventRead(fd)
  <2> DEFINE c == cur[fd]
             s == Sock(c)
  <2>1. c \in Conns
    BY <1>0, <1>3 DEF TypeInv, CurInv, EventRead, ConnLabels
  <2>2. s \in Conns
    BY <1>3, <2>1, SockType DEF EventRead
  <2>3. pc' \in [Procs -> Labels] /\ cur' \in [Procs -> Conns \cup {None}] /\ CurInv'
    <3>1. CASE inbound[c] + unread[s] = 0
      BY <1>0, <1>3, <3>1, StepType DEF EventRead, Labels, ConnLabels
    <3>2. CASE inbound[c] + unread[s] # 0
      BY <1>0, <1>3, <3>2, StepType DEF EventRead, Labels, ConnLabels
    <3> QED BY <3>1, <3>2
  <2>4. Receive(c, s)
    BY <1>3 DEF EventRead
  <2>5. inbound' \in [Conns -> Nat] /\ unread' \in [Conns -> Nat]
    BY <1>0, <2>1, <2>2, <2>4 DEF TypeOK, Receive
  <2> QED BY <1>0, <2>3, <2>4, <2>5 DEF TypeInv, TypeOK, Receive
<1>4. CASE EventReadFail(fd)
  <2> DEFINE c == cur[fd]
             s == Sock(c)
  <2>1. c \in Conns
    BY <1>0, <1>4 DEF TypeInv, CurInv, EventReadFail, Step, ConnLabels
  <2>2. s \in Conns \cup {None}
    BY <2>1, SockType
  <2>3. pc' \in [Procs -> Labels] /\ cur' \in [Procs -> Conns \cup {None}] /\ CurInv'
    BY <1>0, <1>4, StepType DEF EventReadFail, Labels, ConnLabels
  <2>4. CASE UNCHANGED <<todo, connMap, ids, kernel, peers, app>>
    BY <1>0, <2>3, <2>4 DEF TypeInv, TypeOK
  <2>5. CASE s \in Conns /\ Receive(c, s)
    <3>1. inbound' \in [Conns -> Nat] /\ unread' \in [Conns -> Nat]
      BY <1>0, <2>1, <2>5 DEF TypeOK, Receive
    <3> QED BY <1>0, <2>3, <2>5, <3>1 DEF TypeInv, TypeOK, Receive
  <2> QED BY <1>4, <2>2, <2>4, <2>5 DEF EventReadFail
<1>5. CASE Traffic(fd)
  <2>1. cur[fd] \in Conns
    BY <1>0, <1>5 DEF TypeInv, CurInv, Traffic, Step, ConnLabels
  <2>2. pc' \in [Procs -> Labels] /\ cur' \in [Procs -> Conns \cup {None}] /\ CurInv'
    BY <1>0, <1>5, StepType DEF Traffic, Labels, ConnLabels
  <2> QED BY <1>0, <1>5, <2>1, <2>2 DEF TypeInv, TypeOK, Traffic
<1>6. CASE OnClose(fd)
  <2>1. pc' \in [Procs -> Labels] /\ cur' \in [Procs -> Conns \cup {None}] /\ CurInv'
    BY <1>0, <1>6, StepType DEF OnClose, Labels, ConnLabels
  <2>2. closes' \in [Conns -> Nat]
    <3>1. cur[fd] \in Conns /\ closes \in [Conns -> Nat]
      BY <1>0, <1>6 DEF TypeInv, TypeOK, CurInv, OnClose, Step, ConnLabels
    <3>2. closes' = [closes EXCEPT ![cur[fd]] = @ + 1]
      BY <1>6 DEF OnClose
    <3> QED BY <3>1, <3>2
  <2> QED BY <1>0, <1>6, <2>1, <2>2 DEF TypeInv, TypeOK, OnClose
<1>7. CASE DelConn(fd)
  <2>1. cur[fd] \in Conns
    BY <1>0, <1>7 DEF TypeInv, CurInv, DelConn, Step, ConnLabels
  <2>2. pc' \in [Procs -> Labels] /\ cur' \in [Procs -> Conns \cup {None}] /\ CurInv'
    BY <1>0, <1>7, StepType DEF DelConn, Labels, ConnLabels
  <2> QED BY <1>0, <1>7, <2>1, <2>2 DEF TypeInv, TypeOK, DelConn
<1> QED BY <1>1, <1>2, <1>3, <1>4, <1>5, <1>6, <1>7 DEF Worker

(* One step of Close, by whatever goroutine.                                *)
LEMMA CloseType == ASSUME TypeInv, NEW p \in Procs, CloseStep(p) PROVE TypeInv'
<1> USE DEF kernel, peers, ids, app
<1>0. TypeOK
  BY DEF TypeInv
<1>1. CASE CloseDelete(p)
  <2>1. pc' \in [Procs -> Labels] /\ cur' \in [Procs -> Conns \cup {None}] /\ CurInv'
    BY <1>1, StepType DEF CloseDelete, Labels, ConnLabels
  <2> QED BY <1>0, <1>1, <2>1 DEF TypeInv, TypeOK, CloseDelete
<1>2. CASE CloseFd(p)
  <2>1. pc' \in [Procs -> Labels] /\ cur' \in [Procs -> Conns \cup {None}] /\ CurInv'
    BY <1>2, StepType DEF CloseFd, Labels, ConnLabels
  <2> QED BY <1>0, <1>2, <2>1 DEF TypeInv, TypeOK, CloseFd
<1>3. CASE Release(p)
  <2>1. pc' \in [Procs -> Labels] /\ cur' \in [Procs -> Conns \cup {None}] /\ CurInv'
    BY <1>3, StepType DEF Release, Labels, ConnLabels
  <2> QED BY <1>0, <1>3, <2>1 DEF TypeInv, TypeOK, Release
<1> QED BY <1>1, <1>2, <1>3 DEF CloseStep

(* One step of accept.                                                      *)
LEMMA ListenerType == ASSUME TypeInv, Listener PROVE TypeInv'
<1> USE DEF kernel, peers, ids, app
<1>0. Ln \in Procs /\ TypeOK
  BY DEF Procs, Workers, TypeInv
<1>1. CASE Accept
  <2>1. PICK c \in backlog, fd \in {f \in Fds : owner[f] = None} :
          /\ backlog' = backlog \ {c}
          /\ owner' = [owner EXCEPT ![fd] = c]
          /\ sysfd' = [sysfd EXCEPT ![c] = fd] /\ paFD' = [paFD EXCEPT ![c] = fd]
          /\ cur' = [cur EXCEPT ![Ln] = c]
    BY <1>1 DEF Accept
  <2>2. c \in Conns
    BY <1>0 DEF TypeOK
  <2>3. pc' \in [Procs -> Labels] /\ cur' \in [Procs -> Conns \cup {None}] /\ CurInv'
    BY <1>0, <1>1, <2>1, <2>2 DEF TypeInv, TypeOK, CurInv, Accept, Labels, ConnLabels
  <2>4. \A f \in reg : owner'[f] # None
    BY <1>0, <2>1, <2>2, FdAssumption DEF TypeOK
  <2> QED BY <1>0, <1>1, <2>1, <2>2, <2>3, <2>4 DEF TypeInv, TypeOK, Accept
<1>2. CASE AcceptFail
  <2>1. pc' \in [Procs -> Labels] /\ cur' \in [Procs -> Conns \cup {None}] /\ CurInv'
    BY <1>0, <1>2, StepType DEF AcceptFail, Labels, ConnLabels
  <2> QED BY <1>0, <1>2, <2>1 DEF TypeInv, TypeOK, AcceptFail
<1>3. CASE AddRead
  <2>1. cur[Ln] \in Conns
    BY <1>0, <1>3 DEF TypeInv, CurInv, AddRead, Step, ConnLabels
  <2>2. pc' \in [Procs -> Labels] /\ cur' \in [Procs -> Conns \cup {None}] /\ CurInv'
    BY <1>0, <1>3, StepType DEF AddRead, Labels, ConnLabels
  <2> QED BY <1>0, <1>3, <2>1, <2>2 DEF TypeInv, TypeOK, AddRead, Sock
<1>4. CASE OnOpen
  <2>1. cur[Ln] \in Conns
    BY <1>0, <1>4 DEF TypeInv, CurInv, OnOpen, Step, ConnLabels
  <2>2. pc' \in [Procs -> Labels] /\ cur' \in [Procs -> Conns \cup {None}] /\ CurInv'
    BY <1>0, <1>4, StepType DEF OnOpen, Labels, ConnLabels
  <2> QED BY <1>0, <1>4, <2>1, <2>2 DEF TypeInv, TypeOK, OnOpen
<1>5. CASE AddConn
  <2>1. cur[Ln] \in Conns
    BY <1>0, <1>5 DEF TypeInv, CurInv, AddConn, Step, ConnLabels
  <2>2. pc' \in [Procs -> Labels] /\ cur' \in [Procs -> Conns \cup {None}] /\ CurInv'
    BY <1>0, <1>5, StepType DEF AddConn, Labels, ConnLabels
  <2> QED BY <1>0, <1>5, <2>1, <2>2 DEF TypeInv, TypeOK, AddConn
<1>6. CASE NonblockFail
  <2>1. pc' \in [Procs -> Labels] /\ cur' \in [Procs -> Conns \cup {None}] /\ CurInv'
    BY <1>0, <1>6, StepType DEF NonblockFail, Labels, ConnLabels
  <2>2. PICK c \in backlog, fd \in {f \in Fds : owner[f] = None} :
          /\ backlog' = backlog \ {c} /\ owner' = [owner EXCEPT ![fd] = c]
          /\ fault' = [fault EXCEPT ![c] = "nonblock"]
    BY <1>6 DEF NonblockFail
  <2>3. c \in Conns /\ fd \notin reg
    BY <1>0, <2>2 DEF TypeOK
  <2>4. \A f \in reg : owner'[f] # None
    BY <1>0, <2>2, <2>3 DEF TypeOK
  <2> QED BY <1>0, <1>6, <2>1, <2>2, <2>3, <2>4 DEF TypeInv, TypeOK, NonblockFail
<1>7. CASE AddReadFail
  <2>1. pc' \in [Procs -> Labels] /\ cur' \in [Procs -> Conns \cup {None}] /\ CurInv'
    BY <1>0, <1>7, StepType DEF AddReadFail, Labels, ConnLabels
  <2> QED BY <1>0, <1>7, <2>1 DEF TypeInv, TypeOK, AddReadFail
<1> QED BY <1>1, <1>2, <1>3, <1>4, <1>5, <1>6, <1>7 DEF Listener

(* One step of the ticker, of an application goroutine, of a peer.          *)
LEMMA TickType == ASSUME TypeInv, Tick PROVE TypeInv'
<1> USE DEF kernel, peers, ids, app, procs
<1>0. Ticker \in Procs /\ TypeOK
  BY DEF Procs, TypeInv
<1>1. CASE TickStart
  BY <1>0, <1>1 DEF TypeInv, TypeOK, CurInv, TickStart, Step, Labels, ConnLabels
<1>2. CASE TickVisit
  BY <1>0, <1>2 DEF TypeInv, TypeOK, CurInv, TickVisit, Labels, ConnLabels
<1>3. CASE TickDelete
  BY <1>0, <1>3 DEF TypeInv, TypeOK, CurInv, TickDelete, Labels, ConnLabels
<1>4. CASE TickEnd
  BY <1>0, <1>4 DEF TypeInv, TypeOK, CurInv, TickEnd, Step, Labels, ConnLabels
<1> QED BY <1>1, <1>2, <1>3, <1>4 DEF Tick

LEMMA UserType == ASSUME TypeInv, NEW u \in Users, UserClose(u) PROVE TypeInv'
BY DEF TypeInv, TypeOK, CurInv, UserClose, Labels, ConnLabels, Procs, kernel, peers, ids

LEMMA PeerType ==
  ASSUME TypeInv, NEW c \in Conns, PeerConnect(c) \/ PeerSend(c) \/ PeerGone(c) PROVE TypeInv'
<1> USE DEF kernel, ids, app, procs
<1>1. CASE PeerConnect(c)
  BY <1>1 DEF TypeInv, TypeOK, CurInv, PeerConnect
<1>2. CASE PeerSend(c)
  BY <1>2 DEF TypeInv, TypeOK, CurInv, PeerSend
<1>3. CASE PeerGone(c)
  BY <1>3 DEF TypeInv, TypeOK, CurInv, PeerGone
<1> QED BY <1>1, <1>2, <1>3

LEMMA TypeInvariant == Spec => []TypeInv
<1>1. ASSUME TypeInv, [Next]_vars PROVE TypeInv'
  <2>1. CASE Next
    <3>1. Users \subseteq Procs /\ Workers \subseteq Procs
      BY DEF Procs
    <3> QED BY <1>1, <2>1, <3>1, PollType, ListenerType, TickType, WorkerType, CloseType,
               UserType, PeerType DEF Next
  <2>2. CASE UNCHANGED vars
    BY <1>1, <2>2 DEF TypeInv, TypeOK, CurInv, vars
  <2> QED BY <1>1, <2>1, <2>2
<1> QED BY <1>1, InitType, PTL DEF Spec

(* Every variable keeps its type, and only descriptors that are open are    *)
(* registered with epoll (epoll_default_poller.go:90-130), whatever         *)
(* application goroutines do.                                               *)
THEOREM TypeCorrect == Spec => []TypeOK
<1>1. TypeInv => TypeOK
  BY DEF TypeInv
<1> QED BY <1>1, TypeInvariant, PTL

-----------------------------------------------------------------------------
(* The inductive invariant *)

(* Where the goroutine of a descriptor's event, that of the listener's      *)
(* event and the ticker can be.                                             *)
FdLabels   == {"idle", "get_in", "get_out", "flush", "read", "traffic", "onclose",
               "delconn", "c_del", "c_fd", "c_rel"}
LnLabels   == {"idle", "accept", "addread", "onopen", "addconn", "c_del", "c_fd", "c_rel"}
TickLabels == {"idle", "iterate", "delete"}

(* A goroutine without a conn; with one whose descriptor is open; with one  *)
(* whose AddRead is behind it.                                              *)
FreeLabels == {"idle", "get_in", "get_out", "accept"}
OpenLabels == {"flush", "read", "traffic", "onclose", "delconn", "c_del", "c_fd",
               "addread", "onopen", "addconn"}
RegLabels  == OpenLabels \ {"addread", "c_fd"}
KeptLabels == {"flush", "read", "traffic", "onclose", "delconn"}

PlaceInv ==
  /\ \A fd \in Fds : pc[fd] \in FdLabels
  /\ pc[Ln] \in LnLabels /\ pc[Ticker] \in TickLabels
  /\ \A u \in Users : pc[u] = "idle"
  /\ userCloses = 0

(* The kernel's table, c.sysfd and c.pollAttachment.FD agree; a conn gets a *)
(* number when it leaves the backlog, once.                                 *)
IdsInv ==
  /\ \A fd \in Fds : owner[fd] # None => fault[owner[fd]] = "nonblock" \/ sysfd[owner[fd]] = fd
  /\ \A c \in Conns : sysfd[c] # None => paFD[c] = sysfd[c]
  /\ \A c \in Conns : paFD[c] # None => c \notin backlog /\ peer[c] # "away"
  /\ \A c \in backlog : peer[c] # "away"

(* A peer whose SetNonblock failed has no conn that knows a number; only a   *)
(* descriptor whose AddRead succeeded is registered.                        *)
FaultInv ==
  /\ \A c \in Conns : fault[c] = "nonblock" => paFD[c] = None /\ c \notin backlog /\ peer[c] # "away"
  /\ \A c \in Conns : fault[c] = "addread" => paFD[c] # None
  /\ \A fd \in reg : fault[owner[fd]] = "none"

(* A conn is stored, and worked on, under the number it got; the one that   *)
(* accept is working on is not yet known to anybody else.                   *)
MapInv    == \A fd \in Fds : connMap[fd] # None => paFD[connMap[fd]] = fd
FdCurInv  == \A fd \in Fds : cur[fd] # None => paFD[cur[fd]] = fd
LnCurInv  == cur[Ln] # None =>
               /\ paFD[cur[Ln]] # None
               /\ \A fd \in Fds : connMap[fd] # cur[Ln] /\ cur[fd] # cur[Ln]

(* What a goroutine may rely on at each label.                              *)
HoldInv ==
  \A w \in Workers :
    /\ pc[w] \in FreeLabels <=> cur[w] = None
    /\ pc[w] \in OpenLabels => sysfd[cur[w]] # None /\ owner[sysfd[cur[w]]] = cur[w]
    /\ pc[w] = "addread"    => sysfd[cur[w]] \notin reg /\ fault[cur[w]] = "none"
    /\ pc[w] \in RegLabels  => sysfd[cur[w]] \in reg \/ fault[cur[w]] = "addread"
    /\ pc[w] = "c_rel"      => sysfd[cur[w]] # None /\ owner[sysfd[cur[w]]] # cur[w]

(* Every socket has a goroutine working on its conn, or is at rest:         *)
(* registered and stored under its number, but for the faults of accept.    *)
RestInv ==
  \A fd \in Fds : owner[fd] # None /\ cur[fd] # owner[fd] /\ cur[Ln] # owner[fd] =>
    \/ fault[owner[fd]] = "nonblock"
    \/ connMap[fd] = owner[fd] /\ (fd \in reg \/ fault[owner[fd]] = "addread")

(* Until its conn is deleted from connMatrix an event's goroutine finds it   *)
(* there: it may go back to idle.                                           *)
StoredInv == \A fd \in Fds : pc[fd] \in KeptLabels => connMap[fd] = cur[fd]

(* A reported event's socket is still the one that reported it.             *)
EventInv ==
  \A fd \in Fds : pc[fd] \in {"get_in", "get_out"} => 
    owner[fd] # None /\ cur[Ln] # owner[fd] /\ fault[owner[fd]] # "nonblock"

(* The ticker visits keys that are there, and deletes those of dead conns.  *)
TickInv ==
  /\ pc[Ticker] = "delete" => cur[Ticker] # None /\ sysfd[cur[Ticker]] = None /\ paFD[cur[Ticker]] # None
  /\ pc[Ticker] \in {"iterate", "delete"} => \A fd \in todo : connMap[fd] # None
  /\ pc[Ticker] = "delete" => \A fd \in todo : connMap[fd] # cur[Ticker]

(* A conn whose end has begun is past OnClose.                              *)
Ended(c) == closes[c] # 0 \/ c \in closing
EndInv ==
  \A c \in Conns : Ended(c) =>
    /\ paFD[c] # None
    /\ (\A fd \in Fds : owner[fd] # c)
       \/ \E w \in Workers : cur[w] = c /\ pc[w] \in {"delconn", "c_del", "c_fd"}

Inv == /\ TypeInv /\ PlaceInv /\ IdsInv /\ FaultInv /\ MapInv /\ FdCurInv /\ LnCurInv /\ HoldInv
       /\ RestInv /\ StoredInv /\ EventInv /\ TickInv /\ EndInv

-----------------------------------------------------------------------------
(* The goroutines are distinct, and no number or conn is None.               *)
LEMMA Distinct == /\ Ln \notin Fds /\ Ticker \notin Workers /\ Ticker \notin Users
                  /\ \A u \in Users : u \notin Workers /\ u # Ticker
                  /\ None \notin Fds /\ None \notin Conns
BY FdAssumption, ProcAssumption DEF Workers

(* All goroutines of the last round are gone, and only descriptors that are *)
(* open are reported.                                                       *)
LEMMA PollKeeps == ASSUME Inv, TypeInv', FaultInv', Poll PROVE Inv'
<1> USE DEF TypeInv, TypeOK, ids, kernel, peers, app, procs, Workers, Procs
<1>1. /\ IdsInv' /\ MapInv' /\ FdCurInv' /\ LnCurInv' /\ HoldInv' /\ RestInv'
      /\ StoredInv' /\ TickInv'
  <2>1. IdsInv' /\ MapInv' /\ FdCurInv' /\ LnCurInv' /\ RestInv'
    BY DEF Inv, Poll, StartWorkers, IdsInv, MapInv, FdCurInv, LnCurInv, RestInv
  <2>2. HoldInv' /\ StoredInv'
    BY DEF Inv, Poll, StartWorkers, FirstLabel, HoldInv, StoredInv, FreeLabels, OpenLabels,
              RegLabels, KeptLabels
  <2>3. TickInv'
    BY Distinct DEF Inv, Poll, StartWorkers, Ready, ReadyFds, TickInv
  <2> QED BY <2>1, <2>2, <2>3
<1>2. PlaceInv'
  BY Distinct DEF Inv, Poll, StartWorkers, Ready, ReadyFds, FirstLabel, PlaceInv,
                     FdLabels, LnLabels, TickLabels
<1>3. EventInv'
  BY DEF Inv, FaultInv, Poll, StartWorkers, Ready, ReadyFds, FirstLabel, EventInv, HoldInv,
            FreeLabels, OpenLabels, RegLabels
<1>4. EndInv'
  <2>1. (\A w \in Workers : pc[w] = "idle") /\ UNCHANGED <<closes, closing, paFD, owner>>
    BY DEF Poll, StartWorkers
  <2> QED BY <2>1 DEF Inv, EndInv, Ended
<1> QED BY <1>1, <1>2, <1>3, <1>4 DEF Inv

(* The socket that reported the event is at rest, so connMatrix has its conn.*)
LEMMA GetConnKeeps == ASSUME Inv, TypeInv', FaultInv', NEW fd \in Fds, GetConn(fd) PROVE Inv'
<1> USE DEF TypeInv, TypeOK, ids, kernel, peers, app, procs, Workers, Procs
<1>1. PlaceInv' /\ IdsInv' /\ MapInv' /\ StoredInv' /\ TickInv' /\ EndInv'
  BY DEF Inv, GetConn, PlaceInv, IdsInv, MapInv, StoredInv, TickInv, EndInv, FdLabels,
            LnLabels, TickLabels, KeptLabels, Ended
<1>2. FdCurInv'
  BY DEF Inv, GetConn, FdCurInv, MapInv
<1>3. LnCurInv'
  BY Distinct DEF Inv, GetConn, LnCurInv
<1>4. HoldInv'
  BY Distinct DEF Inv, GetConn, HoldInv, IdsInv, RestInv, EventInv, FreeLabels,
                     OpenLabels, RegLabels
<1>5. RestInv'
  BY DEF Inv, GetConn, RestInv, HoldInv, FreeLabels, OpenLabels, RegLabels
<1>6. EventInv'
  BY Distinct DEF Inv, GetConn, EventInv
<1> QED BY <1>1, <1>2, <1>3, <1>4, <1>5, <1>6 DEF Inv

LEMMA FlushFailKeeps ==
  ASSUME Inv, TypeInv', FaultInv', NEW fd \in Fds, FlushFail(fd)
  PROVE  Inv'
<1> USE DEF TypeInv, TypeOK, ids, kernel, peers, app, procs, Workers, Procs
<1>1. PlaceInv' /\ IdsInv' /\ MapInv' /\ FdCurInv' /\ LnCurInv' /\ StoredInv'
  <2>1. PlaceInv'
    BY Distinct DEF Inv, FlushFail, Step, PlaceInv, FdLabels, LnLabels, TickLabels
  <2>2. IdsInv' /\ MapInv'
    BY DEF Inv, FlushFail, Step, IdsInv, MapInv
  <2>3. FdCurInv'
    BY DEF Inv, FlushFail, Step, FdCurInv
  <2>4. LnCurInv'
    BY DEF Inv, FlushFail, Step, LnCurInv
  <2>5. StoredInv'
    BY DEF Inv, FlushFail, Step, StoredInv, KeptLabels
  <2> QED BY <2>1, <2>2, <2>3, <2>4, <2>5
<1>2. HoldInv'
  BY DEF Inv, FlushFail, Step, HoldInv, FreeLabels, OpenLabels, RegLabels
<1>3. RestInv'
  BY DEF Inv, FlushFail, Step, RestInv, HoldInv, FreeLabels, OpenLabels, RegLabels
<1>4. EventInv' /\ TickInv'
  BY DEF Inv, FlushFail, Step, EventInv, TickInv, TickLabels
<1>5. EndInv'
  BY DEF Inv, FlushFail, Step, EndInv, Ended
<1> QED BY <1>1, <1>2, <1>3, <1>4, <1>5 DEF Inv

(* With nothing to read the goroutine ends, and its conn is at rest again.  *)
LEMMA EventReadKeeps ==
  ASSUME Inv, TypeInv', FaultInv', NEW fd \in Fds, EventRead(fd)
  PROVE  Inv'
<1> USE DEF TypeInv, TypeOK, ids, kernel, peers, app, procs, Workers, Procs
<1>1. /\ PlaceInv' /\ IdsInv' /\ MapInv' /\ FdCurInv' /\ LnCurInv' /\ StoredInv'
      /\ EventInv' /\ TickInv'
  <2>1. PlaceInv'
    BY Distinct DEF Inv, EventRead, Step, Receive, PlaceInv, FdLabels, LnLabels, TickLabels
  <2>2. IdsInv' /\ MapInv'
    BY DEF Inv, EventRead, Step, Receive, IdsInv, MapInv
  <2>3. FdCurInv' /\ LnCurInv'
    BY Distinct DEF Inv, EventRead, Step, Receive, FdCurInv, LnCurInv
  <2>4. StoredInv'
    BY DEF Inv, EventRead, Step, Receive, StoredInv, KeptLabels
  <2>5. EventInv' /\ TickInv'
    BY Distinct DEF Inv, EventRead, Step, Receive, EventInv, TickInv
  <2> QED BY <2>1, <2>2, <2>3, <2>4, <2>5
<1>2. HoldInv' /\ RestInv'
  <2>1. /\ pc[fd] = "read" /\ fd \in Workers
        /\ \/ pc' = [pc EXCEPT ![fd] = "idle"] /\ cur' = [cur EXCEPT ![fd] = None]
           \/ pc' = [pc EXCEPT ![fd] = "traffic"] /\ cur' = cur
        /\ UNCHANGED <<connMap, sysfd, owner, reg, fault>>
    <3> DEFINE b == IF inbound[cur[fd]] + unread[Sock(cur[fd])] = 0 THEN "idle" ELSE "traffic"
    <3>1. Step(fd, "read", b) /\ UNCHANGED <<connMap, sysfd, owner, reg, fault>>
      BY DEF EventRead, Receive
    <3>2. b = "idle" \/ b = "traffic"
      OBVIOUS
    <3> HIDE DEF b
    <3> QED BY <3>1, <3>2 DEF Step
  <2>2. CASE pc' = [pc EXCEPT ![fd] = "idle"] /\ cur' = [cur EXCEPT ![fd] = None]
    <3>1. HoldInv'
      BY <2>1, <2>2 DEF Inv, HoldInv, FreeLabels, OpenLabels, RegLabels
    <3>2. /\ sysfd[cur[fd]] \in reg \/ fault[cur[fd]] = "addread"
          /\ connMap[fd] = cur[fd] /\ cur[fd] # None
      BY <2>1 DEF Inv, HoldInv, StoredInv, FreeLabels, OpenLabels, RegLabels, KeptLabels
    <3>3. RestInv'
      <4> SUFFICES ASSUME NEW f \in Fds, owner[f] # None, cur'[f] # owner[f], cur'[Ln] # owner[f]
                   PROVE  \/ fault[owner[f]] = "nonblock"
                          \/ connMap[f] = owner[f] /\ (f \in reg \/ fault[owner[f]] = "addread")
        BY <2>1 DEF RestInv
      <4>1. cur'[Ln] = cur[Ln]
        BY <2>2, Distinct
      <4>2. CASE f = fd /\ owner[f] = cur[fd]
        BY <3>2, <4>2 DEF Inv, IdsInv
      <4>3. CASE ~(f = fd /\ owner[f] = cur[fd])
        BY <2>2, <4>1, <4>3 DEF Inv, RestInv
      <4> QED BY <4>2, <4>3
    <3> QED BY <3>1, <3>3
  <2>3. CASE pc' = [pc EXCEPT ![fd] = "traffic"] /\ cur' = cur
    <3>1. HoldInv'
      BY <2>1, <2>3 DEF Inv, HoldInv, FreeLabels, OpenLabels, RegLabels
    <3>2. RestInv'
      BY <2>1, <2>3 DEF Inv, RestInv
    <3> QED BY <3>1, <3>2
  <2> QED BY <2>1, <2>2, <2>3
<1>3. EndInv'
  BY DEF Inv, EventRead, Step, Receive, Sock, EndInv, Ended
<1> QED BY <1>1, <1>2, <1>3 DEF Inv

LEMMA EventReadFailKeeps ==
  ASSUME Inv, TypeInv', FaultInv', NEW fd \in Fds, EventReadFail(fd)
  PROVE  Inv'
<1> USE DEF TypeInv, TypeOK, ids, kernel, peers, app, procs, Workers, Procs
<1>1. PlaceInv' /\ IdsInv' /\ MapInv' /\ FdCurInv' /\ LnCurInv' /\ StoredInv'
  <2>1. PlaceInv'
    BY Distinct DEF Inv, EventReadFail, Step, Receive, Sock, PlaceInv, FdLabels, LnLabels, TickLabels
  <2>2. IdsInv' /\ MapInv'
    BY DEF Inv, EventReadFail, Step, Receive, Sock, IdsInv, MapInv
  <2>3. FdCurInv'
    BY DEF Inv, EventReadFail, Step, Receive, Sock, FdCurInv
  <2>4. LnCurInv'
    BY DEF Inv, EventReadFail, Step, Receive, Sock, LnCurInv
  <2>5. StoredInv'
    BY DEF Inv, EventReadFail, Step, Receive, Sock, StoredInv, KeptLabels
  <2> QED BY <2>1, <2>2, <2>3, <2>4, <2>5
<1>2. HoldInv'
  BY DEF Inv, EventReadFail, Step, Receive, Sock, HoldInv, FreeLabels, OpenLabels, RegLabels
<1>3. RestInv'
  BY DEF Inv, EventReadFail, Step, Receive, Sock, RestInv, HoldInv, FreeLabels, OpenLabels, RegLabels
<1>4. EventInv' /\ TickInv'
  BY DEF Inv, EventReadFail, Step, Receive, Sock, EventInv, TickInv, TickLabels
<1>5. EndInv'
  BY DEF Inv, EventReadFail, Step, Receive, Sock, EndInv, Ended
<1> QED BY <1>1, <1>2, <1>3, <1>4, <1>5 DEF Inv

(* The handler is done, or it closes the connection.                        *)
LEMMA TrafficKeeps == ASSUME Inv, TypeInv', FaultInv', NEW fd \in Fds, Traffic(fd) PROVE Inv'
<1> USE DEF TypeInv, TypeOK, ids, kernel, peers, app, procs, Workers, Procs
<1>1. /\ PlaceInv' /\ IdsInv' /\ MapInv' /\ FdCurInv' /\ LnCurInv' /\ HoldInv'
      /\ StoredInv' /\ EventInv' /\ TickInv'
  <2>1. PlaceInv' /\ IdsInv' /\ MapInv' /\ FdCurInv' /\ LnCurInv' /\ StoredInv'
    <3>1. PlaceInv'
      BY Distinct DEF Inv, Traffic, Step, PlaceInv, FdLabels, LnLabels, TickLabels
    <3>2. IdsInv' /\ MapInv'
      BY DEF Inv, Traffic, Step, IdsInv, MapInv
    <3>3. FdCurInv'
      BY DEF Inv, Traffic, Step, FdCurInv
    <3>4. LnCurInv'
      BY DEF Inv, Traffic, Step, LnCurInv
    <3>5. StoredInv'
      BY DEF Inv, Traffic, Step, StoredInv, KeptLabels
    <3> QED BY <3>1, <3>2, <3>3, <3>4, <3>5
  <2>2. HoldInv'
    BY DEF Inv, Traffic, Step, HoldInv, FreeLabels, OpenLabels, RegLabels
  <2>3. EventInv' /\ TickInv'
    BY DEF Inv, Traffic, Step, EventInv, TickInv, TickLabels
  <2> QED BY <2>1, <2>2, <2>3
<1>2. RestInv'
  BY DEF Inv, Traffic, Step, RestInv, PlaceInv, IdsInv, HoldInv, StoredInv, EventInv,
            FdLabels, LnLabels, TickLabels, FreeLabels, OpenLabels, RegLabels,
            KeptLabels
<1>3. EndInv'
  <2>1. CASE Step(fd, "traffic", "idle") /\ UNCHANGED closing
    BY <2>1 DEF Inv, Traffic, Step, EndInv, Ended
  <2>2. CASE Step(fd, "traffic", "c_del") /\ closing' = closing \cup {cur[fd]}
    <3>1. /\ pc[fd] = "traffic" /\ pc' = [pc EXCEPT ![fd] = "c_del"] /\ cur' = cur
          /\ UNCHANGED <<owner, paFD, closes>> /\ fd \in Workers
      BY <2>2 DEF Traffic, Step
    <3>2. sysfd[cur[fd]] # None /\ cur[fd] \in Conns /\ paFD[cur[fd]] # None
      BY <3>1, Distinct DEF Inv, HoldInv, IdsInv, FreeLabels, OpenLabels
    <3> QED BY <2>2, <3>1, <3>2 DEF Inv, EndInv, Ended
  <2> QED BY <2>1, <2>2 DEF Traffic
<1> QED BY <1>1, <1>2, <1>3 DEF Inv

LEMMA OnCloseKeeps == ASSUME Inv, TypeInv', FaultInv', NEW fd \in Fds, OnClose(fd) PROVE Inv'
<1> USE DEF TypeInv, TypeOK, ids, kernel, peers, app, procs, Workers, Procs
<1>1. /\ PlaceInv' /\ IdsInv' /\ MapInv' /\ FdCurInv' /\ LnCurInv' /\ HoldInv'
      /\ RestInv' /\ StoredInv' /\ EventInv' /\ TickInv'
  <2>1. PlaceInv' /\ IdsInv' /\ MapInv' /\ FdCurInv' /\ LnCurInv' /\ StoredInv'
    <3>1. PlaceInv'
      BY Distinct DEF Inv, OnClose, Step, PlaceInv, FdLabels, LnLabels, TickLabels
    <3>2. IdsInv' /\ MapInv'
      BY DEF Inv, OnClose, Step, IdsInv, MapInv
    <3>3. FdCurInv'
      BY DEF Inv, OnClose, Step, FdCurInv
    <3>4. LnCurInv'
      BY DEF Inv, OnClose, Step, LnCurInv
    <3>5. StoredInv'
      BY DEF Inv, OnClose, Step, StoredInv, KeptLabels
    <3> QED BY <3>1, <3>2, <3>3, <3>4, <3>5
  <2>2. HoldInv'
    BY DEF Inv, OnClose, Step, HoldInv, FreeLabels, OpenLabels, RegLabels
  <2>3. RestInv'
    BY DEF Inv, OnClose, Step, RestInv, HoldInv, FreeLabels, OpenLabels, RegLabels
  <2>4. EventInv' /\ TickInv'
    BY DEF Inv, OnClose, Step, EventInv, TickInv, TickLabels
  <2> QED BY <2>1, <2>2, <2>3, <2>4
<1>2. EndInv'
  BY DEF Inv, OnClose, Step, EndInv, IdsInv, HoldInv, Ended, FreeLabels, OpenLabels,
            RegLabels
<1> QED BY <1>1, <1>2 DEF Inv

LEMMA DelConnKeeps == ASSUME Inv, TypeInv', FaultInv', NEW fd \in Fds, DelConn(fd) PROVE Inv'
<1> USE DEF TypeInv, TypeOK, ids, kernel, peers, app, procs, Workers, Procs
<1>1. /\ PlaceInv' /\ IdsInv' /\ MapInv' /\ FdCurInv' /\ LnCurInv' /\ HoldInv'
      /\ EventInv' /\ TickInv'
  BY DEF Inv, DelConn, Step, MapFree, PlaceInv, IdsInv, MapInv, FdCurInv, LnCurInv,
            HoldInv, EventInv, TickInv, FdLabels, LnLabels, TickLabels, FreeLabels,
            OpenLabels, RegLabels
<1>2. RestInv'
  BY DEF Inv, DelConn, Step, MapFree, RestInv, IdsInv, FdCurInv, HoldInv, FreeLabels,
            OpenLabels, RegLabels
<1>3. StoredInv'
  BY DEF Inv, DelConn, Step, MapFree, StoredInv, IdsInv, FdCurInv, HoldInv, KeptLabels,
            FreeLabels, OpenLabels, RegLabels
<1>4. EndInv'
  BY DEF Inv, DelConn, Step, MapFree, EndInv, IdsInv, HoldInv, Ended, FreeLabels,
            OpenLabels, RegLabels
<1> QED BY <1>1, <1>2, <1>3, <1>4 DEF Inv

(* No other goroutine holds the same conn.                                  *)
LEMMA CloseDeleteKeeps ==
  ASSUME Inv, TypeInv', FaultInv', NEW w \in Workers, CloseDelete(w)
  PROVE  Inv'
<1> USE DEF TypeInv, TypeOK, ids, kernel, peers, app, procs, Workers, Procs
<1>1. /\ PlaceInv' /\ IdsInv' /\ MapInv' /\ FdCurInv' /\ LnCurInv' /\ StoredInv'
      /\ EventInv' /\ TickInv' /\ EndInv'
  BY DEF Inv, CloseDelete, Step, PlaceInv, IdsInv, MapInv, FdCurInv, LnCurInv,
            StoredInv, EventInv, TickInv, EndInv, FdLabels, LnLabels, TickLabels,
            KeptLabels, Ended
<1>2. HoldInv'
  BY DEF Inv, CloseDelete, Step, HoldInv, IdsInv, FdCurInv, LnCurInv, FreeLabels,
            OpenLabels, RegLabels
<1>3. RestInv'
  BY DEF Inv, CloseDelete, Step, RestInv, IdsInv, FdCurInv, HoldInv, FreeLabels,
            OpenLabels, RegLabels
<1> QED BY <1>1, <1>2, <1>3 DEF Inv

(* The number closed is the conn's own: no event waits for it.              *)
LEMMA CloseFdKeeps == ASSUME Inv, TypeInv', FaultInv', NEW w \in Workers, CloseFd(w) PROVE Inv'
<1> USE DEF TypeInv, TypeOK, ids, kernel, peers, app, procs, Workers, Procs
<1>1. /\ PlaceInv' /\ IdsInv' /\ MapInv' /\ FdCurInv' /\ LnCurInv' /\ RestInv'
      /\ StoredInv' /\ TickInv'
  BY DEF Inv, CloseFd, Step, PlaceInv, IdsInv, MapInv, FdCurInv, LnCurInv, RestInv,
            StoredInv, TickInv, FdLabels, LnLabels, TickLabels, KeptLabels
<1>2. HoldInv'
  BY DEF Inv, CloseFd, Step, HoldInv, FdCurInv, LnCurInv, FreeLabels, OpenLabels,
            RegLabels
<1>3. EventInv'
  BY DEF Inv, CloseFd, Step, EventInv, IdsInv, FdCurInv, HoldInv, FreeLabels,
            OpenLabels, RegLabels
<1>4. EndInv'
  BY Distinct DEF Inv, FaultInv, CloseFd, Step, EndInv, IdsInv, Ended
<1> QED BY <1>1, <1>2, <1>3, <1>4 DEF Inv

LEMMA ReleaseKeeps == ASSUME Inv, TypeInv', FaultInv', NEW w \in Workers, Release(w) PROVE Inv'
<1> USE DEF TypeInv, TypeOK, ids, kernel, peers, app, procs, Workers, Procs
<1>1. /\ PlaceInv' /\ MapInv' /\ FdCurInv' /\ LnCurInv' /\ StoredInv' /\ EventInv'
      /\ TickInv' /\ EndInv'
  BY DEF Inv, Release, Step, PlaceInv, MapInv, FdCurInv, LnCurInv, StoredInv, EventInv,
            TickInv, EndInv, FdLabels, LnLabels, TickLabels, KeptLabels, Ended
<1>2. IdsInv'
  BY DEF Inv, Release, Step, IdsInv, HoldInv, FreeLabels, OpenLabels, RegLabels
<1>3. HoldInv'
  BY DEF Inv, Release, Step, HoldInv, FdCurInv, LnCurInv, FreeLabels, OpenLabels,
            RegLabels
<1>4. RestInv'
  BY DEF Inv, Release, Step, RestInv, IdsInv, HoldInv, FreeLabels, OpenLabels, RegLabels
<1> QED BY <1>1, <1>2, <1>3, <1>4 DEF Inv

(* The new conn has had no number before, so nobody refers to it.           *)
LEMMA AcceptKeeps == ASSUME Inv, TypeInv', FaultInv', Accept PROVE Inv'
<1> USE DEF TypeInv, TypeOK, ids, kernel, peers, app, procs, Workers, Procs
<1>1. PlaceInv' /\ StoredInv'
  BY DEF Inv, Accept, PlaceInv, StoredInv, FdLabels, LnLabels, TickLabels, KeptLabels
<1>2. PICK c \in backlog, fd \in {f \in Fds : owner[f] = None} :
        /\ backlog' = backlog \ {c}
        /\ owner' = [owner EXCEPT ![fd] = c]
        /\ sysfd' = [sysfd EXCEPT ![c] = fd] /\ paFD' = [paFD EXCEPT ![c] = fd]
        /\ cur' = [cur EXCEPT ![Ln] = c]
  BY DEF Accept
<1>3. /\ paFD[c] = None /\ sysfd[c] = None /\ c \in Conns /\ peer[c] # "away"
      /\ fault[c] = "none" /\ fd \notin reg
      /\ pc[Ln] = "accept" /\ pc' = [pc EXCEPT ![Ln] = "addread"]
      /\ UNCHANGED <<connMap, reg, peer, fault>>
  BY <1>2 DEF Inv, IdsInv, FaultInv, Accept
<1>4. \A f \in Fds : owner[f] # c
  BY <1>3, Distinct DEF Inv, FaultInv, IdsInv
<1>5. IdsInv'
  <2>1. \A f \in Fds : owner'[f] # None => fault[owner'[f]] = "nonblock" \/ sysfd'[owner'[f]] = f
    BY <1>2, <1>3, <1>4, Distinct DEF Inv, IdsInv
  <2>2. \A d \in Conns : /\ sysfd'[d] # None => paFD'[d] = sysfd'[d]
                         /\ paFD'[d] # None => d \notin backlog' /\ peer[d] # "away"
    BY <1>2, <1>3, Distinct DEF Inv, IdsInv
  <2>3. \A d \in backlog' : peer[d] # "away"
    BY <1>2 DEF Inv, IdsInv
  <2> QED BY <1>3, <2>1, <2>2, <2>3 DEF IdsInv
<1>6. HoldInv'
  <2>1. \A w \in Workers : w # Ln => cur'[w] = cur[w] /\ cur[w] # c /\ pc'[w] = pc[w]
    BY <1>2, <1>3, Distinct DEF Inv, FdCurInv
  <2>2. /\ cur'[Ln] = c /\ pc'[Ln] = "addread" /\ sysfd'[c] = fd /\ owner'[fd] = c
    BY <1>2, <1>3
  <2>3. \A d \in Conns : d # c => sysfd'[d] = sysfd[d]
    BY <1>2
  <2>4. \A f \in Fds : owner[f] # None => owner'[f] = owner[f]
    BY <1>2
  <2> SUFFICES ASSUME NEW w \in Workers
               PROVE  /\ pc'[w] \in FreeLabels <=> cur'[w] = None
                      /\ pc'[w] \in OpenLabels => sysfd'[cur'[w]] # None /\ owner'[sysfd'[cur'[w]]] = cur'[w]
                      /\ pc'[w] = "addread"    => sysfd'[cur'[w]] \notin reg /\ fault[cur'[w]] = "none"
                      /\ pc'[w] \in RegLabels  => sysfd'[cur'[w]] \in reg \/ fault[cur'[w]] = "addread"
                      /\ pc'[w] = "c_rel"      => sysfd'[cur'[w]] # None /\ owner'[sysfd'[cur'[w]]] # cur'[w]
    BY <1>3 DEF HoldInv
  <2>5. CASE w = Ln
    BY <1>2, <1>3, <2>2, <2>5, Distinct DEF FreeLabels, OpenLabels, RegLabels
  <2>6. CASE w # Ln /\ cur[w] = None
    BY <2>1, <2>6 DEF Inv, HoldInv, FreeLabels, OpenLabels, RegLabels
  <2>7. CASE w # Ln /\ cur[w] # None
    <3>1. cur[w] \in Conns /\ sysfd'[cur[w]] = sysfd[cur[w]]
      BY <2>1, <2>3, <2>7
    <3>2. /\ pc[w] \in FreeLabels <=> cur[w] = None
          /\ pc[w] \in OpenLabels => sysfd[cur[w]] # None /\ owner[sysfd[cur[w]]] = cur[w]
          /\ pc[w] = "addread"    => sysfd[cur[w]] \notin reg /\ fault[cur[w]] = "none"
          /\ pc[w] \in RegLabels  => sysfd[cur[w]] \in reg \/ fault[cur[w]] = "addread"
          /\ pc[w] = "c_rel"      => sysfd[cur[w]] # None /\ owner[sysfd[cur[w]]] # cur[w]
      BY DEF Inv, HoldInv
    <3>3. sysfd[cur[w]] \in Fds \cup {None}
      BY <3>1
    <3>4. sysfd[cur[w]] \in Fds => owner'[sysfd[cur[w]]] \in {owner[sysfd[cur[w]]], c}
      BY <1>2
    <3>5. sysfd[cur[w]] \in Fds /\ owner[sysfd[cur[w]]] = cur[w] => owner'[sysfd[cur[w]]] = cur[w]
      BY <2>4, <2>7
    <3> QED BY <2>1, <2>7, <3>1, <3>2, <3>3, <3>4, <3>5
  <2> QED BY <2>5, <2>6, <2>7
<1>7. MapInv'
  BY Distinct DEF Inv, Accept, MapInv, IdsInv
<1>8. FdCurInv'
  BY Distinct DEF Inv, Accept, FdCurInv, IdsInv
<1>9. LnCurInv'
  BY Distinct DEF Inv, Accept, LnCurInv, PlaceInv, IdsInv, MapInv, HoldInv, FdLabels,
                     LnLabels, TickLabels, FreeLabels, OpenLabels, RegLabels
<1>10. RestInv'
  BY DEF Inv, Accept, RestInv, HoldInv, FreeLabels, OpenLabels, RegLabels
<1>11. EventInv'
  BY Distinct DEF Inv, Accept, EventInv, IdsInv
<1>12. TickInv'
  BY DEF Inv, Accept, TickInv, IdsInv
<1>13. EndInv'
  BY DEF Inv, Accept, EndInv, IdsInv, Ended
<1> QED BY <1>1, <1>5, <1>6, <1>7, <1>8, <1>9, <1>10, <1>11, <1>12, <1>13 DEF Inv

LEMMA AcceptFailKeeps == ASSUME Inv, TypeInv', FaultInv', AcceptFail PROVE Inv'
<1> USE DEF TypeInv, TypeOK, ids, kernel, peers, app, procs, Workers, Procs
<1>1. /\ PlaceInv' /\ IdsInv' /\ MapInv' /\ FdCurInv' /\ LnCurInv'
      /\ StoredInv' /\ TickInv' /\ EndInv'
  <2>1. PlaceInv' /\ IdsInv' /\ MapInv' /\ FdCurInv' /\ LnCurInv'
    BY DEF Inv, AcceptFail, Step, PlaceInv, IdsInv, MapInv, FdCurInv, LnCurInv, FdLabels,
              LnLabels, TickLabels
  <2>2. StoredInv' /\ TickInv' /\ EndInv'
    BY DEF Inv, AcceptFail, Step, StoredInv, TickInv, EndInv, KeptLabels, Ended
  <2> QED BY <2>1, <2>2
<1>2. /\ pc[Ln] = "accept" /\ pc' = [pc EXCEPT ![Ln] = "idle"] /\ cur' = [cur EXCEPT ![Ln] = None]
      /\ UNCHANGED <<connMap, sysfd, paFD, owner, reg, fault>>
  BY DEF AcceptFail, Step
<1>3. HoldInv'
  BY <1>2 DEF Inv, HoldInv, FreeLabels, OpenLabels, RegLabels
<1>4. RestInv' /\ EventInv'
  BY <1>2, Distinct DEF Inv, RestInv, HoldInv, EventInv, FreeLabels
<1> QED BY <1>1, <1>3, <1>4 DEF Inv

(* A descriptor nobody knows of: no conn, no registration, no key.          *)
LEMMA NonblockFailKeeps ==
  ASSUME Inv, TypeInv', FaultInv', NonblockFail
  PROVE  Inv'
<1> USE DEF TypeInv, TypeOK, ids, kernel, peers, app, procs, Workers, Procs
<1>1. /\ PlaceInv' /\ IdsInv' /\ MapInv' /\ FdCurInv' /\ LnCurInv'
      /\ StoredInv' /\ TickInv' /\ EndInv'
  BY DEF Inv, NonblockFail, Step, PlaceInv, IdsInv, MapInv, FdCurInv, LnCurInv,
            StoredInv, TickInv, EndInv, FdLabels, LnLabels,
            TickLabels, KeptLabels, Ended
<1>2. PICK c \in backlog, fd \in {f \in Fds : owner[f] = None} :
        /\ owner' = [owner EXCEPT ![fd] = c]
        /\ fault' = [fault EXCEPT ![c] = "nonblock"]
  BY DEF NonblockFail
<1>3. /\ c \in Conns /\ paFD[c] = None /\ sysfd[c] = None /\ pc[Ln] = "accept"
      /\ pc' = [pc EXCEPT ![Ln] = "idle"] /\ cur' = [cur EXCEPT ![Ln] = None]
      /\ UNCHANGED <<connMap, sysfd, paFD, reg>>
  BY <1>2, Distinct DEF Inv, NonblockFail, Step, IdsInv
<1>4. \A f \in Fds : owner[f] # c
  BY <1>3, Distinct DEF Inv, IdsInv, FaultInv
<1>5. HoldInv'
  BY <1>2, <1>3, <1>4, Distinct DEF Inv, HoldInv, FreeLabels, OpenLabels, RegLabels
<1>6. RestInv'
  BY <1>2, <1>3, <1>4, Distinct DEF Inv, RestInv, HoldInv, FreeLabels
<1>7. EventInv'
  BY <1>2, <1>3, <1>4, Distinct DEF Inv, EventInv
<1> QED BY <1>1, <1>5, <1>6, <1>7 DEF Inv

LEMMA AddReadKeeps == ASSUME Inv, TypeInv', FaultInv', AddRead PROVE Inv'
<1> USE DEF TypeInv, TypeOK, ids, kernel, peers, app, procs, Workers, Procs
<1>1. /\ PlaceInv' /\ IdsInv' /\ MapInv' /\ FdCurInv' /\ LnCurInv'
      /\ StoredInv' /\ EventInv' /\ TickInv' /\ EndInv'
  <2>1. PlaceInv' /\ IdsInv' /\ MapInv' /\ FdCurInv' /\ LnCurInv' /\ EventInv'
    BY DEF Inv, AddRead, Step, PlaceInv, IdsInv, MapInv, FdCurInv, LnCurInv, EventInv,
              FdLabels, LnLabels, TickLabels
  <2>2. StoredInv' /\ TickInv' /\ EndInv'
    BY DEF Inv, AddRead, Step, StoredInv, TickInv, EndInv, KeptLabels, Ended
  <2> QED BY <2>1, <2>2
<1>2. /\ pc[Ln] = "addread" /\ pc' = [pc EXCEPT ![Ln] = "onopen"] /\ cur' = cur
      /\ cur[Ln] \in Conns /\ sysfd[cur[Ln]] # None /\ owner[sysfd[cur[Ln]]] = cur[Ln]
      /\ UNCHANGED <<connMap, sysfd, paFD, owner, fault>>
  BY DEF Inv, AddRead, Step, CurInv, HoldInv, ConnLabels, OpenLabels
<1>3. reg' = reg \cup {sysfd[cur[Ln]]}
  BY <1>2, Distinct DEF AddRead, Sock
<1>4. \A w \in Workers : w # Ln => pc[w] # "addread"
  BY DEF Inv, PlaceInv, FdLabels
<1>5. HoldInv'
  BY <1>2, <1>3, <1>4 DEF Inv, HoldInv, FreeLabels, OpenLabels, RegLabels
<1>6. RestInv'
  BY <1>2, <1>3 DEF Inv, RestInv
<1> QED BY <1>1, <1>5, <1>6 DEF Inv

(* The conn is as it was, but nobody will report its descriptor.            *)
LEMMA AddReadFailKeeps ==
  ASSUME Inv, TypeInv', FaultInv', AddReadFail
  PROVE  Inv'
<1> USE DEF TypeInv, TypeOK, ids, kernel, peers, app, procs, Workers, Procs
<1>1. /\ PlaceInv' /\ IdsInv' /\ MapInv' /\ FdCurInv' /\ LnCurInv'
      /\ StoredInv' /\ TickInv' /\ EndInv'
  <2>1. PlaceInv' /\ MapInv' /\ FdCurInv' /\ LnCurInv'
    BY DEF Inv, AddReadFail, Step, PlaceInv, MapInv, FdCurInv, LnCurInv, FdLabels, LnLabels,
              TickLabels
  <2>2. IdsInv'
    <3>1. cur[Ln] \in Conns /\ paFD[cur[Ln]] # None
      BY Distinct DEF Inv, AddReadFail, Step, CurInv, LnCurInv, ConnLabels
    <3>2. fault[cur[Ln]] # "nonblock"
      BY <3>1 DEF Inv, FaultInv
    <3> QED BY <3>1, <3>2 DEF Inv, AddReadFail, IdsInv
  <2>3. StoredInv' /\ TickInv' /\ EndInv'
    BY DEF Inv, AddReadFail, Step, StoredInv, TickInv, EndInv, KeptLabels, Ended
  <2> QED BY <2>1, <2>2, <2>3
<1>2. /\ pc[Ln] = "addread" /\ pc' = [pc EXCEPT ![Ln] = "onopen"] /\ cur' = cur
      /\ fault' = [fault EXCEPT ![cur[Ln]] = "addread"] /\ cur[Ln] \in Conns
      /\ UNCHANGED <<connMap, sysfd, paFD, owner, reg>>
  BY DEF Inv, AddReadFail, Step, CurInv, ConnLabels
<1>3. \A w \in Workers : w # Ln => pc[w] # "addread"
  BY DEF Inv, PlaceInv, FdLabels
<1>4. HoldInv'
  BY <1>2, <1>3 DEF Inv, HoldInv, FreeLabels, OpenLabels, RegLabels
<1>5. RestInv'
  BY <1>2 DEF Inv, RestInv
<1>6. EventInv'
  BY <1>2 DEF Inv, EventInv
<1> QED BY <1>1, <1>4, <1>5, <1>6 DEF Inv

LEMMA OnOpenKeeps == ASSUME Inv, TypeInv', FaultInv', OnOpen PROVE Inv'
<1> USE DEF TypeInv, TypeOK, ids, kernel, peers, app, procs, Workers, Procs
<1>1. /\ PlaceInv' /\ IdsInv' /\ MapInv' /\ FdCurInv' /\ LnCurInv' /\ HoldInv'
      /\ RestInv' /\ StoredInv' /\ EventInv' /\ TickInv'
  BY DEF Inv, OnOpen, Step, PlaceInv, IdsInv, MapInv, FdCurInv, LnCurInv, HoldInv,
            RestInv, StoredInv, EventInv, TickInv, FdLabels, LnLabels, TickLabels,
            FreeLabels, OpenLabels, RegLabels, KeptLabels
<1>2. EndInv'
  BY DEF Inv, OnOpen, Step, EndInv, IdsInv, HoldInv, Ended, FreeLabels, OpenLabels,
            RegLabels
<1> QED BY <1>1, <1>2 DEF Inv

(* A key left behind by a conn that a handler closed is overwritten here.   *)
LEMMA AddConnKeeps == ASSUME Inv, TypeInv', FaultInv', AddConn PROVE Inv'
<1> USE DEF TypeInv, TypeOK, ids, kernel, peers, app, procs, Workers, Procs
<1>1. /\ PlaceInv' /\ IdsInv' /\ FdCurInv' /\ LnCurInv' /\ HoldInv' /\ EventInv'
      /\ TickInv' /\ EndInv'
  <2>1. PlaceInv' /\ IdsInv' /\ FdCurInv' /\ LnCurInv'
    BY DEF Inv, AddConn, Step, MapFree, PlaceInv, IdsInv, FdCurInv, LnCurInv, FdLabels,
              LnLabels, TickLabels
  <2>2. HoldInv'
    BY DEF Inv, AddConn, Step, HoldInv, FreeLabels, OpenLabels, RegLabels
  <2>3. EventInv' /\ TickInv' /\ EndInv'
    BY Distinct DEF Inv, AddConn, Step, MapFree, EventInv, TickInv, EndInv, Ended
  <2> QED BY <2>1, <2>2, <2>3
<1>2. MapInv'
  BY DEF Inv, AddConn, Step, MapFree, MapInv, IdsInv, HoldInv, FreeLabels, OpenLabels,
            RegLabels
<1>3. RestInv'
  BY DEF Inv, AddConn, Step, MapFree, RestInv, IdsInv, HoldInv, FreeLabels, OpenLabels,
            RegLabels
<1>4. StoredInv'
  BY DEF Inv, AddConn, Step, MapFree, StoredInv, IdsInv, FdCurInv, HoldInv, KeptLabels,
            FreeLabels, OpenLabels, RegLabels
<1> QED BY <1>1, <1>2, <1>3, <1>4 DEF Inv

LEMMA TickStartKeeps == ASSUME Inv, TypeInv', FaultInv', TickStart PROVE Inv'
<1> USE DEF TypeInv, TypeOK, ids, kernel, peers, app, procs, Workers, Procs
<1>1. /\ IdsInv' /\ MapInv' /\ FdCurInv' /\ LnCurInv' /\ RestInv' /\ StoredInv'
      /\ EventInv' /\ TickInv' /\ EndInv'
  BY DEF Inv, TickStart, Step, IdsInv, MapInv, FdCurInv, LnCurInv, RestInv, StoredInv,
            EventInv, TickInv, EndInv, KeptLabels, Ended
<1>2. PlaceInv'
  BY Distinct DEF Inv, TickStart, Step, PlaceInv, FdLabels, LnLabels, TickLabels
<1>3. HoldInv'
  BY Distinct DEF Inv, TickStart, Step, HoldInv, FreeLabels, OpenLabels, RegLabels
<1> QED BY <1>1, <1>2, <1>3 DEF Inv

LEMMA TickVisitKeeps == ASSUME Inv, TypeInv', FaultInv', TickVisit PROVE Inv'
<1> USE DEF TypeInv, TypeOK, ids, kernel, peers, app, procs, Workers, Procs
<1>1. PlaceInv' /\ IdsInv' /\ MapInv' /\ StoredInv' /\ EndInv'
  BY DEF Inv, TickVisit, PlaceInv, IdsInv, MapInv, StoredInv, EndInv, FdLabels,
            LnLabels, TickLabels, KeptLabels, Ended
<1>2. FdCurInv'
  BY Distinct DEF Inv, TickVisit, FdCurInv
<1>3. LnCurInv'
  BY Distinct DEF Inv, TickVisit, LnCurInv
<1>4. HoldInv'
  BY Distinct DEF Inv, TickVisit, HoldInv, FreeLabels, OpenLabels, RegLabels
<1>5. RestInv'
  BY Distinct DEF Inv, TickVisit, RestInv
<1>6. EventInv'
  BY Distinct DEF Inv, TickVisit, EventInv
<1>7. TickInv'
  BY Distinct DEF Inv, TickVisit, TickInv, MapInv
<1> QED BY <1>1, <1>2, <1>3, <1>4, <1>5, <1>6, <1>7 DEF Inv

(* A dead conn's key is not that of a conn at rest.                         *)
LEMMA TickDeleteKeeps == ASSUME Inv, TypeInv', FaultInv', TickDelete PROVE Inv'
<1> USE DEF TypeInv, TypeOK, ids, kernel, peers, app, procs, Workers, Procs
<1>1. /\ PlaceInv' /\ IdsInv' /\ MapInv' /\ FdCurInv' /\ LnCurInv' /\ EventInv'
      /\ TickInv' /\ EndInv'
  BY DEF Inv, TickDelete, PlaceInv, IdsInv, MapInv, FdCurInv, LnCurInv, EventInv,
            TickInv, EndInv, FdLabels, LnLabels, TickLabels, Ended
<1>2. HoldInv'
  BY Distinct DEF Inv, TickDelete, HoldInv, FreeLabels, OpenLabels, RegLabels
<1>3. RestInv'
  BY Distinct DEF Inv, TickDelete, RestInv, IdsInv, TickInv
<1>4. StoredInv'
  BY DEF Inv, TickDelete, StoredInv, HoldInv, TickInv, KeptLabels, FreeLabels,
            OpenLabels, RegLabels
<1> QED BY <1>1, <1>2, <1>3, <1>4 DEF Inv

LEMMA TickEndKeeps == ASSUME Inv, TypeInv', FaultInv', TickEnd PROVE Inv'
<1> USE DEF TypeInv, TypeOK, ids, kernel, peers, app, procs, Workers, Procs
<1>1. /\ PlaceInv' /\ IdsInv' /\ MapInv' /\ FdCurInv' /\ LnCurInv'
      /\ StoredInv' /\ EventInv' /\ TickInv' /\ EndInv'
  BY Distinct DEF Inv, TickEnd, Step, PlaceInv, IdsInv, MapInv, FdCurInv, LnCurInv,
            StoredInv, EventInv, TickInv, EndInv, FdLabels, LnLabels, TickLabels,
            KeptLabels, Ended
<1>2. HoldInv'
  BY Distinct DEF Inv, TickEnd, Step, HoldInv, FreeLabels, OpenLabels, RegLabels
<1>3. RestInv'
  BY Distinct DEF Inv, TickEnd, Step, RestInv
<1> QED BY <1>1, <1>2, <1>3 DEF Inv

LEMMA PeerConnectKeeps ==
  ASSUME Inv, TypeInv', FaultInv', NEW c \in Conns, PeerConnect(c)
  PROVE  Inv'
<1> USE DEF TypeInv, TypeOK, ids, kernel, peers, app, procs, Workers, Procs
<1>1. /\ PlaceInv' /\ IdsInv' /\ MapInv' /\ FdCurInv' /\ LnCurInv' /\ HoldInv'
      /\ RestInv' /\ StoredInv' /\ EventInv' /\ TickInv' /\ EndInv'
  BY DEF Inv, PeerConnect, PlaceInv, IdsInv, MapInv, FdCurInv, LnCurInv, HoldInv,
            RestInv, StoredInv, EventInv, TickInv, EndInv, FdLabels, LnLabels,
            TickLabels, FreeLabels, OpenLabels, RegLabels, KeptLabels, Ended
<1> QED BY <1>1 DEF Inv

LEMMA PeerSendKeeps == ASSUME Inv, TypeInv', FaultInv', NEW c \in Conns, PeerSend(c) PROVE Inv'
<1> USE DEF TypeInv, TypeOK, ids, kernel, peers, app, procs, Workers, Procs
<1>1. /\ PlaceInv' /\ IdsInv' /\ MapInv' /\ FdCurInv' /\ LnCurInv' /\ HoldInv'
      /\ RestInv' /\ StoredInv' /\ EventInv' /\ TickInv' /\ EndInv'
  BY DEF Inv, PeerSend, PlaceInv, IdsInv, MapInv, FdCurInv, LnCurInv, HoldInv, RestInv,
            StoredInv, EventInv, TickInv, EndInv, FdLabels, LnLabels, TickLabels,
            FreeLabels, OpenLabels, RegLabels, KeptLabels, Ended
<1> QED BY <1>1 DEF Inv

LEMMA PeerGoneKeeps == ASSUME Inv, TypeInv', FaultInv', NEW c \in Conns, PeerGone(c) PROVE Inv'
<1> USE DEF TypeInv, TypeOK, ids, kernel, peers, app, procs, Workers, Procs
<1>1. /\ PlaceInv' /\ IdsInv' /\ MapInv' /\ FdCurInv' /\ LnCurInv' /\ HoldInv'
      /\ RestInv' /\ StoredInv' /\ EventInv' /\ TickInv' /\ EndInv'
  BY DEF Inv, PeerGone, PlaceInv, IdsInv, MapInv, FdCurInv, LnCurInv, HoldInv, RestInv,
            StoredInv, EventInv, TickInv, EndInv, FdLabels, LnLabels, TickLabels,
            FreeLabels, OpenLabels, RegLabels, KeptLabels, Ended
<1> QED BY <1>1 DEF Inv

-----------------------------------------------------------------------------
(* Registrations only go, but for the listener's steps; a number stays with *)
(* its socket as long as it is registered.                                  *)
LEMMA FaultsStay ==
  ASSUME Inv, TypeInv', UNCHANGED <<paFD, fault>>,
         \A fd \in reg' : fd \in reg /\ owner'[fd] = owner[fd],
         \A c \in Conns : (peer'[c] = "away" => peer[c] = "away") /\
                          (c \in backlog' => c \in backlog \/ peer[c] = "away")
  PROVE  FaultInv'
BY DEF Inv, FaultInv, TypeInv, TypeOK

LEMMA FaultKeeps == ASSUME Inv, TypeInv', [Next]_vars PROVE FaultInv'
<1> USE DEF ids, kernel, peers, app, procs
<1>1. CASE Poll \/ Tick \/ (\E fd \in Fds : Worker(fd)) \/ (\E u \in Users : UserClose(u))
  <2>1. UNCHANGED <<paFD, fault, reg, owner, backlog, peer>>
    BY <1>1 DEF Poll, StartWorkers, Tick, TickStart, TickVisit, TickDelete, TickEnd, Worker,
       GetConn, FlushFail, EventRead, EventReadFail, Receive, Traffic, OnClose, DelConn, UserClose
  <2> QED BY <2>1, FaultsStay
<1>2. ASSUME NEW p \in Procs, CloseStep(p) PROVE FaultInv'
  <2>1. UNCHANGED <<paFD, fault, backlog, peer>>
    BY <1>2 DEF CloseStep, CloseDelete, CloseFd, Release
  <2>2. \A fd \in reg' : fd \in reg /\ owner'[fd] = owner[fd]
    BY <1>2 DEF CloseStep, CloseDelete, CloseFd, Release, Inv, TypeInv, TypeOK
  <2> QED BY <2>1, <2>2, FaultsStay
<1>3. ASSUME NEW c \in Conns, PeerConnect(c) \/ PeerSend(c) \/ PeerGone(c) PROVE FaultInv'
  <2>1. UNCHANGED <<paFD, fault, reg, owner>>
    BY <1>3 DEF PeerConnect, PeerSend, PeerGone
  <2>2. \A d \in Conns : (peer'[d] = "away" => peer[d] = "away") /\
                         (d \in backlog' => d \in backlog \/ peer[d] = "away")
    BY <1>3 DEF PeerConnect, PeerSend, PeerGone, Inv, TypeInv, TypeOK
  <2> QED BY <2>1, <2>2, FaultsStay
<1>4. CASE AcceptFail \/ OnOpen \/ AddConn
  <2>1. UNCHANGED <<paFD, fault, reg, owner, peer>> /\ backlog' \subseteq backlog
    BY <1>4 DEF AcceptFail, OnOpen, AddConn
  <2> QED BY <2>1, FaultsStay
<1>5. CASE Accept
  <2>1. PICK c \in backlog, fd \in {f \in Fds : owner[f] = None} :
          /\ backlog' = backlog \ {c} /\ owner' = [owner EXCEPT ![fd] = c]
          /\ paFD' = [paFD EXCEPT ![c] = fd]
    BY <1>5 DEF Accept
  <2>2. UNCHANGED <<fault, reg, peer>> /\ c \in Conns
    BY <1>5 DEF Accept, Inv, TypeInv, TypeOK
  <2>3. fault[c] # "nonblock" /\ fd \notin reg
    BY <2>1, <2>2 DEF Inv, FaultInv, TypeInv, TypeOK
  <2> QED BY <2>1, <2>2, <2>3, Distinct DEF Inv, FaultInv, TypeInv, TypeOK
<1>6. CASE NonblockFail
  <2>1. PICK c \in backlog, fd \in {f \in Fds : owner[f] = None} :
          /\ backlog' = backlog \ {c} /\ owner' = [owner EXCEPT ![fd] = c]
          /\ fault' = [fault EXCEPT ![c] = "nonblock"]
    BY <1>6 DEF NonblockFail
  <2>2. UNCHANGED <<paFD, sysfd, reg, peer>> /\ c \in Conns
    BY <1>6 DEF NonblockFail, Inv, TypeInv, TypeOK
  <2>3. paFD[c] = None /\ peer[c] # "away" /\ fd \notin reg
    BY <2>1, <2>2 DEF Inv, IdsInv, TypeInv, TypeOK
  <2>4. \A f \in reg : owner[f] # c
    BY <2>1, <2>2, <2>3, Distinct DEF Inv, IdsInv, FaultInv, TypeInv, TypeOK
  <2> QED BY <2>1, <2>2, <2>3, <2>4 DEF Inv, FaultInv, TypeInv, TypeOK
<1>7. CASE AddRead \/ AddReadFail
  <2>1. /\ Ln \in Workers /\ pc[Ln] = "addread" /\ cur[Ln] \in Conns
        /\ UNCHANGED <<paFD, sysfd, owner, backlog, peer>>
    BY <1>7 DEF AddRead, AddReadFail, Step, Workers, Procs, Inv, TypeInv, CurInv, ConnLabels
  <2>2. /\ sysfd[cur[Ln]] # None /\ owner[sysfd[cur[Ln]]] = cur[Ln]
        /\ sysfd[cur[Ln]] \notin reg /\ fault[cur[Ln]] = "none"
    BY <2>1 DEF Inv, HoldInv, OpenLabels
  <2>3. CASE AddRead
    BY <2>1, <2>2, <2>3 DEF AddRead, Sock, Inv, FaultInv, TypeInv, TypeOK
  <2>4. CASE AddReadFail
    <3>1. fault' = [fault EXCEPT ![cur[Ln]] = "addread"] /\ reg' = reg
      BY <2>4 DEF AddReadFail
    <3>2. paFD[cur[Ln]] # None /\ \A f \in reg : owner[f] # cur[Ln]
      BY <2>1, <2>2, Distinct DEF Inv, IdsInv, FaultInv, TypeInv, TypeOK
    <3> QED BY <2>1, <2>2, <3>1, <3>2 DEF Inv, FaultInv, TypeInv, TypeOK
  <2> QED BY <1>7, <2>3, <2>4
<1>8. CASE UNCHANGED vars
  BY <1>8 DEF vars, Inv, FaultInv
<1> QED BY <1>1, <1>2, <1>3, <1>4, <1>5, <1>6, <1>7, <1>8 DEF Next, Listener, Procs

-----------------------------------------------------------------------------
(* The invariant, and what follows from it *)

LEMMA InitInv == Init => Inv
<1> SUFFICES ASSUME Init PROVE Inv
  OBVIOUS
<1>1. TypeInv
  BY InitType
<1>2. PlaceInv /\ HoldInv /\ StoredInv /\ EventInv /\ TickInv
  BY Distinct DEF Init, PlaceInv, HoldInv, StoredInv, EventInv, TickInv, FdLabels, LnLabels,
     TickLabels, FreeLabels, OpenLabels, RegLabels, KeptLabels, Procs, Workers
<1>3. IdsInv /\ FaultInv /\ MapInv /\ FdCurInv /\ LnCurInv /\ RestInv /\ EndInv
  BY Distinct DEF Init, IdsInv, FaultInv, MapInv, FdCurInv, LnCurInv, RestInv, EndInv, Ended,
     Procs, Workers
<1> QED BY <1>1, <1>2, <1>3 DEF Inv

(* Application goroutines stay idle: they have no Close left to call.       *)
LEMMA UsersRest ==
  ASSUME Inv, MaxUserCloses = 0, NEW u \in Users
  PROVE  ~UserClose(u) /\ ~CloseStep(u)
BY DEF Inv, PlaceInv, UserClose, CloseStep, CloseDelete, CloseFd, Release, Step

LEMMA NextKeeps == ASSUME Inv, TypeInv', MaxUserCloses = 0, [Next]_vars PROVE Inv'
<1>0. FaultInv'
  BY FaultKeeps
<1>1. CASE Poll
  BY <1>0, <1>1, PollKeeps
<1>2. CASE Listener
  BY <1>0, <1>2, AcceptKeeps, AcceptFailKeeps, NonblockFailKeeps, AddReadKeeps,
     AddReadFailKeeps, OnOpenKeeps, AddConnKeeps DEF Listener
<1>3. CASE Tick
  BY <1>0, <1>3, TickStartKeeps, TickVisitKeeps, TickDeleteKeeps, TickEndKeeps DEF Tick
<1>4. ASSUME NEW fd \in Fds, Worker(fd) PROVE Inv'
  BY <1>0, <1>4, GetConnKeeps, FlushFailKeeps, EventReadKeeps, EventReadFailKeeps, TrafficKeeps,
     OnCloseKeeps, DelConnKeeps DEF Worker
<1>5. ASSUME NEW w \in Workers, CloseStep(w) PROVE Inv'
  BY <1>0, <1>5, CloseDeleteKeeps, CloseFdKeeps, ReleaseKeeps DEF CloseStep
<1>6. ASSUME NEW c \in Conns, PeerConnect(c) \/ PeerSend(c) \/ PeerGone(c) PROVE Inv'
  BY <1>0, <1>6, PeerConnectKeeps, PeerSendKeeps, PeerGoneKeeps
<1>7. CASE UNCHANGED vars
  <2>1. PlaceInv' /\ IdsInv' /\ MapInv' /\ FdCurInv' /\ LnCurInv' /\ HoldInv'
    BY <1>7 DEF Inv, vars, PlaceInv, IdsInv, MapInv, FdCurInv, LnCurInv, HoldInv
  <2>2. RestInv' /\ StoredInv' /\ EventInv' /\ TickInv' /\ EndInv'
    BY <1>7 DEF Inv, vars, RestInv, StoredInv, EventInv, TickInv, EndInv, Ended
  <2> QED BY <1>0, <2>1, <2>2 DEF Inv
<1> QED BY <1>1, <1>2, <1>3, <1>4, <1>5, <1>6, <1>7, UsersRest DEF Next

LEMMA Invariance == ASSUME MaxUserCloses = 0 PROVE Spec => []Inv
<1>1. Inv /\ TypeInv' /\ [Next]_vars => Inv'
  BY NextKeeps
<1> QED BY <1>1, InitInv, TypeInvariant, PTL DEF Spec

(* Before every poll each socket is registered with epoll, stored in        *)
(* connMatrix under its number and known to its conn, for any number of     *)
(* connections and descriptors, and whichever calls of accept fail: a       *)
(* descriptor whose SetNonblock failed is nobody's, one whose AddRead       *)
(* failed is not registered (engine_unix.go:144-154, 176-210).              *)
THEOREM NothingForgotten == ASSUME MaxUserCloses = 0 PROVE Spec => []QuietConsistent
<1>1. Inv => QuietConsistent
  <2> SUFFICES ASSUME Inv, \A w \in Workers : pc[w] = "idle", NEW fd \in Fds, owner[fd] # None
               PROVE  \/ fault[owner[fd]] = "nonblock"
                      \/ /\ connMap[fd] = owner[fd] /\ sysfd[owner[fd]] = fd
                         /\ fd \in reg <=> fault[owner[fd]] = "none"
    BY DEF QuietConsistent
  <2>1. cur[fd] = None /\ cur[Ln] = None
    BY DEF Inv, HoldInv, FreeLabels, Workers
  <2>2. owner[fd] \in Conns /\ fault[owner[fd]] \in {"none", "nonblock", "addread"}
    BY DEF Inv, TypeInv, TypeOK
  <2> QED BY <2>1, <2>2 DEF Inv, RestInv, IdsInv, FaultInv
<1> QED BY <1>1, Invariance, PTL

(* Although numbers are reused, an event is handled with the conn of the    *)
(* socket that reported it (engine_unix.go:109-128).                        *)
THEOREM EventsReachTheirConn == ASSUME MaxUserCloses = 0 PROVE Spec => []DispatchToOwner
<1>1. Inv => DispatchToOwner
  <2> SUFFICES ASSUME Inv, NEW fd \in Fds, pc[fd] \in {"read", "flush"}
               PROVE  sysfd[cur[fd]] = fd /\ owner[fd] = cur[fd]
    BY DEF DispatchToOwner
  <2>1. fd \in Procs /\ fd \in Workers /\ cur[fd] \in Conns
    BY DEF Inv, TypeInv, CurInv, ConnLabels, Procs, Workers
  <2>2. cur[fd] # None /\ sysfd[cur[fd]] # None /\ owner[sysfd[cur[fd]]] = cur[fd]
    BY <2>1, Distinct DEF Inv, HoldInv, OpenLabels
  <2>3. sysfd[cur[fd]] = fd
    BY <2>1, <2>2 DEF Inv, IdsInv, FdCurInv
  <2> QED BY <2>2, <2>3
<1> QED BY <1>1, Invariance, PTL

(* A goroutine in Close holds the descriptor it is about to give up.        *)
LEMMA ClosesOwn ==
  ASSUME Inv, NEW w \in Workers, pc[w] \in {"c_del", "c_fd"}
  PROVE  /\ owner[sysfd[cur[w]]] = cur[w] /\ paFD[cur[w]] = sysfd[cur[w]]
<1>1. w \in Procs /\ cur[w] \in Conns
  BY DEF Inv, TypeInv, CurInv, ConnLabels, Procs
<1>2. sysfd[cur[w]] # None /\ owner[sysfd[cur[w]]] = cur[w]
  BY DEF Inv, HoldInv, OpenLabels
<1> QED BY <1>1, <1>2 DEF Inv, IdsInv

(* A socket loses its registration or its number only in the Close of its   *)
(* own conn (connection_unix.go:125-134).                                   *)
THEOREM OwnTeardownOnly == ASSUME MaxUserCloses = 0 PROVE Spec => NoForeignTeardown
<1> DEFINE Foreign ==
      \A fd \in Fds : owner[fd] # None /\ (owner'[fd] # owner[fd] \/ fd \in reg \ reg') =>
        \E p \in Procs : pc[p] \in {"c_del", "c_fd"} /\ cur[p] = owner[fd]
<1>1. ASSUME Inv, [Next]_vars PROVE [Foreign]_vars
  <2>0. Workers \subseteq Procs /\ TypeOK
    BY <1>1 DEF Procs, Inv, TypeInv
  <2>1. ASSUME NEW w \in Workers, CloseStep(w) PROVE Foreign
    <3>1. CASE CloseDelete(w)
      BY <1>1, <2>0, <3>1, ClosesOwn DEF CloseDelete, Step
    <3>2. CASE CloseFd(w)
      BY <1>1, <2>0, <3>2, ClosesOwn DEF CloseFd, Step
    <3>3. CASE Release(w)
      BY <3>3 DEF Release, kernel
    <3> QED BY <2>1, <3>1, <3>2, <3>3 DEF CloseStep
  <2>2. CASE Listener
    BY <2>0, <2>2 DEF Listener, Accept, AcceptFail, NonblockFail, AddRead, AddReadFail, OnOpen, AddConn, kernel, TypeOK
  <2>3. CASE owner' = owner /\ reg' = reg
    BY <2>3
  <2>4. Poll \/ Tick \/ (\E fd \in Fds : Worker(fd)) \/ UNCHANGED vars
          \/ (\E c \in Conns : PeerConnect(c) \/ PeerSend(c) \/ PeerGone(c))
        => owner' = owner /\ reg' = reg
    BY DEF Poll, StartWorkers, Tick, TickStart, TickVisit, TickDelete, TickEnd, Worker, GetConn,
       FlushFail, EventRead, EventReadFail, Receive, Traffic, OnClose, DelConn, PeerConnect,
       PeerSend, PeerGone, kernel, vars
  <2> QED BY <1>1, <2>1, <2>2, <2>3, <2>4, UsersRest DEF Next
<1> QED BY <1>1, Invariance, PTL DEF Spec, NoForeignTeardown

(* OnClose fires at most once per connection (engine_unix.go:133, 147, 196).*)
THEOREM OnCloseAtMostOnce == ASSUME MaxUserCloses = 0 PROVE Spec => OnCloseOnce
<1> DEFINE Once == \A c \in Conns : closes'[c] # closes[c] => closes[c] = 0
<1>1. ASSUME Inv, [Next]_vars PROVE [Once]_vars
  <2>0. TypeOK
    BY <1>1 DEF Inv, TypeInv
  <2>1. ASSUME NEW w \in Workers, pc[w] \in {"onclose", "onopen"}
        PROVE  ~Ended(cur[w])
    <3>1. cur[w] # None /\ cur[w] \in Conns /\ sysfd[cur[w]] \in Fds /\ owner[sysfd[cur[w]]] = cur[w]
      BY <1>1, <2>0, <2>1, Distinct
         DEF Inv, HoldInv, TypeInv, TypeOK, CurInv, ConnLabels, OpenLabels, FreeLabels, Procs
    <3>2. \A v \in Workers : cur[v] = cur[w] => v = w
      BY <1>1, <3>1 DEF Inv, FdCurInv, LnCurInv, Workers
    <3> QED BY <1>1, <2>1, <3>1, <3>2 DEF Inv, EndInv
  <2>2. ASSUME NEW fd \in Fds, OnClose(fd) PROVE Once
    BY <2>0, <2>1, <2>2 DEF OnClose, Step, TypeOK, Ended, Workers
  <2>3. CASE OnOpen
    BY <2>0, <2>1, <2>3 DEF OnOpen, Step, TypeOK, Ended, Workers
  <2>4. CASE closes' = closes
    BY <2>4
  <2>5. ASSUME NEW fd \in Fds, Worker(fd), ~OnClose(fd) PROVE closes' = closes
    BY <2>5 DEF Worker, GetConn, FlushFail, EventRead, EventReadFail, Receive, Traffic, DelConn, app
  <2>6. ASSUME NEW w \in Workers, CloseStep(w) PROVE closes' = closes
    BY <2>6 DEF CloseStep, CloseDelete, CloseFd, Release, app
  <2>7. Listener => OnOpen \/ closes' = closes
    BY DEF Listener, Accept, AcceptFail, NonblockFail, AddRead, AddReadFail, AddConn, app
  <2>8. Poll \/ Tick \/ UNCHANGED vars
          \/ (\E c \in Conns : PeerConnect(c) \/ PeerSend(c) \/ PeerGone(c)) => closes' = closes
    BY DEF Poll, StartWorkers, Tick, TickStart, TickVisit, TickDelete, TickEnd, PeerConnect,
       PeerSend, PeerGone, app, vars
  <2> QED BY <1>1, <2>2, <2>3, <2>4, <2>5, <2>6, <2>7, <2>8, UsersRest DEF Next
<1> QED BY <1>1, Invariance, PTL DEF Spec, OnCloseOnce
=============================================================================

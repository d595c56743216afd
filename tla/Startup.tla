-------------------------------- MODULE Startup --------------------------------
(***************************************************************************)
(* From the options of Server to Polling and back: the options are         *)
(* normalised (engine_unix.go), a listening socket is made system call by  *)
(* system call (listener_unix.go, internal/socket), the poller is opened   *)
(* and the socket registered with it; any call may fail, and what was      *)
(* opened until then is closed or not.  The process may also die and be    *)
(* started again: descriptors are gone then, the file of a unix socket     *)
(* stays.  Once serving, the default poller sizes its event list.          *)
(*                                                                         *)
(* Linux only: with the pollers of other systems Server does not compile.  *)
(***************************************************************************)
EXTENDS Numeric, Sequences

CONSTANTS
  Caps,        \* buffer capacities that are asked for, as sets of one bits; {} is <= 0
  CPUs,        \* runtime.NumCPU()
  MaxOptions,  \* bound on the options that are given
  MaxCrashes,  \* bound on the deaths of the process
  NoAddr

\* Beyond 2^62 CeilToPowerOfTwo panics (math.go:29-31).
ASSUME StartupAssumption == /\ Caps \subseteq SUBSET (0..62) /\ \A c \in Caps : 62 \in c => c = {62}
                            /\ CPUs \in Nat \ {0}
                            /\ MaxOptions \in Nat /\ MaxCrashes \in Nat

VARIABLES
  pc,       \* "options", "listener", "start", "serving" or "stopped"
  asked,    \* the options given
  opts,     \* the options after Server has normalised them
  addr,     \* the protocol, its version and the kind of IP address
  calls,    \* the system calls to come in this stage
  made,     \* those that were made
  failed,   \* the one that failed, "none", or what else stopped Server
  sock,     \* the listening descriptor: "none", "open", "closed" or "twice"
  poller,   \* the epoll descriptor
  file,     \* the file of the unix socket exists
  kept,     \* os.RemoveAll failed to remove it in this run of the process (history)
  size,     \* the event list: eventList.size
  crashes

vars == <<pc, asked, opts, addr, calls, made, failed, sock, poller, file, kept, size, crashes>>

-----------------------------------------------------------------------------
(* Options *)

EventLoopIndexMax == 256

Zero == [Multicore |-> FALSE, NumEventLoop |-> 0, LockOSThread |-> FALSE,
         ReadBufferCap |-> {}, WriteBufferCap |-> {}, ReusePort |-> FALSE, ReuseAddr |-> FALSE,
         TCPNoDelay |-> TRUE, SocketRecvBuffer |-> 0, SocketSendBuffer |-> 0,
         MulticastInterfaceIndex |-> 0]

Values(f) == CASE f \in {"ReadBufferCap", "WriteBufferCap"} -> Caps
               [] f = "NumEventLoop" -> {-1, 0, 2, 257, 10001}
               [] f \in {"SocketRecvBuffer", "SocketSendBuffer", "MulticastInterfaceIndex"} -> 0..1
               [] OTHER -> BOOLEAN

\* The normal form of a buffer's capacity; 2^10 is ring.DefaultBufferSize, 2^16
\* MaxStreamBufferCap.
BufferCap(b) == IF b = {} THEN {16} ELSE IF b \subseteq 0..9 \/ b = {10} THEN {10} ELSE CeilBits(b)

EventLoops(o) == LET n == IF o.Multicore THEN CPUs ELSE o.NumEventLoop
                 IN  Max({1, Min({n, EventLoopIndexMax})})

Normalized(o) == [o EXCEPT !.ReadBufferCap = BufferCap(@), !.WriteBufferCap = BufferCap(@),
                           !.NumEventLoop = EventLoops(o)]

-----------------------------------------------------------------------------
(* Addresses *)

V4 == {"v4", "mc4"}
V6 == {"v6", "mc6"}
Multicast == {"mc4", "mc6"}

Addresses == [proto : {"tcp", "udp", "unix", "other"}, ver : {"", "4", "6"}, ip : {"", "v4", "v6", "mc4", "mc6"}]

\* net.ResolveTCPAddr, ResolveUDPAddr: an address of the other version is an error.
Resolves(a) == ~(a.ver = "4" /\ a.ip \in V6) /\ ~(a.ver = "6" /\ a.ip \in V4)

determineTCPProto(a) == IF a.ip \in V4 THEN "4" ELSE IF a.ip \in V6 THEN "6" ELSE a.ver
determineUDPProto(a) == determineTCPProto(a)

GetTCPSockAddr(a) == LET v == determineTCPProto(a)
                     IN  [family |-> IF v = "4" THEN "inet" ELSE "inet6", ipv6only |-> v = "6"]
GetUDPSockAddr(a) == LET v == determineUDPProto(a)
                     IN  [family |-> IF v = "4" THEN "inet" ELSE "inet6", ipv6only |-> v = "6"]

-----------------------------------------------------------------------------
(* The system calls of each stage *)

When(c, s) == IF c THEN s ELSE << >>

SetIPv4MulticastMembership(i) ==
  When(i > 0, <<"interface", "multicast_if">>) \o <<"multicast_loop", "membership">>
SetIPv6MulticastMembership(i) ==
  When(i > 0, <<"multicast_if">>) \o <<"multicast_loop", "membership">>
SetMulticastMembership(a, i) ==
  IF determineUDPProto(a) = "4" THEN SetIPv4MulticastMembership(i) ELSE SetIPv6MulticastMembership(i)

SockOpts(a, o) ==
  When(o.ReusePort \/ a.proto = "udp", <<"reuseport">>)
  \o When(o.ReuseAddr, <<"reuseaddr">>)
  \o When(o.TCPNoDelay /\ a.proto = "tcp", <<"nodelay">>)
  \o When(o.SocketRecvBuffer > 0, <<"rcvbuf">>)
  \o When(o.SocketSendBuffer > 0, <<"sndbuf">>)
  \o When(a.proto = "udp" /\ a.ip \in Multicast, SetMulticastMembership(a, o.MulticastInterfaceIndex))

\* Mutant: the options come after bind.
tcpSocketLateOpts(a, o) ==
  <<"socket">> \o When(GetTCPSockAddr(a).ipv6only, <<"v6only">>) \o <<"bind", "listen">> \o SockOpts(a, o)

tcpSocket(a, o) ==
  <<"socket">> \o When(GetTCPSockAddr(a).ipv6only, <<"v6only">>) \o SockOpts(a, o) \o <<"bind", "listen">>

udpSocket(a, o) ==
  <<"socket">> \o When(GetUDPSockAddr(a).ipv6only, <<"v6only">>) \o <<"broadcast">>
  \o SockOpts(a, o) \o <<"bind">>

udsSocket(a, o) == <<"socket">> \o SockOpts(a, o) \o <<"bind", "listen">>

ListenerCalls(a, o) == CASE a.proto = "tcp"  -> tcpSocket(a, o)
                         [] a.proto = "udp"  -> udpSocket(a, o)
                         [] a.proto = "unix" -> udsSocket(a, o)

StartCalls == <<"epoll_create", "nonblock", "add_read">>

-----------------------------------------------------------------------------
(* The event list of Polling *)

InitPollEventsCap == 128
MaxPollEventsCap  == 1024
MinPollEventsCap  == 32

\* Mutant: the size before doubling is compared with the limit.
expandOld(s) == IF s <= MaxPollEventsCap THEN s * 2 ELSE s

expand(s) == IF s * 2 <= MaxPollEventsCap THEN s * 2 ELSE s
shrink(s) == IF s \div 2 >= MinPollEventsCap THEN s \div 2 ELSE s

-----------------------------------------------------------------------------
Init ==
  /\ pc = "options" /\ asked = Zero /\ opts = Zero /\ addr = NoAddr /\ calls = << >> /\ made = << >>
  /\ failed = "none" /\ sock = "none" /\ poller = "none" /\ size = 0 /\ crashes = 0
  /\ file \in BOOLEAN /\ kept = FALSE

\* loadOptions: the next With... function; WithOptions replaces what was set before.
With(f) ==
  /\ pc = "options"
  /\ \E v \in Values(f), base \in {asked, Zero} : asked' = [base EXCEPT ![f] = v]
  /\ Cardinality({g \in DOMAIN Zero : asked'[g] # Zero[g]}) <= MaxOptions
  /\ UNCHANGED <<pc, opts, addr, calls, made, failed, sock, poller, file, kept, size, crashes>>

Close(d) == IF d = "open" THEN "closed" ELSE "twice"
Stop(why) == pc' = "stopped" /\ failed' = why

TooManyEventLoops == asked.LockOSThread /\ asked.NumEventLoop > 10000

\* Server returns before it has opened anything.
Refuse ==
  /\ pc = "options"
  /\ \/ TooManyEventLoops /\ Stop("too_many") /\ UNCHANGED <<opts, addr>>
     \/ /\ ~TooManyEventLoops
        /\ \E a \in Addresses :
             /\ a.proto = "other" \/ (a.proto \in {"tcp", "udp"} /\ ~Resolves(a))
             /\ addr' = a /\ opts' = Normalized(asked) /\ Stop("address")
  /\ UNCHANGED <<asked, calls, made, sock, poller, file, kept, size, crashes>>

\* Mutant: the file of an earlier run is left in the way.
fileKept(a) == file

\* os.RemoveAll of a unix socket's name; other protocols remove nothing.
fileRemoved(a) == file /\ a.proto # "unix"

\* It may fail (a directory without write permission): the error is dropped or logged.
RemoveAll(a) == \/ file' = fileRemoved(a) /\ UNCHANGED kept
                \/ a.proto = "unix" /\ file /\ UNCHANGED file /\ kept' = TRUE

\* Server up to normalize, which removes what has the name of a unix socket.
normalize ==
  /\ pc = "options" /\ ~TooManyEventLoops
  /\ \E a \in Addresses :
       /\ a.proto # "other" /\ (a.proto = "unix" => a.ver = "" /\ a.ip = "") /\ Resolves(a)
       /\ addr' = a /\ opts' = Normalized(asked)
       /\ calls' = ListenerCalls(a, opts')
       /\ RemoveAll(a)
  /\ pc' = "listener" /\ UNCHANGED <<asked, made, failed, sock, poller, size, crashes>>

\* The next call of tcpSocket, udpSocket or udsSocket succeeds, bind only if its name
\* is free; after the last one initListener returns to Start.
ListenerCall ==
  /\ pc = "listener"
  /\ Head(calls) = "bind" /\ addr.proto = "unix" => ~file
  /\ made' = Append(made, Head(calls))
  /\ sock' = IF Head(calls) = "socket" THEN "open" ELSE sock
  /\ file' = (file \/ (Head(calls) = "bind" /\ addr.proto = "unix"))
  /\ IF Tail(calls) = << >> THEN pc' = "start" /\ calls' = StartCalls
     ELSE UNCHANGED pc /\ calls' = Tail(calls)
  /\ UNCHANGED <<asked, opts, addr, failed, poller, kept, size, crashes>>

\* Mutant: the deferred Close is missing.
ListenerCallFailsOpen ==
  /\ pc = "listener" /\ Stop(Head(calls))
  /\ UNCHANGED <<asked, opts, addr, calls, made, sock, poller, file, kept, size, crashes>>

\* It fails: the deferred function closes the socket.
ListenerCallFails ==
  /\ pc = "listener" /\ Stop(Head(calls))
  /\ sock' = IF Head(calls) = "socket" THEN sock ELSE Close(sock)
  /\ UNCHANGED <<asked, opts, addr, calls, made, poller, file, kept, size, crashes>>

\* listener.close
close == sock' = Close(sock) /\ RemoveAll(addr)

StartCall ==
  /\ pc = "start"
  /\ made' = Append(made, Head(calls)) /\ calls' = Tail(calls)
  /\ poller' = IF Head(calls) = "epoll_create" THEN "open" ELSE poller
  /\ IF calls' = << >> THEN pc' = "serving" /\ size' = InitPollEventsCap ELSE UNCHANGED <<pc, size>>
  /\ UNCHANGED <<asked, opts, addr, failed, sock, file, kept, crashes>>

\* Start returns: the listener is closed, a poller that is open already is not.
StartCallFails ==
  /\ pc = "start" /\ Stop(Head(calls)) /\ close
  /\ UNCHANGED <<asked, opts, addr, calls, made, poller, size, crashes>>

\* One round of Polling with n events.
Poll ==
  /\ pc = "serving"
  /\ \E n \in {1, size \div 2, size - 1, size} :
       size' = IF n = size THEN expand(size) ELSE IF n < size \div 2 THEN shrink(size) ELSE size
  /\ UNCHANGED <<pc, asked, opts, addr, calls, made, failed, sock, poller, file, kept, crashes>>

\* epoll_wait fails: ClosePoller, then the deferred close of the listener.
PollingFails ==
  /\ pc = "serving" /\ Stop("epoll_wait") /\ close /\ poller' = Close(poller)
  /\ UNCHANGED <<asked, opts, addr, calls, made, size, crashes>>

\* The process dies and is started again.
Crash ==
  /\ pc \in {"listener", "start", "serving"} /\ crashes < MaxCrashes
  /\ crashes' = crashes + 1
  /\ pc' = "options" /\ asked' = Zero /\ opts' = Zero /\ addr' = NoAddr /\ calls' = << >> /\ made' = << >>
  /\ failed' = "none" /\ sock' = "none" /\ poller' = "none" /\ kept' = FALSE /\ size' = 0
  /\ UNCHANGED file

Next == \/ \E f \in DOMAIN Zero : With(f)
        \/ Refuse \/ normalize \/ ListenerCall \/ ListenerCallFails
        \/ StartCall \/ StartCallFails \/ Poll \/ PollingFails \/ Crash

Spec == Init /\ [][Next]_vars

-----------------------------------------------------------------------------
(* Properties *)

\* c is the least power of two that is not less than n.
IsLeastPower(c, n) ==
  \E k \in 0..63 : /\ c = {k}
                   /\ n \subseteq 0..(k - 1) \/ n = {k}                  \* 2^k >= n
                   /\ k = 0 \/ ~(n \subseteq 0..(k - 2) \/ n = {k - 1})  \* 2^(k-1) < n

\* c >= n: the highest bit in which they differ, if any, is one of c.
NotLess(c, n) == n \subseteq c \/ \E k \in c \ n : \A j \in n : j > k => j \in c

\* From 2^10, ring.DefaultBufferSize, up to 2^32, as far as the shifts of
\* CeilToPowerOfTwo, by 31 in all, reach.
InReach(n) == (\E k \in n : k >= 10) /\ (n \subseteq 0..31 \/ n = {32})

\* "ReadBufferCap will always be converted to the least power of two integer value
\* greater than or equal to its real amount" (options.go:70-71, 78-79): nobody gets a
\* smaller buffer than asked for, however large, and from 2^10 to 2^32 everybody the
\* least power of two (engine_unix.go:72-89, math.go:33-45).  Outside, the code does
\* not do what options.go says.  A capacity that is not positive becomes 2^16.
NormalizedCaps ==
  addr # NoAddr =>
    \A f \in {"ReadBufferCap", "WriteBufferCap"} :
      IF asked[f] = {} THEN opts[f] = {16}
      ELSE /\ NotLess(opts[f], asked[f])
           /\ InReach(asked[f]) => IsLeastPower(opts[f], asked[f])

\* Whichever call fails, Server leaves no descriptor open, closes none twice and
\* leaves no file behind.  The three exceptions are what the code does: the poller
\* leaks when it is open and the listener cannot be registered
\* (engine_unix.go:223-231); the file stays when a unix socket was bound and cannot
\* listen (unix_socket.go:80-85), and when it cannot be removed.
NothingLeft ==
  pc = "stopped" =>
    /\ sock \in {"none", "closed"}
    /\ poller # "twice" /\ (poller = "open" => failed \in {"nonblock", "add_read"})
    /\ addr # NoAddr /\ file /\ addr.proto = "unix" => failed = "listen" \/ kept

Wanted == {g \in {"reuseport", "reuseaddr", "nodelay", "rcvbuf", "sndbuf", "membership", "multicast_if", "v6only"} :
  CASE g = "reuseport"    -> asked.ReusePort \/ addr.proto = "udp"
    [] g = "reuseaddr"    -> asked.ReuseAddr
    [] g = "nodelay"      -> asked.TCPNoDelay /\ addr.proto = "tcp"
    [] g = "rcvbuf"       -> asked.SocketRecvBuffer # 0
    [] g = "sndbuf"       -> asked.SocketSendBuffer # 0
    [] g = "membership"   -> addr.proto = "udp" /\ addr.ip \in Multicast
    [] g = "multicast_if" -> addr.proto = "udp" /\ addr.ip \in Multicast /\ asked.MulticastInterfaceIndex # 0
    [] g = "v6only"       -> addr.proto \in {"tcp", "udp"} /\ (addr.ip \in V6 \/ addr.ver = "6")}

\* What was asked for is in force when the socket gets its address, and nothing
\* else: setting SO_REUSEPORT or IPV6_V6ONLY after bind has no effect
\* (tcp_socket.go:111-128, listener_unix.go:72-99).
OptionsBeforeBind ==
  pc \in {"start", "serving"} =>
    LET at == CHOOSE i \in 1..Len(made) : made[i] = "bind"
        set == {made[i] : i \in 1..at}
    IN  Wanted = set \ {"socket", "broadcast", "interface", "multicast_loop", "bind"}

\* A unix socket never finds its own file in the way, whatever the process that
\* died before left behind, unless it could not be removed (listener_unix.go:50,
\* 64-66).
PathFree == pc = "listener" /\ Head(calls) = "bind" /\ addr.proto = "unix" => ~file \/ kept

\* The event list stays within its limits, whatever the number of events
\* (epoll_events.go:52-64, epoll_default_poller.go:81-85).
ListWithinLimits == pc = "serving" => size \in MinPollEventsCap..MaxPollEventsCap
=============================================================================

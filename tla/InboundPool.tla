----------------------------- MODULE InboundPool ------------------------------
(***************************************************************************)
(* Decoded messages against the pool of rings.  Connections of the server  *)
(* (engine_unix.go) and connections with a goroutine of their own          *)
(* (client.go, engine_windows.go) read into rings of one pool; DefaultDecoder *)
(* hands out slices of the ring it has just discarded them from.           *)
(* A message is one slot of a ring; rings do not wrap here.                *)
(***************************************************************************)
EXTENDS Naturals, Sequences

CONSTANTS
  Servers,   \* connections of the server: one event goroutine each
  Clients,   \* connections read by a process loop
  Rings, None,
  MaxMsgs    \* bound on the messages of a peer

Conns == Servers \cup Clients

VARIABLES
  pc,        \* "idle", "decode", "traffic" or "closed"
  rb,        \* inboundBuffer.rb, or None
  mem, r, w, \* per ring: its slots, the next to read, the next to write
  slice,     \* what OnTraffic was given: [ring, at, msg], or None
  sent,      \* messages each peer has sent
  unread     \* those still in the socket

vars == <<pc, rb, mem, r, w, slice, sent, unread>>

Init ==
  /\ pc = [c \in Conns |-> "idle"] /\ rb = [c \in Conns |-> None]
  /\ mem = [g \in Rings |-> [i \in 1..MaxMsgs |-> None]]
  /\ r = [g \in Rings |-> 0] /\ w = [g \in Rings |-> 0]
  /\ slice = [c \in Conns |-> None]
  /\ sent = [c \in Conns |-> 0] /\ unread = [c \in Conns |-> 0]

PeerSend(c) ==
  /\ sent[c] < MaxMsgs
  /\ sent' = [sent EXCEPT ![c] = @ + 1] /\ unread' = [unread EXCEPT ![c] = @ + 1]
  /\ UNCHANGED <<pc, rb, mem, r, w, slice>>

\* Get: a ring that is in the pool or new, so any that no connection has.
Get(c) == IF rb[c] # None THEN {rb[c]} ELSE {g \in Rings : \A d \in Conns : rb[d] # g}

\* inboundBuffer.Write of the next k messages.
Store(c, k) ==
  \E g \in Get(c) :
    /\ rb' = [rb EXCEPT ![c] = g]
    /\ mem' = [mem EXCEPT ![g] = [i \in 1..MaxMsgs |->
                 IF i \in w[g] + 1..w[g] + k THEN <<c, sent[c] - unread[c] + i - w[g]>> ELSE @[i]]]
    /\ w' = [w EXCEPT ![g] = @ + k]
    /\ unread' = [unread EXCEPT ![c] = @ - k]
    /\ pc' = [pc EXCEPT ![c] = "decode"]
    /\ UNCHANGED <<r, slice, sent>>

\* conn.eventRead: until EAGAIN.
EventRead(c) == c \in Servers /\ pc[c] = "idle" /\ unread[c] > 0 /\ Store(c, unread[c])

\* One c.Read of Client.process.
ClientRead(c) == c \in Clients /\ pc[c] = "idle" /\ \E k \in 1..unread[c] : Store(c, k)

\* Reset, and Put of the ring when the last message is out of it.
done(c) == /\ r' = [r EXCEPT ![rb[c]] = 0] /\ w' = [w EXCEPT ![rb[c]] = 0]
           /\ rb' = [rb EXCEPT ![c] = None]

\* Decode: the slices are taken by Peek, then the bytes are discarded.
Decode(c) ==
  /\ pc[c] = "decode" /\ rb[c] # None
  /\ slice' = [slice EXCEPT ![c] = [ring |-> rb[c], at |-> r[rb[c]] + 1, msg |-> mem[rb[c]][r[rb[c]] + 1]]]
  /\ pc' = [pc EXCEPT ![c] = "traffic"]
  /\ IF r[rb[c]] + 1 = w[rb[c]] THEN done(c)
     ELSE r' = [r EXCEPT ![rb[c]] = @ + 1] /\ UNCHANGED <<rb, w>>
  /\ UNCHANGED <<mem, sent, unread>>

\* ErrShortBuffer: nothing complete is left.
DecodeShort(c) == /\ pc[c] = "decode" /\ rb[c] = None
                  /\ pc' = [pc EXCEPT ![c] = "idle"]
                  /\ UNCHANGED <<rb, mem, r, w, slice, sent, unread>>

\* OnTraffic returns.
Traffic(c) == /\ pc[c] = "traffic"
              /\ pc' = [pc EXCEPT ![c] = "decode"] /\ slice' = [slice EXCEPT ![c] = None]
              /\ UNCHANGED <<rb, mem, r, w, sent, unread>>

\* The peer is gone: OnClose, Close, Done.
Closed(c) == /\ pc[c] = "idle" /\ pc' = [pc EXCEPT ![c] = "closed"]
             /\ IF rb[c] # None THEN done(c) ELSE UNCHANGED <<rb, r, w>>
             /\ UNCHANGED <<mem, slice, sent, unread>>

Next == \E c \in Conns : \/ PeerSend(c) \/ EventRead(c) \/ ClientRead(c) \/ Decode(c)
                         \/ DecodeShort(c) \/ Traffic(c) \/ Closed(c)

Spec == Init /\ [][Next]_vars

\* What OnTraffic was given stays what was decoded until it returns: nobody writes
\* to a ring after it went back to the pool with a slice of it still in use
\* (glibevent.go:125-134, elastic_ring_buffer.go:45, ringbuffer.go:81).
SliceStable == \A c \in Conns : slice[c] # None => mem[slice[c].ring][slice[c].at] = slice[c].msg
=============================================================================

# A TLA+ model of gtcp (glibevent)

gtcp is a small event-driven TCP server library for Go: one goroutine polls
epoll and starts one goroutine per reported event; connections buffer what the
socket does not take; a decoder cuts the inbound stream into messages for the
application's handler. This directory models the parts where goroutines,
descriptors, locks and the peer interleave, checks them with TLC, and proves the
central invariants with TLAPS.

Every definition is translated from the Go source; `PROJECT.json` ("map") names
the lines. Code outside the repository (the kernel's sockets and epoll, the peer,
the application's handler) is modelled from how the code uses it.

## 1. Inventory

| Component | State | Operations | Interacts with |
|---|---|---|---|
| Connection, write path (`connection_unix.go`) | `sysfd`, `writeMtx`, `outboundBuffer`, `pollAttachment` | `Write`, `writev`, `WriteFlush`, `Close`, `release` | socket send buffer, epoll registration, event goroutine, application goroutines |
| Connection, read path (`connection_unix.go`, `glibevent.go`) | `inboundBuffer` | `eventRead`, `Peek`, `Discard`, `Next`, `Read`, `DefaultDecoder.Decode` | socket receive buffer, handler |
| Server engine (`engine_unix.go`) | listener, `PollFd`, `connections` | `Start`, `Callback`, `eventRead`, `eventWrite`, `accept`, `ticker` | poller (callback), connection matrix, handler (`OnOpen`, `OnTraffic`, `OnClose`) |
| Connection matrix (`conn_matrix.go`) | map from descriptor to conn, `RWMutex` | `addConn`, `delConn`, `getConn`, `iterate`, `loadCount` | event goroutines, accept, ticker |
| Default epoll poller (`internal/netpoll/epoll_default_poller.go`, `epoll_events.go`) | epoll set, event list | `Polling`, `AddRead`, `ModRead`, `ModReadWrite`, `Delete`, `expand`, `shrink` | engine (callback, one goroutine per event, joined per round) |
| Optimized epoll poller (`epoll_optimized_poller.go`, tag `poll_opt`) | two task queues, `wakeupCall`, eventfd | `Trigger`, `UrgentTrigger`, `Polling` | task queue |
| Task queue (`internal/queue`) | linked list, `head`, `tail`, `length` | `Enqueue`, `Dequeue`, `IsEmpty` | optimized pollers |
| kqueue pollers (`kqueue_default_poller.go`, `kqueue_optimized_poller.go`) | the same over a kqueue user event | the same | task queue |
| Ring buffer (`pkg/buffer/ring`) | `buf`, `size`, `r`, `w`, `isEmpty` | `Write`, `Read`, `Peek`, `Discard`, `ReadFrom`, `WriteTo`, `grow`, `CopyFromSocket`, `Rewind`, ... | ring pool |
| Linked-list buffer (`pkg/buffer/linkedlist`) | list of byte slices | `PushBack`, `Read`, `Peek`, `Discard`, `ReadFrom`, `WriteTo` | byte slice pool |
| Elastic buffers (`pkg/buffer/elastic`) | a pooled ring; ring then list | the same | connection, pools |
| Buffer pools (`pkg/pool`) | free lists by size | `Get`, `Put` | elastic buffers |
| Message framing (`glibevent.go`) | none | `DefaultDecoder.Decode` over `Peek` and `Discard` | inbound buffer, handler |
| Client (`client.go`) | `net.Conn`, `inboundBuffer` | `Open`, `process`, `Decode` | handler, the same ring pool |
| Options (`options.go`, `Server` in `engine_unix.go`) | `Options` | `loadOptions`, `With...`, the clamping in `Server` | listener, poller |
| Listener and sockets (`listener_unix.go`, `internal/socket`) | descriptor, the file of a unix socket | `initListener`, `normalize`, `tcpSocket`, `udpSocket`, `udsSocket`, `close` | kernel, file system |
| Numeric helpers (`internal/math`, `internal/gfd`) | none | powers of two, packing | ring buffer, options |
| Descriptor wrapper, shims, Windows engine | see `PROJECT.json` | | |

What is hard here: several goroutines on one connection (application `Write`
and `Close`, the event goroutine's flush, read and teardown) with one
non-reentrant mutex; partial writes and `EAGAIN`; arming and disarming
`EPOLLOUT`; descriptor numbers that the kernel reuses while conn objects, epoll
and `connMap` still hold them; the join at the end of each poll round, which
makes every handler part of the loop; the ticker that walks the map concurrently;
peers that close or reset at any time; a ring whose two positions are equal both
when it is empty and when it is full; buffers that return to a pool while slices
of them are in use; start-up that may fail at each of a dozen system calls.
`PROJECT.json` ("hazards") lists each at
its line, with the properties that watch it.

What makes each component correct:

- write path: the bytes taken over by `Write` reach the peer in order, once,
  without a gap; buffered bytes always have a flush coming; a connection is torn
  down only for a reason; a `FIN` or a reset is reported by `OnClose`;
- engine, matrix, poller: an event is handled with the connection that caused
  it; nobody tears down a descriptor that is not its own any more; `OnClose`
  fires at most once, and for every connection that is closed; requests reach the
  handler; descriptors come back;
- task queue and wake-up: a first-in first-out queue; a task is not left waiting
  for a wake-up that nobody sends;
- buffers and framing: a queue of bytes, whatever the wrap-around, growth or
  spill, from which whole messages are taken;
- pools: a slice that was handed out is not written to by somebody else;
- options, listener: what was asked for is in force before the socket has its
  address; whatever fails, nothing is left open.

## 2. Modules and plan

| | Module | Models | State |
|---|---|---|---|
| 1 | `ByteStream` | abstract: what the write side promises | done |
| | `Outbound` | `Write`, `WriteFlush`, `Close`, `release`, the event goroutine, send buffer, epoll registration, peer | done |
| | `OutboundProofs` | theorems about `Outbound` | done |
| | `MCOutbound` | instances for TLC | done |
| 2 | `Reactor`, `MCReactor` | `Polling`, `Callback`, `eventRead`, `eventWrite`, `accept`, `connMatrix`, `ticker`, `Close`, descriptor reuse | done |
| 3 | `FifoQueue` | abstract: first-in first-out queues with atomic operations | done |
| | `LockFreeQueue`, `MCLockFreeQueue` | `Enqueue`, `Dequeue`, `IsEmpty`, instruction by instruction | done |
| | `TaskPoller`, `MCTaskPoller` | extends `LockFreeQueue` with `Trigger`, `UrgentTrigger` and the wake-up protocol of `Polling`, over an eventfd and over a kqueue user event | done |
| 4 | `Numeric` | `CeilToPowerOfTwo` on bits, the size classes of the byte slice pool | done |
| | `RingBuffer` | `ring.Buffer` as functions of its slots, positions and flag | done |
| | `LinkedList`, `ElasticRing`, `ElasticBuffer` | the list; the pooled ring; ring then list | done |
| | `Framing` | `Peek`, `Next`, `Discard`, the default decoder | done |
| | `ByteQueue` | abstract: a queue of bytes | done |
| | `Buffers`, `MCBuffers` | composes the modules above: a buffer under every sequence of calls | done |
| 5 | `InboundPool`, `MCInboundPool` | decoded slices against the pool of rings shared by connections | done |
| 6 | `Startup`, `MCStartup` | options, listener, poller and clean-up, the event list; death and restart | done |
| 7 | `ReactorProofs` | theorems about `Reactor`: types; whose a descriptor is, without application `Close` | done |
| | `LockFreeQueueProofs` | theorems about `LockFreeQueue`, with the refinement of `FifoQueue` | done |
| | `TaskPollerProofs` | theorems about `TaskPoller`, on top of it | done |
| | `StartupProofs` | theorems about `Startup` | done |
| | `RingProofs` | what each operation of `RingBuffer` does to the bytes in a ring | done |
| | `ListProofs` | what each operation of `LinkedList` does to the bytes in a list | done |
| | `BuffersProofs` | theorems about `Buffers`, with the refinement of `ByteQueue`, on top of both | done |

What is left to model: `ConnInfo`'s `writeMtx` under the matrix's lock, which needs
the locks of `Outbound` and `Reactor` in one small module; and an application
`Close` in `InboundPool`.

## 3. Outbound: the write path of one connection

**State.** `pc` and `arg` are the goroutines' places and the payload of the
`Write` they are in; `mtx` is `writeMtx`; `outBuf` is `outboundBuffer` as a byte
sequence; `released` is `sysfd = -1`; `fdOpen`, `interest` and `sndBuf` are the
kernel's; `accepted`, `lost`, `onClosed` are history. A byte is a pair of its
writer and its number, so every byte differs.

**Actions.** One per system call or lock operation. `WriteCall`, `WriteLock`,
`WriteSend` (queue behind pending data, `EAGAIN`, partial or full send, failure)
and `WriteRearm` are `Write`. `CloseLock`, `CloseFlush`, `CloseFlushEnd`,
`CloseDelete`, `CloseFd`, `Release` are `Close`, with the `break` on any error
that leaves the residual data to `release`. `EventOut`, `FlushLock`, `Flush...`
are `eventWrite` and `WriteFlush`; `EventIn`, `EventRead`, `EventReadFail` are
`eventRead`; `Teardown` is `OnClose` and `delConn` on the way to `Close`. A
`Write` that fails goes to `c_lock` while it holds `mtx`, exactly as the code
calls `Close` under its deferred `Unlock`: it can never go on.

**Abstractions.** Descriptor numbers are not reused here (module `Reactor`
covers that), so a system call after `unix.Close` fails. `outboundBuffer` is a
sequence. A handler answers with at most one `Write` per event. The peer reads
one byte at a time and discards nothing. `writev` is not called by anything.

### Runs

| Run | Instance | Shows |
|---|---|---|
| `outbound_safety` | writers: an application goroutine and the event goroutine; one closer; send buffer of 2; payloads of 0, 1 and 3 bytes, 3 per writer; FIN and reset; 0.76 M states | `TypeOK`, `StreamOrder`, `ArmedWhenPending`, `NoSpuriousTeardown`, and that `Outbound` implements `ByteStream` |
| `outbound_live` | two writers, send buffer of 1, payloads 1 and 2, FIN but no reset, nobody else closes | `DrainOrClosed`, `WritesReturn`, `FinIsReported` |
| `outbound_residual` | one writer, one closer, 3 bytes through a send buffer of 1 | violated: `Close` drops what a full send buffer does not take, against its comment |
| `outbound_reset` | one writer, a reset | violated: `Write` waits for itself in `Close`; the event goroutine then waits for `Write`; `OnClose` never fires |

The bounds: a payload longer than the send buffer is split by every path (some
bytes sent, some buffered, some refused); two writers suffice for every order of
two payloads behind a buffer; `EAGAIN`, partial and full flush all occur. The
live run leaves resets and empty payloads out because both lead to the
self-deadlock that `outbound_reset` shows.

### What is proved (`OutboundProofs`)

For every set of writers and closers, every capacity, every set of payload
lengths, with or without faults, from the four named assumptions on the
constants (distinct goroutines, a positive capacity, lengths that are naturals,
faults among FIN and reset):

- `TypeCorrect`: `Spec => []TypeOK`;
- `BytesInOrder`: `Spec => []StreamOrder`;
- `AlwaysArmed`: `Spec => []ArmedWhenPending`;
- `HealthyConnectionsStay`: `Spec => NoSpuriousTeardown`;
- `Refinement`: `Spec => ImplementsStream`.

`Invariance` proves the inductive invariant `Inv` behind them:

- `TypeOK`;
- `LockInv`: a goroutine between `Lock` and `Unlock` holds `mtx`; one about to
  arm `EPOLLOUT` left bytes behind, one about to disarm it left none. Without it
  a `Write` could slip between a flush and its `ModRead`, and the bytes it leaves
  would be disarmed;
- `ReleaseInv`: bytes are dropped only after the descriptor is closed and
  unregistered. Without it a `Write` could append behind dropped bytes, and
  `StreamOrder` would not be preserved;
- `OutEventInv`: `EPOLLOUT` is armed or being served only with bytes buffered,
  a peer gone, or a `Close` under way. Without it `WriteFlush` could meet an
  empty buffer, which it takes for a reset;
- `ArmedWhenPending` and `StreamOrder` themselves.

The lemmas about cutting and joining sequences (`TakeDrop`, `Regroup`,
`AppendHead`, `PrefixOfConcat`, `NextByte`) carry the byte order; each action
preserves each part in a step of its own.

## 4. Reactor: the event loop and descriptor reuse

**State.** `owner`, `reg`, `backlog` are the kernel's descriptor table, epoll
set and accept queue; `connMap` is the matrix; `sysfd` and `paFD` are the two
copies of its number a conn keeps; `pc` and `cur` are the goroutines: one per
descriptor that reported an event, one for the listener's event, the ticker, and
application goroutines. The goroutine of an event is named by the descriptor the
event was reported for, which is what `Callback` gets.

**Actions.** `Poll` is the wait for the last round's goroutines, `epoll_wait`
and the start of the next ones, all ready descriptors at once. `GetConn`,
`FlushFail`, `EventRead`, `EventReadFail`, `Traffic`, `OnClose`, `DelConn` are
`Callback`, `eventWrite` and `eventRead`; `CloseDelete` (by
`pollAttachment.FD`), `CloseFd` (by `sysfd`), `Release` are `Close`; `Accept`,
`AcceptFail`, `NonblockFail`, `AddRead`, `AddReadFail`, `OnOpen`, `AddConn` are
`accept`; `TickStart`, `TickVisit`, `TickDelete`, `TickEnd` are `iterate` with
`ConnInfo`, under the read lock that `AddConn` and `DelConn` wait for.

`Faults` names the system calls of `accept` that may fail while numbers are left.
`AcceptFail` goes back to epoll; `NonblockFail` returns with the new descriptor open
and no conn to close it (`engine_unix.go:186-190`); `AddReadFail` goes on, since the
result of `netpoll.AddRead` is not looked at (line 193), with a connection that epoll
never reports. `fault` is history: which of the two happened to a conn. The properties
name these two connections as exceptions and hold for all others: what is checked is
that nobody else suffers, not that they are cleaned up, which they are not.

**Abstractions.** Nothing is pending for output here, so an OUT event is an
error or a hang-up and `WriteFlush` fails. A request is one unit: framing is a
module of its own. A free descriptor is any free number, since the process opens
others. `OnOpen` keeps or refuses a connection but does not close it itself. The
writer preference of `RWMutex` (a waiting writer blocks new readers) is left
out. The ticker's own system call and log lines are left out, and so is
`ConnInfo`'s use of `writeMtx`. No more than 32 events, so a round reports all.

### Runs

| Run | Instance | Shows |
|---|---|---|
| `reactor_safety` | 3 peers, 2 numbers, handlers may close, ticker, every fault of `accept`; symmetric in peers and in numbers; 2.6 M states | `TypeOK`, `QuietConsistent`, `DispatchToOwner`, `NoForeignTeardown`, `OnCloseOnce` |
| `reactor_live` | 2 peers, 2 numbers, every fault of `accept`, no symmetry; 0.21 M states | `RequestHeard`, `DescriptorFreed` |
| `reactor_userclose` | 2 peers, 1 number, one application `Close` | violated: a request is read by the connection that had the number before |

The bounds: three peers over two numbers make every number pass from one
connection to another while a second one is alive, and exhaust the numbers
(`AcceptFail`). One request per peer distinguishes heard from lost.

Two promises of the handler's interface are not properties here, because the code
does not keep them:

- `glibevent.go:55`, "OnClose fires when a connection has been closed." `Close` itself
  calls no `OnClose`; the engine calls it only before a `Close` of its own
  (`engine_unix.go:133, 147, 196`). A handler's or an application's `Close` ends the
  connection in silence. `OnCloseOnce` therefore says at most once.
- `glibevent.go:58`, "OnTraffic fires when a local socket receives data from the
  peer." When a FIN follows the data, `eventRead` has buffered the bytes when it meets
  the end of the stream, and `Server.eventRead` returns before it decodes them
  (`connection_unix.go:158-176`, `engine_unix.go:144-154`). `RequestHeard` therefore
  excuses a peer that has gone away.

### What is proved (`ReactorProofs`)

For every set of peers, numbers and application goroutines and every bound on the
requests and whatever calls of `accept` fail, from the four named assumptions of
`Reactor` (the names are distinct, the bounds are naturals, `Faults` are among the
three):

- `TypeCorrect`: `Spec => []TypeOK`, whatever application goroutines do.

With `MaxUserCloses = 0`, that is, if only event goroutines close connections
(handlers included), which is the hypothesis that `reactor_userclose` shows to be
needed:

- `NothingForgotten`: `Spec => []QuietConsistent`;
- `EventsReachTheirConn`: `Spec => []DispatchToOwner`;
- `OwnTeardownOnly`: `Spec => NoForeignTeardown`;
- `OnCloseAtMostOnce`: `Spec => OnCloseOnce`, at most once per connection.

The inductive invariant `Inv` (lemma `Invariance`) says who holds a conn. The
kernel's table, `sysfd` and `pollAttachment.FD` agree, and a conn gets a number
once (`IdsInv`). A conn is stored, and worked on, only under that number (`MapInv`,
`FdCurInv`), and the one in `accept` is not known to anybody else (`LnCurInv`):
so two goroutines never work on one conn. At each label a goroutine can rely on
its descriptor being open and registered (`HoldInv`); a socket nobody works on is
registered and stored (`RestInv`), which is what keeps an event reported to it
valid until `getConn` (`EventInv`); the ticker deletes only conns that are closed
(`TickInv`); a conn whose end has begun is past `OnClose` (`EndInv`), and only conns
without a fault are registered (`FaultInv`). Without
`HoldInv` and `EventInv` a number could pass to another connection between the
report of an event and its handling.

`iterate` deletes a stale key while it holds only the read lock, beside `getConn`
of an event goroutine: a data race that the Go runtime may abort. The model takes
the outcome in which the process goes on, a map without the key.

## 5. LockFreeQueue and TaskPoller: handing tasks to the loop

`internal/queue` is the queue of Michael and Scott on a garbage-collected heap,
plus a counter that `IsEmpty` reads. `LockFreeQueue` has one action per atomic
load, compare-and-swap or add; `loc` holds a goroutine's place and the local
variables `head`, `tail`, `next` and `n` of the call it is in. Nodes are never
freed while somebody holds them (the garbage collector), so a node is named by
the task it carries and never comes back. `chain` is history: the nodes in the
order they were linked. A call is entered by `CallEnqueue` or `CallDequeue` and
left from `e_ret` or `d_ret`, so that `TaskPoller` can build `Trigger` and
`Polling` around the same actions.

`TaskPoller` adds `wakeupCall`, the eventfd (readable or not), the poller's place
in `Polling`, and each goroutine's place in `Trigger`. `LoopRun` is `task.Run`:
it returns, triggers another task, or returns `ErrEngineShutdown`, which ends the
loop. A write to the eventfd succeeds or meets `EAGAIN` (its counter is full):
it is readable either way. A reported event of another descriptor changes nothing
modelled here.

`backend` is chosen once, in `Init`. With kqueue the wake-up is a user event that
`kevent` clears when it reports it, so `KeventWait` takes it away where the epoll
poller needs a `read` of the eventfd; the chores (`Chores`: both queues, the
reset of `wakeupCall`, the second look at the counters) are the same code in all
three pollers and the same actions here.

The refinement of `FifoQueue`: the abstract queue is the part of `chain` behind
`head`. `EnqLink` is where a task enters, a successful `DeqCas` where it leaves.
A `Dequeue` that answers nil saw the queue empty when it loaded a nil `next`, not
necessarily when it checks `head` again: if `head` has moved by then it starts
over, which is why the abstract `See` can be taken back by `Again`.

| Run | Instance | Shows |
|---|---|---|
| `queue_safety` | 3 goroutines that enqueue and dequeue freely, 3 tasks, symmetric in goroutines and in tasks; 48 k states | `TypeOK`, `QueueShape`, `CounterLag`, `Linearizable` |
| `poller_wakeup` | 2 goroutines that trigger, the poller whose tasks trigger too, both queues, at most 1 asynchronous task per round, 2 tasks, both backends; 16 k states | `PollerTypeOK`, `NoLostWakeup`, `TasksRun` |

Three goroutines are enough for one to be overtaken twice between its load and its
compare-and-swap, the case in which `tail` lags and others help. In
`poller_wakeup` the two tasks may come from two goroutines, which is when the
counter of a queue can read 0 although the queue holds a task: one `Enqueue` has
linked its node and not counted it, the poller has taken that node and counted
it off. `NoLostWakeup` says why this is harmless: the `Enqueue` that is late will
find `wakeupCall` clear. A limit of 1 task per round makes the remainder of the
queue depend on the poller's own wake-up.

### What is proved (`LockFreeQueueProofs`, `TaskPollerProofs`)

For every set of queues and tasks and every finite set of goroutines
(`NodeAssumption`: nil is no node; `ProcsAssumption`: finitely many goroutines, as
the counter's lag is a number; `MarkAssumption`: the marks of the refinement
mapping are no nodes):

- `TypeCorrect`, `ListWellFormed`, `CounterLagsByCalls`: `QueueSpec => []TypeOK`,
  `[]QueueShape`, `[]CounterLag`;
- `QueuesAreFifo`: `QueueSpec => Linearizable`, the refinement of `FifoQueue`.

The chain of a queue only grows, so a node keeps its place in it and what a
goroutine has loaded can be compared by place. `Inv` (theorem `Invariance`) says
that a loaded `head` or `tail` is at or before the present one, that a loaded
`next` is the node right behind (`EnqInv`, `DeqInv`), that nobody else is about to
link the same node (`FreshInv`), and that the counter lags by the goroutines
between the list and the counter (`LagInv`). That `tail` is loaded after `head` is
what makes a `head` that differs from `tail` have a next node; that a successful
compare-and-swap moves `head` by exactly one place is what makes `Dequeue` the
abstract one.

For both backends and every `MaxAtOneTime`, with `PollerAssumption` (two queues, the
poller is one of the goroutines):

- `PollerTypeCorrect`: `Spec => []PollerTypeOK`;
- `WakeupsArrive`: `Spec => []NoLostWakeup`.

`PollerInv` (theorem `PollerInvariance`) adds to the queues' `Inv` that only the
poller is in `Dequeue` (`CallInv`), that the wake-up of whoever set `wakeupCall` is
on its way until the poller clears it (`ClaimInv`), and that if the poller sleeps,
or has already looked at a counter before it sleeps, with `wakeupCall` clear, then
a task that is queued has a goroutine that linked it and has yet to look at
`wakeupCall` (`SleepInv`). The counter's lag enters there: a counter of 0 over a
queue that holds a task means that such a goroutine exists.

## 6. Buffers and Framing: one queue of bytes

**State.** `ring` and `list` are the two parts of an `elastic.Buffer`; an inbound
buffer (`elastic.RingBuffer`) has the ring only (`kind = "conn"`). A ring is the
record of its slots, `r`, `w` and `isEmpty`. `loop` is the place in `ReadFrom`,
the only operation of several steps: one per call of its reader. `next` numbers
the bytes put in and `call` holds the last call with what it returned.

**Actions.** One per operation, on operators that translate the Go functions:
`RingBuffer` for `pkg/buffer/ring`, `LinkedList` for `pkg/buffer/linkedlist`,
`ElasticRing` and `ElasticBuffer` for `pkg/buffer/elastic`, `Framing` for the
connection's and the client's `Peek`, `Next`, `Discard` and `Decode`. Readers and
writers are the environment: they give and take any number of bytes, with or
without an error. A ring from the pool is a new one or one of `PoolSizes` slots,
full of `Junk`; slots that hold no byte of the buffer become `Junk` after each
call, so a byte read from outside the contents shows.

**The abstract queue.** `ByteQueue` says what each call returns and leaves of a
plain sequence of bytes. `ActsAsQueue` is the refinement: every step is a step of
`ByteQueue`, or one of nine steps listed in `Defect`. Each of the nine is a case
in which the code loses, moves or invents bytes, or panics; `ActsAsQueue` names them
rather than hides them, so that the rest can be relied on, and so it does not catch
them. Eight of them contradict what a comment says of the function ("WriteByte writes
one byte into buffer", "ReadFrom implements io.ReaderFrom", "WriteTo implements
io.WriterTo", "Rewind moves the data from its tail to head"); the ninth, a message
without a body, contradicts none. A panic is the last step of a behaviour, since nothing
in the code recovers; that of `WriteByte` leaves the ring as `grow(1)` has made it.

| Step | Where | What happens |
|---|---|---|
| `FullRingPanics` | `ring_buffer.go:257` | `WriteByte` on a full ring of `bufferGrowThreshold` bytes or more: `grow(1)` makes no room |
| `EmptyReadFills` | `ring_buffer.go:356` | `ReadFrom` clears `isEmpty` before it knows that anything was read |
| `SecondReadMisplaced` | `ring_buffer.go:365` | the second read goes to `buf[:r]` although the first did not reach the end |
| `NothingTakenDropsAll` | `ring_buffer.go:427` | `WriteTo` a writer that takes nothing from a full ring resets it |
| `RewindRotates` | `ring_buffer_unix.go:77` | `Rewind` of full or wrapped contents |
| `BytesWithErrorDropped` | `linked_list_buffer.go:163` | bytes that come with `io.EOF` or an error are dropped |
| `NodeLostOnError` | `linked_list_buffer.go:184` | a node popped before a failing write is lost |
| `ListNotReached` | `elastic_ring_list_buffer.go:142` | an empty ring is an error, so the list is not written |
| `EmptyBodyTakesAll` | `glibevent.go:125` | a body length of 0 or less takes all that is buffered |

No path of the server itself calls `ReadFrom`, `WriteTo`, `WriteByte` or `Rewind`:
of the nine only the last is met by a running server.

| Run | Instance | Shows |
|---|---|---|
| `buffers` | rings of 2 slots doubling up to 4, at most 5 bytes, a limit of 2, pooled rings of 5 slots, headers of 2 bytes, body lengths -1, 0, 1, 2 and one too long; 0.15 M states | `RingShape`, `ActsAsQueue`, `StaticLimit` |

The bounds: sizes are scaled from 1024, 4096 and 512 to 2, 4 and 1, which keeps
their order, so a ring is created, doubles and grows by quarters within five
bytes. A pooled ring of 5 slots is not a power of two, as rings grown by quarters
are not. `Intact` stops a behaviour after a `Defect` step that has disturbed the
contents, since nothing is promised of such a buffer. Numbers run modulo 6, one
more than the bytes that can be present, so all bytes in a buffer differ. The
assumption `SizeClasses` checks the byte slice pool: a slice taken is as long as
asked for, a slice put back is never given out as longer than it is.

### What is proved (`RingProofs`, `ListProofs`, `BuffersProofs`)

Every property of the run is a theorem, for every sequence of calls, every number of
bytes, every size of the rings the pool gives out and every limit:

- `RingShapeHolds`: `Spec => []RingShape`, after every call that returns;
- `BufferIsQueue`: `Spec => ActsAsQueue`, the refinement of `ByteQueue` but for the
  nine steps of `Defect`;
- `StaticLimitHolds`: `Spec => StaticLimit`.

They rest on the assumptions `Buffers` names, which TLC evaluates in the run:
`ScaleAssumption` (the sizes are positive and in the code's order, and the threshold
is at least 4, below which the loop `n += n / 4` would not end), `NilAssumption`
(nil is no ring), `StreamAssumption` (types of the bounds and of `BodyLen`) and
`CeilAssumption`: `CeilToPowerOfTwo` of a number of bytes that can be written covers
it. The last is about exponentials, which the provers do not know; that the shifts
give the least power is proved on bits in `StartupProofs`.

**The ring** (`RingProofs`), for rings over every set of bytes with `r` and `w`
anywhere (`Rings(S)`: records whose positions and flag agree): `DiscardDrops`,
`PeekShowsFront`, `ReadTakesFront`, `WriteToDrops`, `GrowKeeps`, `WriteAppends`,
`WriteAppendsAlways`, `WriteByteAppends`, `CopyFromSocketAppends`, `RewindKeeps`,
`FirstReadAppends` and `SecondReadAppends`. Each says that the result is again such a
ring and which bytes it holds, as a sequence. `WriteToDrops`, `WriteByteAppends`,
`RewindKeeps` and the two reads exclude exactly the steps of `Defect` that are the
ring's. `GrowthCovers` shows that every way in which `grow` chooses a size covers what
is asked for, its loop of quarter steps included. The argument is one of slots: byte
`i` lies in `ReadSlot(b, i)`; a read position that moves renumbers the slots, a store
fills exactly the free ones behind the last byte, and a growth puts byte `i` into slot
`i`.

**The list** (`ListProofs`): `DiscardDropsFront`, `PeekShowsEnough` and
`WriteToDropsFront` say the same of a list of byte slices, in which a slice may be
empty and a cut may fall inside one or between two.

**Whole behaviours** (`BuffersProofs`). `Inv` holds until a call panics, after which
there is no step (`Holds`, theorem `InvHolds`), and is inductive until then:

- `ring` is nil or a ring in `Rings(Byte)` that has slots (`Held`); a ring without
  slots could not be read or written by `% size`;
- `list` is a sequence of slices, and empty for an inbound buffer;
- while `ReadFrom` reads into the ring (`loop` is `"first"` or `"second"`) there is a
  ring, the list is empty, and before the first read at least `MinRead` slots are
  free. Without the empty list the bytes of that read would stand before those of the
  list, and `ActsAsQueue` would fail; without the room the read could not be placed;
- while it reads into the list, the list is in use or the ring has reached the limit:
  `StaticLimit` needs it for the step that appends the first node;
- `next` is a number of a byte.

TLC checked `Inv` on the instance of the run before it was proved. Each action has a
lemma (`ConnWriteSound`, ..., `ReadToListSound`) that gives three facts of it at once
(`Sound`): it keeps `Inv` or panics, it is a step of `ByteQueue` or one of `Defect`, and it obeys
the limit. What `Discard`, `grow`, `Writev` and `FlattenSeq` compute is a recursive
function; the proofs take its existence and its values from well-founded induction
over a set of numbers (`AllNumbers`), applied to the set of those `n` for which a
statement holds, which needs no operator as a parameter.

`Buffers` reaches the same operations through several instances of the same modules
(the inbound ring, the ring that `Framing` peeks into, the ring and the list of an
`elastic.Buffer`); the first
lemmas of `BuffersProofs` (`InboundRingIsRP`, `MixedListIsLP`, ...) show that they are
one.

## 7. InboundPool: slices that outlive their ring

`Client.process`, the connections of the Windows engine and the server's
connections all take rings from one pool. `DefaultDecoder.Decode` takes slices with
`Peek`, then discards their bytes; when these were the last ones `done` gives the
ring back, and `OnTraffic` is called with slices of a ring that is in the pool.
`InboundPool` has one action per step of `eventRead` and `process`, a message being
one slot. In `inbound_alias` (a connection of the server, one of a client in the
same process, three rings, two messages each) `SliceStable` is violated: another
connection takes the ring and overwrites the message while the handler holds it.

## 8. Startup: options, listener, poller

**State and actions.** `With` is one option function; `normalize` is `Server` up to
`initListener`, with the clamping of the options and the removal of a unix
socket's file; `ListenerCall`, `ListenerCallFails` are the system calls of
`tcpSocket`, `udpSocket` or `udsSocket`, in their order for the options and the
address at hand, any of which may fail; `StartCall`, `StartCallFails` are
`OpenPoller` and the registration; `Poll` is a round of `Polling` with the size of
its event list; `PollingFails` its end. `Crash` is the death of the process: its
descriptors are gone, the file stays, and it starts again. Capacities are sets of
one bits (`Numeric`), so that shifts keep their meaning at 64 bits. `RemoveAll` is
`os.RemoveAll`, whose error the code drops before `bind` (`listener_unix.go:50`) and
logs in `close` (line 65): a file it fails to remove stays, and `kept` remembers it
until the process dies.

| Run | Instance | Shows |
|---|---|---|
| `startup` | any two options, any address (protocol, version, kind of IP), one crash, capacities around 2^10, 2^31, 2^32 and 2^61; 2.4 M states | `NormalizedCaps`, `NothingLeft`, `OptionsBeforeBind`, `PathFree`, `ListWithinLimits` |

Two options at a time are enough for every pair to meet; the options act
independently of one another, but for `LockOSThread` with `NumEventLoop`. One crash
is enough to leave a file behind. `NothingLeft` has three exceptions, which it names
and does not catch: a poller that is open when the listener cannot be registered is
not closed (`engine_unix.go:223-231`), a unix socket whose `listen` fails after `bind`
leaves its file, and so does a file that could not be removed. `PathFree` excuses that
last one too.

`options.go:70-71` and `78-79` say that a capacity is always converted to the least
power of two not below it. The code does that from 2^10 to 2^32 only, and
`NormalizedCaps` claims it only there. Below, 1 to 1023 become 2^10
(`engine_unix.go:76-77`, 85-86). Above, the shifts of `CeilToPowerOfTwo` add up to 31,
so the lowest bits need not be reached and the result need not be a power of two
(2^32 + 1 becomes 2^33 - 1). What `NormalizedCaps` claims of every capacity is that
nobody gets less than was asked for.

### What is proved (`StartupProofs`)

For every set of capacities of at most 2^62, beyond which `CeilToPowerOfTwo` panics,
every number of processors, of options and of deaths of the process
(`StartupAssumption`), every invariant that the run checks: `ListStaysWithinLimits`, `NothingIsLeft`, `PathIsFree`,
`CapsAreNormalized`, `OptionsAreSetBeforeBind`, each as `Spec => []...`.

- `CeilToPowerOfTwo` is proved on bits: a shift by `w` doubles a run of `w` ones
  below the highest bit (`ShiftDoubles`), so the five shifts fill everything below a
  highest bit of at most 31 (`SmearFills`), and the increment carries through all of
  it (`IncrementCarries`); the result is the least power (`CapIsLeastPower`).
  For every capacity, smearing keeps the bits there are (`SmearKeeps`) and the
  increment sets the lowest bit that is not set (`IncrementSets`), so the result is
  not less than the capacity (`CeilNotLess`, `CapNotLess`).
- The list of a listener's system calls is characterised once (`CallsInOrder`):
  `socket` first, the settings, which are the ones wanted and none of the other
  calls, then `bind` and, except for UDP, `listen`.
- `Inv` (theorem `Invariance`) says that the calls made and those to come are the
  two parts of that list; which descriptors are open, and whether the file can
  exist, follows from how many were made (`ListenerInv`, `StartInv`, `ServingInv`).
  `NothingLeft` alone is not inductive: it needs to know, at each call that can
  fail, what is open by then. `Inv` was checked by TLC on the instance of the run
  before it was proved.

## 9. Fairness

- Goroutines that can run are scheduled: weak fairness on each goroutine's
  steps. `Outbound`'s event goroutine and the peer's reads are included; a peer
  that stops reading for ever would leave bytes buffered by design.
- `sync.Mutex` hands over to a waiter that has starved for 1 ms: strong
  fairness on the lock steps (`WriteLock`, `CloseLock`, `FlushLock`, `Release`,
  and `AddConn`, `DelConn` for the matrix's lock).
- epoll is level-triggered: an event that stays ready is reported again, so weak
  fairness on the poll step.
- Nobody is obliged to call `Write` or `Close`, to connect, to send, or to fail;
  the ticker's clock promises nothing, but a walk it has begun ends.
- In `TaskPoller` the poller (either backend's steps) and every goroutine inside
  `Trigger` or a queue operation is scheduled: weak fairness on each. Tasks are
  finitely many, so no compare-and-swap fails for ever and weak fairness per
  goroutine is enough.

`Buffers`, `InboundPool` and `Startup` state no liveness and no fairness.

`CHECK_DEADLOCK FALSE` everywhere: a server without peers or calls rests, and a
bounded number of requests ends. The states in which goroutines wait for one
another for ever are what the liveness properties are for.

## 10. Proved, checked, left out

Proved with TLAPS for all values of the constants:

| Module | Properties of runs that are theorems | From |
|---|---|---|
| `Outbound` | `TypeOK`, `StreamOrder`, `ArmedWhenPending`, `NoSpuriousTeardown`, `ImplementsStream` | its assumptions |
| `Reactor` | `TypeOK` | its assumptions |
| | `QuietConsistent`, `DispatchToOwner`, `NoForeignTeardown`, `OnCloseOnce` | and no application `Close` |
| `LockFreeQueue` | `TypeOK`, `QueueShape`, `CounterLag`, `Linearizable` | its assumptions |
| `TaskPoller` | `PollerTypeOK`, `NoLostWakeup` | its assumptions |
| `Startup` | `NormalizedCaps`, `NothingLeft`, `OptionsBeforeBind`, `PathFree`, `ListWithinLimits` | its assumption |
| `Buffers` | `RingShape`, `ActsAsQueue`, `StaticLimit` | its assumptions, a power of two that covers among them |
| `RingBuffer`, `LinkedList` | none by name; what each operation returns and leaves | hypotheses of each theorem |

Checked by TLC only:

- every liveness property (`DrainOrClosed`, `WritesReturn`, `FinIsReported`,
  `RequestHeard`, `DescriptorFreed`, `TasksRun`): fairness and ENABLED are outside
  the proof system's reach;
- the assumptions on `CeilToPowerOfTwo` and on the size classes (`CeilAssumption`,
  `SizeClasses`), for the sizes of the instance;
- the properties of the runs that end in a violation.

**Not modelled**

- `internal/netpoll/fd_unix.go`: a copy of Go's `poll.FD` of
  which the server calls `DupCloseOnExec` only.
- `internal/io`, `internal/bs`, `pkg/errors`, the constants and casts of
  `internal/netpoll`: no state.
- `sock_posix.go`, `socktoaddr.go`: conversion of addresses; the size of the listen
  backlog.
- The calibration of the ring pool's default size: statistics that only choose
  which ring `Get` returns, which is any ring here.
- The Windows engine's `Start`, a loop over `net.Listener`.
- The dispatch of network events by the kqueue and optimized pollers, and their
  registration of descriptors. `engine_unix.go` calls `OpenPoller() int`, which the
  kqueue pollers do not provide; these and the optimized epoll poller import
  `glibevent/pkg/logging`, which the repository does not hold, and both optimized
  files import `golang.org/x/sys/unix` twice (`epoll_optimized_poller.go:26, 31`):
  none can be built with the server as it stands.
- Operations without a caller whose result nothing depends on: `Encode`,
  `FloorToPowerOfTwo`, `ClosestPowerOfTwo`, the packing of `gfd`, `PushFront`,
  `AddReadWrite`; the options `Ticker` and `TCPKeepAlive`, which are read nowhere.

**Seen while modelling, without a run of their own**

- `options.go:52` says that `NumEventLoop` overrides `Multicore`; `Server` does the
  reverse, and the value is not used after that.
- `WriteBufferCap` (`options.go:74`) has no effect: `accept` passes 1024.
- A UDP listener is polled like a TCP one: `accept` on it fails each time, and the
  event stays ready.
- A connection without a decoder gets `Peek(-1)`, which discards nothing: each
  `OnTraffic` gets the earlier bytes again (`client.go:120`, `engine_unix.go:165`).
- Connections stay open when `Polling` ends with an error
  (`engine_unix.go:240-246`).
- The optimized `OpenPoller` (lines 52-57) closes a poller whose `epa` is nil when
  `eventfd` fails, which panics.
- `parseProtoAddr` lower-cases the path of a unix socket (`glibevent.go:36`).

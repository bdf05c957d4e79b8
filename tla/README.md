# A TLA+ model of the L4 proxy

This directory models the two TCP proxies of the repository, `proxy` (one
thread per connection and two forwarding threads) and `proxy_kqueue` (one
thread and an event loop), the load generator that measures them and the echo
backend that answers it.  TLC checks small instances; TLAPS proves every
safety property that the runs check, and that both proxies implement the same
two byte streams, for every value of the constants.

## 1. The system

| Component | Source | State | Operations | Hard behaviour |
|---|---|---|---|---|
| Relay of a connection, event-driven | `src/kqueue_server.cpp` 28-491, 935-993 | two `DirectionalBuffer`s, kqueue filters | `read_direction`, `write_direction`, `finish_direction`, `event_error` | partial `recv`/`send`, compaction, back-pressure, half-close, stale notifications, resets |
| Event loop | `src/kqueue_server.cpp` 493-1035 | `connections`, `fd_to_connection`, retired sockets, deadlines, `draining` | accept, try/retry a backend, dispatch, retire, drain, expire | reuse of descriptors in a batch, races of connect, timeout, signal; failing local calls |
| Relay of a connection, blocking | `src/proxy.cpp` | the two threads, the sockets they share | `forward_data`, `send_all`, `proxy_connection` | an error or a stop must reach a thread blocked in a call |
| Blocking server | `src/server.cpp` | `connection_threads`, `active_client_sockets` | accept loop, `shutdown_server` | signal against `accept()`, joins at the end |
| Backends | `src/backend.cpp` | `healthy` flags, `next_backend_index` | `choose_backend`, `connect_to_healthy_backend`, `backend_candidates`, `set_backend_health` | concurrent rotation and flags, stale verdicts |
| Health checker | `src/backend.cpp` 219-250, 369-397 | position in its round | `health_check_loop` | races with the connection threads |
| Signals | `src/shutdown.cpp` | `shutdown_signal_received`, `stop_requested` | the handler | which thread gets the signal |
| Socket ownership and options | `src/socket.cpp` | `fd_` | move, `release`, `reset` | double close, leak |
| Echo backend | `src/backend_main.cpp` | one thread per connection | echo until the end | partial `send`, `SIGPIPE`, an exception of `accept()` |
| Load generator | `src/load_generator.cpp` | results, `std::barrier` | connect, warm up, measure, report | a worker that fails before the barrier, responses out of step, blocking both ways |

They interact as follows.  The event loop accepts a client, asks
`backend_candidates` for an order, connects, and gives the two sockets to the
relay; the relay tells it whether the connection goes on.  The blocking server
starts a thread per client, which calls `connect_to_healthy_backend` and then
runs two `forward_data` threads on the two sockets; the health checker's thread
writes the flags that the connection threads read and write.  The signal
handler only sets a flag; both servers look at it between their calls.  A worker
of the load generator sends a request to a proxy, which relays it to an echo
backend and the echo back to the worker.

What makes each of them correct, and where it could go wrong, is the list
`hazards` of `PROJECT.json`.

## 2. The modules

| Module | Models | Extends |
|---|---|---|
| `DirectionalBuffer` | the buffer and its pure steps (compact, fill, advance, rewind) | |
| `Relay` | one established connection of `proxy_kqueue`, its peers and the kernel's queues | `DirectionalBuffer` |
| `StreamRelay` | abstract: two byte streams, delivered in order, closed behind the last byte | |
| `BlockingRelay` | one connection of `proxy`: two `forward_data` threads and `shutdown_server` | |
| `Backends` | the order in which backends are offered | |
| `SocketOwnership` | what the operations of class `Socket` close and leave | |
| `EventLoop` | `run_kqueue_server` without the bytes | `Backends`, `SocketOwnership` |
| `BlockingServer` | `run_server`, the connection threads' search for a backend, the health checker | `Backends` |
| `Statistics` | `std::sort` and `percentile` | |
| `LoadGenerator` | workers, barrier, counts, what is printed | `Statistics` |
| `EchoBackend` | the threads of `backend_server` | |
| `RequestPath` | a request from `send_all` to the comparison, through a proxy, to the backend and back | `LoadGenerator`; an instance of `EchoBackend` |
| `DirectionalBufferProofs`, `RelayProofs` | lemmas and theorems about the first two, and that `Relay` implements `StreamRelay` | `DirectionalBuffer`, `Relay` |
| `BlockingRelayProofs` | theorems about `BlockingRelay`, and that it implements `StreamRelay` | `BlockingRelay` |
| `BackendsProofs` | what the rotation and `backend_candidates` return | `Backends` |
| `EventLoopProofs`, `BlockingServerProofs` | theorems about the two servers | `EventLoop`, `BlockingServer`; `BackendsProofs` |
| `LoadGeneratorProofs`, `RequestPathProofs` | theorems about the load generator, its percentiles, and the request path | `LoadGenerator`, `RequestPath` |
| `MC...` | constants for TLC | |

The split follows the code's own: an established connection has no influence
on the loop but "goes on" or "ends" (`HandleRelay`, `ForwardEnds`), and the
loop none on it but the order of notifications, which `Relay` leaves open.
`Relay` and `BlockingRelay` both implement `StreamRelay`, so the two proxies
promise their peers the same.

### Relay

`buffer[d]` is the `DirectionalBuffer` of direction `d`; `read_filter[d]` and
`write_filter[d]` say whether `EVFILT_READ` is registered on its source and
`EVFILT_WRITE` on its destination; `events` is the rest of the batch that the
last `kevent()` returned; `handler` is the loop being executed.  The proxy is
one thread, but its peers run on while a handler does, so a handler is cut at
its system calls: `HandleRead`/`HandleWrite` are the code up to the loop, and
`PauseRead`, `RecvData`, `RecvEof`, `RecvError`, `SendData`, `SendError`,
`WriteDone` are one iteration each, with everything the code does with the
result (the filters, the flags, `finish_direction`, the retirement).  Byte
number *k* of a stream is the number *k*: a byte that `memmove` puts in the
wrong place or that a partial send repeats is visible.  The kernel's receive
and send queues have a capacity, so `EAGAIN` and partial results occur.

### EventLoop

`at` is the position of the thread; each step runs to the next look at the
signal flag or the next system call.  Descriptors are numbers that the kernel
gives out again, lowest first; `socket` maps an open descriptor to the socket
it denotes, told by the client and the number of the attempt.  A notification
carries, for the properties only, the socket it is about (`about`).  Clocks are
abstracted: a deadline passes at any time after it was set, `late` and
`drain_over`.  `NextIndex` keeps the counter modulo the number of backends; the
wrap of `size_t` after 2^64 choices is left out.  `Listen` and `Register` are the
start: a signal before `Register` sets the flag but leaves no `EVFILT_SIGNAL`.
`SetupErrors` lets local calls fail: where the code catches the exception, one
client or one attempt is given up; where it does not (`Throws`: the start,
`accept()`, `kevent()`, a filter of the relay, `begin_draining`),
`run_kqueue_server` is left and its objects close what they own (`Leave`).  What
a `Socket` closes when it is reset, assigned or destroyed, and what a moved-from
one still holds, is `SocketOwnership`'s.

### BlockingRelay and BlockingServer

`pc[d]` is the next call of the thread of direction `d`; `no_read`/`no_write`
are the sockets that were shut down for reading/writing by this process, which
is the only way the threads affect each other.  `shutdown_server`'s two effects
on a connection, the flag and the `SHUT_RDWR` of the client's socket, are two
steps.  In `BlockingServer`, `choose_backend` reads one flag per step and
`connect`, the store of a verdict and the `fetch_add` are separate steps, so
that connection threads and the checker interleave as they do.  `ruled_out` and
`revived` are history variables that only a property reads.

### LoadGenerator

A request is one step that succeeds, throws, or ends the process: neither the
load generator nor the echo backend sets `SO_NOSIGPIPE`, so a `send()` on a
connection that the other side has left raises `SIGPIPE`.  `FailSetup` is the
outer `catch`, `FailRequest` the inner one.  `latencies` holds what a worker
measured; `Statistics` sorts all of them by rank and interpolates in integers,
in hundredths, so that the comparison of percentiles is exact (the code's
`double` rounds).

### EchoBackend and RequestPath

`RequestPath` keeps the variables and actions of `LoadGenerator` and takes its
request step apart: `SendSome` is a turn of `send_all`, `RecvSome` of
`recv_exact`, and only `Answered`, after the comparison, is the step that
`LoadGenerator` sees.  The proxy is seen from outside, as the two bounded byte
streams that `Relay` and `BlockingRelay` are shown to implement, which it may
end at any time (`ProxyEnds`: a deadline, an error, a stop).  The streams are
the queues of the echo backend's sockets.  Byte *k* of a worker's stream is the
number *k*, although the comparison sees only the text, which is the same in all
requests: a response that is out of step is visible to the property and not to
the code.  Every `send()` and `recv()` moves any number of bytes that is asked for
and possible (`Portion`): how a stream is cut into segments is not up to the two
programs.  They install no signal handlers, so no call is interrupted.

## 3. What TLC checks

| Run | Instance | Shows |
|---|---|---|
| `relay_oneway` | stream of 6 bytes, array of 4, watermark 1, `recv` of at most 3, queues of 2, both peers may reset | `TypeOK`, `StreamPrefix`, `EofIsReal`, `HalfCloseAfterLastByte`, `NoLostWakeup` |
| `relay_twoway` | streams of 3 and 1, array of 2, client may reset | the inductive invariant `RelayInv`, `RetiredOnlyWhenDone`, and `ImplementsStreams` |
| `relay_live` | streams of 4 and 1, no resets, fairness | `EveryByteForwarded`, `HalfCloseForwarded`, `BothDoneRetires` |
| `eventloop_safety` | 2 clients, 2 backends, 2 accepts per notification, failing local calls | `MapsExact`, `NoStaleDispatch`, `NoDescriptorLeak`, `ConnectIsWatched`, `DrainAdmitsNobody`, `EndsByOwnEvent` |
| `eventloop_live` | 1 client, 3 backends, fairness | `EveryCandidateTried`, `SignalStops`, `ConnectResolves` |
| `blocking_relay` | streams of 4 and 2, chunks of 2, resets of both, stop | `NobodyLeftBehind`, `BlameHasItsCause`, `ImplementsStreams` |
| `blocking_relay_live` | streams of 3 and 1, no resets, stop, fairness | `BytesForwarded`, `ThreadsEnd` |
| `blocking_server` | 2 clients, 2 backends, checks may fail locally | `TurnedAwayForGoodReason`, `EveryClientShut` |
| `blocking_server_live` | 1 client, 2 backends that change twice, fairness | `HealthConverges`, `StopsWithNextClient` |
| `loadgen` | 3 workers, 1 warm-up, 2 requests, latencies 1 and 4 | `MeasuredWhenAllWarm`, `FailedCountsConnections`, `PercentilesAreRanks`, `ReportsUnlessSetupFails` |
| `request_path` | 2 workers, 1 warm-up and 1 measured request of 3 bytes; 2 bytes fit towards the backend, 1 back, 2 into its buffer; fairness | `ResponsesInStep`, `NobodyStuck`, `ImplementsLoadGenerator`, `BackendThreadsEnd` |
| `loadgen_finding` | the same, 2 warm-up requests | the finding below |

Why the bounds are enough.  In `relay_oneway` the stream is longer than the
array, the array longer than one `recv` and the queues shorter than the array,
so the buffer fills, is sent in parts, is compacted at a non-zero offset, is
paused and resumed on either side of the low watermark, and the end of the
stream is met in every one of these states.  What the loop does depends on the
watermarks only through comparisons; the theorems of section 5 remove the bound.
In `eventloop_safety` two clients with two attempts each are enough for a
descriptor to be closed and given out again to another connection, and for two
connections to expire, retry and be retired in one batch; three candidates, in
`eventloop_live`, for a retry after a retry.  `MaxFd` never runs out, and
`MaxEvents` bounds the accepts per notification.  Two connection threads suffice
for all races on the flags of `BlockingServer`, since each thread acts on one
backend at a time; three or more clients are not checked.  `MaxChanges` bounds
how often backends go down or come up.  In `loadgen` up to six latencies are
sorted, so that 0.50, 0.95 and 0.99 of the five steps between them fall between
two indices, and with one latency or five on an index.  In `request_path` the
message fits into no queue and no buffer, so every call has to move it in parts,
of any size.  The largest message that the queues allow is `UpCapacity +
DownCapacity + 1`, four bytes: the theorem `NeverStuck` goes up to it, and with
five, which the assumption forbids, TLC finds worker and backend both blocked in
`send()`.  For the code this means that "ping" is safe and that a message
beyond the socket buffers and the proxy's 64 KiB each way would hang the
benchmark.

Every property has a mutant, listed in `PROJECT.json`: a wrong variant of a
definition (`NoMemmove`, `ResumeBelowLow`, `RetireDroppingClient`, `Forgets`,
...) that stands in the module before the right one and under which TLC finds
the property violated.

Deadlock is checked except in the runs of the load generator and of the request
path, where main really may wait for ever.

### Fairness

* `Relay`: the loop neither stops inside a batch nor inside a handler (weak);
  a filter that is active again and again is returned at some time (strong):
  kqueue returns active filters in queue order and `max_events` only delays
  them.  Peers read what they are sent; nothing is assumed of what they send.
* `EventLoop`: the thread runs, and `kevent()` returns when something is due
  or its timeout is over; time passes.  An established connection may stay quiet
  for ever, and nothing is assumed of clients and backends.
* `BlockingRelay`: threads run, peers read, and the backend closes its socket
  after it has read to the end, which is what `src/backend_main.cpp` does.  This
  last assumption is needed: if the client half-closes, the thread that reads
  it ends, and if the server stops then, nobody shuts the backend's socket down.
  With a backend that keeps its side open, `proxy` cannot finish its shutdown.
* `BlockingServer`: threads run; `accept()` need not fail; forwarding ends once
  the client's socket is shut down (`ThreadsEnd`), otherwise it may last.
* `LoadGenerator`: threads run, requests are answered or fail.  That they do is
  what `ImplementsLoadGenerator` shows of `RequestPath`, whose fairness is only
  that threads run and that a proxy which finds one side of a connection gone
  ends it (`Relay` and `BlockingRelay` retire a connection after an error, and
  after the end of both streams).

### What was found

* `loadgen_finding`: `src/load_generator.cpp:404` says "Every worker
  participates, plus main." of the barrier.  A worker whose connect or warm-up
  throws (line 307) returns without arriving; main and all other workers then
  wait for ever.
* Properties that one might expect and that the code does not have, though
  nothing in the repository claims them: a signal ends `proxy` only if it
  interrupts the main thread inside `accept()` or another client connects
  (hence the premise of `StopsWithNextClient`); a proxy that leaves one
  connection can end the whole echo backend or load generator by `SIGPIPE`; a
  client's reset, or the stop, can clear the flag of a backend that works,
  because the thread from the backend gives up and shuts the backend's socket
  down, and the other thread's `send()` returns `EPIPE` (`BlameHasItsCause` says
  that this is the only way; the flag recovers by `HealthConverges`); a client of
  `proxy` can be turned away while a backend is healthy if a check revived it
  during the search (`revived`); the event-driven proxy never revives a flag
  except by a connect that succeeds, since it runs no health checker.

## 4. What is not modelled

* Exceptions of filter calls inside `Relay`: `EventLoop` has them as `Throws`,
  which ends the process with every connection.
* `EINTR` where the code just repeats the call; in the accept loop of the
  event loop a repetition also uses up one of the `max_events` iterations.
* `EV_ERROR` notifications of sockets: `kevent()` returns them as the answer to
  a change list, and the waiting call passes none.
* A `std::thread` that cannot be created.  In the accept loop of `proxy` the
  exception takes the path of a failing `accept()` (`server.cpp:133`); elsewhere it
  ends the one connection (`proxy.cpp:233`) or the process (`proxy.cpp:242`, the
  load generator and the echo backend, where running threads are left unjoined or
  detached).
* In `EventLoop`, `HandleEvent` and `Expire` look at the drain deadline once, for
  the loop and for `retry_backend`, which asks the clock again; a deadline that
  passes in between is found at the next candidate, as one that passes after
  `retry_backend`'s look, and differs from it only in that the backend that
  failed has lost its flag.
* Socket options, `print_client_address`, the entry points and the parsing of
  arguments: straight-line code.  `Socket::release` has no caller.
* The load generator's average and throughput, and the rounding of `double`.
* Which bytes a `send()` before a reset still delivers in `RequestPath`: what was
  on the way when the proxy ends a connection is lost.
* The growth of `connection_threads` and `active_client_sockets`.

## 5. What is proved

Every safety property that a run checks, invariant or action property, is a
theorem for all values of the constants.  What the runs add is liveness, and the
confidence that the models do what they should.

### The event-driven relay

`RelayProofs` proves, for all watermarks (`LowWatermark < HighWatermark`), all
buffer and queue sizes, all stream lengths and all sets of peers that may reset:

| Theorem | Statement |
|---|---|
| `Invariance` | `Spec => []RelayInv` |
| `TypeCorrect` | `Spec => []TypeOK`, with `offset <= size <= high_watermark` |
| `StreamsInOrder` | `Spec => []StreamPrefix` |
| `EndOfFileIsReal` | `Spec => []EofIsReal` |
| `HalfCloseInOrder` | `Spec => []HalfCloseAfterLastByte` |
| `NoWakeupIsLost` | `Spec => []NoLostWakeup` |
| `RetirementIsDue` | `Spec => []RetiredOnlyWhenDone` |
| `RefinesStreams` | `Spec => ImplementsStreams`: `Relay` implements `StreamRelay` |

The assumptions are `WatermarkAssumption` and `RelayAssumption`; TLC evaluates
both on every relay run.

The argument.  `StreamPrefix` and the others speak of what is visible between
handlers and are not inductive.  `RelayInv` adds what the middle of a handler
relies on: `Carries` ties the pending bytes of the array, index by index, to
the stream position behind `out` (so a move or a partial send keeps the order);
`Ends` ties `read_eof` and `write_shutdown` to the streams; `Watches` is
`NoLostWakeup` weakened inside the write loop, which removes its filter only at
its end; `LoopInv` says that the read loop runs at offset 0, which, with the
watermark check before `recv()`, is why no request for zero bytes is ever made;
`CauseInv` traces retirement to its cause.  `DirectionalBufferProofs` has the
facts about the buffer's steps; every action then has a lemma, the handlers
share `HandlerKeepsInv` and `ReturnKeepsInv`, and the safety theorems follow from
the invariant without looking at a step again.  `RefinesStreams` goes through the
actions once more: with `RelayInv` in both states, what the peers can see of a
step, the bytes of one stream, its end or the retirement, is one step of
`StreamRelay`, and everything the loop does to buffers, filters and batches is
none.

### The blocking relay

`BlockingRelayProofs` proves, for all buffer and queue sizes, stream lengths and
sets of peers that may reset (`BlockingRelayAssumption`):

| Theorem | Statement |
|---|---|
| `Invariance` | `Spec => []BlockingRelayInv` |
| `TypeCorrect` | `Spec => []TypeOK` |
| `NobodyIsLeftBehind` | `Spec => []NobodyLeftBehind` |
| `BlameIsDue` | `Spec => []BlameHasItsCause` |
| `RefinesStreams` | `Spec => ImplementsStreams`: `BlockingRelay` implements `StreamRelay` |

`NobodyLeftBehind` is inductive only with an account of who shut a socket down:
`ShutInv` traces a source that cannot be read any more to `shutdown_server`, to
its own thread on the way out, or to the other thread that has left.
`Undisturbed` says what the two threads can be doing while no peer has reset and
the server goes on, which is where the abstract streams allow a connection to
end only after both are closed; `BackendShut` says who can have shut the backend's
socket for writing, which with `Undisturbed` leaves one way to an undeserved
blame; `Bytes` ties the chunk in the buffer to the
stream positions, and `EndIsReal` says that a half-close was passed on only
behind the last byte.  As both relays implement `StreamRelay`, what a client
may rely on is the same for both proxies.

### The backends

`BackendsProofs` has no behaviour to speak about; its theorem,
`EveryBackendIsACandidate`, is about the operator `backend_candidates`, for any
number of backends (`NumBackendsAssumption`), any start and any flags: the
result has one place for each backend, every backend has one, and those flagged
healthy come first.  `InOrderOf` is the loop that fills one of the two vectors,
a recursive function; that it is defined on the rounds `0..NumBackends` is shown
from the least round on which it would not be, and what it computes by a loop
invariant (`LoopInv`: after *k* rounds the two vectors together have *k*
members, and each of the first *k* backends of the rotation is in the one it
belongs to), again by a least counterexample, as the induction theorems of the
library are of no use to the provers.

### The event loop

`EventLoopProofs` proves, for any number of clients, backends and accepts per
notification, with or without failing local calls, and any `MaxFd` that is
enough for the listener and for one socket of each client and each attempt
(`EventLoopAssumption`; running out of descriptors is one of the failures that
`SetupErrors` stands for):

| Theorem | Statement |
|---|---|
| `Invariance` | `Spec => []EventLoopInv` |
| `TypeCorrect` | `Spec => []TypeOK` |
| `MapsAreExact` | `Spec => []MapsExact` |
| `NothingStaleIsDispatched` | `Spec => []NoStaleDispatch` |
| `NothingLeaks` | `Spec => []NoDescriptorLeak` |
| `EveryConnectIsWatched` | `Spec => []ConnectIsWatched` |
| `NobodyIsAdmittedWhileDraining` | `Spec => DrainAdmitsNobody` |
| `CandidatesAreExhausted` | `Spec => EveryCandidateTried`, which claims something only with `SetupErrors = FALSE` |
| `ConnectionsEndByOwnEvents` | `Spec => EndsByOwnEvent` |

None of the four invariants is inductive: they compare the maps with the kernel
at some places of the loop, and a step breaks them if at the places between
something is forgotten.  `EventLoopInv` says it descriptor by descriptor.  On
the kernel's side a socket has one descriptor (`OneDescriptorEach`), exists only
for a client that was accepted and an attempt that was made
(`SocketsAreKnown`), and only open sockets of backends have a write filter
(`WatchedIsOpen`).  On the program's side every open descriptor is owned by
something that will close it (`OpenIsOwned`), what was put aside is still open
(`RetiredIsOpen`), the sockets of a `Connection` are its own and are not among
those put aside (`ConnectionIsSound`), and the map agrees with all that
(`MapsAgree`).  `EventsAreFresh` is the point of `retired_connections` and
`retired_backend_sockets`: what a notification of the batch is about is what its
descriptor still denotes, because no descriptor is closed before the batch is
over.  `PlaceInLoop` ties the rest to the position of the thread: nothing is put
aside while it sleeps, and the connection in hand is one that still connects.
That a descriptor is always free, which `accept()` and `socket()` need in the
model, counts the sockets against `MaxFd` (`ADescriptorIsFree`).  The three
action properties follow from one lemma, `ConnectionsChange`, on which step adds
or removes which connection.  TLC has checked `EventLoopInv` on the instance of
`eventloop_safety`.

### The blocking server

`BlockingServerProofs` proves, for any number of clients, backends and changes
(`BlockingServerAssumption`, `NumBackendsAssumption`):

| Theorem | Statement |
|---|---|
| `Invariance` | `Spec => []ServerInv` |
| `TypeCorrect` | `Spec => []TypeOK` |
| `TurnedAwayRightly` | `Spec => []TurnedAwayForGoodReason` |
| `EveryClientIsShut` | `Spec => []EveryClientShut` |

A client is refused after `NumBackends` attempts, the property says that it has
ruled out `NumBackends` different backends.  `Search` bridges the two while
threads and checker store verdicts in any order: unless a good verdict came in
between, the backends ruled out have lost their flags, so each attempt goes to
a new one and the attempts made never exceed the backends ruled out; a scan that
finds nothing has, place by place of the rotation, seen only such backends, and
`RotationOffersAll` says that those are all.  `Remembered` is why no client is
missed at the end: a thread is only started for a socket that is in
`active_client_sockets`, and what is not yet shut is still to be.

### The load generator and the path of a request

`LoadGeneratorProofs` proves, for any finite set of workers and any number of
warm-up and measured requests (`LoadGeneratorAssumption`):

| Theorem | Statement |
|---|---|
| `TypeCorrect` | `Spec => []TypeOK` |
| `MeasuredWarm` | `Spec => []MeasuredWhenAllWarm` |
| `FailedIsConnections` | `Spec => []FailedCountsConnections` |
| `PercentilesAreRight` | `Spec => []PercentilesAreRanks` |

The barrier counts heads, the properties name workers.  `BarrierIsFull` bridges
the two: as only workers arrive, and each once, the expected number is there
only if `arrived = Workers`.  `LInv` says who may have arrived (`ArrivedWarm`),
what being past the barrier implies (`PastBarrier`), what `failed_requests` is
at each stage (`FailedSoFar`) and that a latency is kept for each completed
request (`OneLatencyEach`).  The rest of `PercentilesAreRight` is about the
operators of `Statistics`, for every finite collection of numbers: every rank
has a value (`EveryRankIsTaken`, so that `sorted` is defined), the sorted values
rise and each is at its rank (`SortedFacts`), the two indices of a percentile
are in range and at most one apart (`IndicesFit`, the arithmetic of `floor`,
`ceil` and the remainder), and interpolation neither leaves the interval nor
falls (`BetweenBoth`, `BetweenRises`).

`RequestPathProofs` proves, for any number of workers and requests and all sizes
with `MessageLength <= UpCapacity + DownCapacity + 1` (`RequestPathAssumption`):

| Theorem | Statement |
|---|---|
| `PathInvariance` | `PathSpec => []PInv` |
| `RequestsAreAtomic` | `PathSpec => Spec`: the safety part of `ImplementsLoadGenerator` |
| `InStepAlways` | `PathSpec => []ResponsesInStep` |
| `NeverStuck` | `PathSpec => []NobodyStuck` |

A byte of the current request is in one of four places: the response, the way
back, the unsent part of the backend's buffer, the way there.  `InStep` says of
these four values that, one behind the other, they are what was sent; the first
lemmas move bytes from one place to the next without a word about the system.
`PInv` adds the thread's view of its buffer (`recv` only with nothing unsent,
`send` only with something) and that nothing is under way between two requests,
which is what makes `Base` the right place for the next one to begin.
`NeverStuck` is then arithmetic: were both blocked while the worker still sends,
the four places would hold `UpCapacity + DownCapacity + 1` bytes of an
unfinished message, against the assumption; were the worker in `recv` with
nothing on the way back, the response would hold the whole message.

### What is only model-checked

All liveness, with its fairness and `ENABLED`, which is outside TLAPS's reach
with the installed provers: `EveryByteForwarded`, `HalfCloseForwarded`,
`BothDoneRetires`, `SignalStops`, `ConnectResolves`, `BytesForwarded`,
`ThreadsEnd`, `HealthConverges`, `StopsWithNextClient`,
`ReportsUnlessSetupFails`, `BackendThreadsEnd`, and the fairness part of
`ImplementsLoadGenerator` (its safety part is `RequestsAreAtomic`).

## 6. Plan

Done first: the relay, the event loop, the blocking proxy, the health checker,
the load generator's barrier, and the theorems about the relay.

Added since: `SocketOwnership`, the start, the results of a connect and the
exceptions in `EventLoop`; `Statistics`; `EchoBackend` and `RequestPath`; the
theorems about the load generator and the request path; then the theorems about
both servers, the blocking relay, the order of the backends and the percentiles,
and the two refinements of `StreamRelay`.

Next: a composition of the event loop's dispatch with `Relay` for one
connection, and that `EventLoop`'s `HandleRelay` allows what `Relay` does.

------------------------------- MODULE Relay -------------------------------
(***************************************************************************)
(* One established connection of the kqueue proxy (src/kqueue_server.cpp): *)
(* read_direction, write_direction and finish_direction on its two         *)
(* DirectionalBuffers, driven by the notifications kevent() returns, up to *)
(* the retirement of the connection.                                       *)
(*                                                                         *)
(* The proxy is one thread, so one handler runs at a time; but the kernel  *)
(* and the peers do not stop while it runs.  A handler is therefore cut at *)
(* its system calls: handler says which loop is being executed, and every  *)
(* iteration (one recv() or one send() with all that the code does with    *)
(* its result) is a step, between which the peers take theirs.  A batch of *)
(* notifications is fixed when kevent() returns, so a later one may be     *)
(* stale when it is handled.                                               *)
(*                                                                         *)
(* Left out: EINTR (the loops retry), EV_ERROR (only the answer to a       *)
(* change list, which the proxy never asks for) and a failing kevent()     *)
(* registration (README, "What is not modelled").                          *)
(***************************************************************************)
EXTENDS DirectionalBuffer, Sequences

CONSTANTS StreamLength,  \* direction -> the most bytes its source may send
          ReceiveQueue,  \* capacity of the kernel's receive queue
          SendQueue,     \* capacity of the kernel's send queue
          Resettable     \* the sockets whose peer may reset the connection

Sockets    == {"client", "backend"}
Directions == {"client_to_backend", "backend_to_client"}

ASSUME RelayAssumption ==
  /\ StreamLength \in [Directions -> Nat]
  /\ ReceiveQueue \in Nat \ {0}
  /\ SendQueue \in Nat \ {0}
  /\ Resettable \subseteq Sockets

Source(d)      == IF d = "client_to_backend" THEN "client" ELSE "backend"
Destination(d) == IF d = "client_to_backend" THEN "backend" ELSE "client"

VARIABLES
  buffer,        \* direction -> its DirectionalBuffer
  read_filter,   \* direction -> EVFILT_READ registered on its source
  write_filter,  \* direction -> EVFILT_WRITE registered on its destination
  events,        \* notifications of the current batch, not yet looked at
  handler,       \* the loop being executed
  retired,       \* the connection was moved to retired_connections
  produced,      \* direction -> bytes its source peer has sent so far
  fin,           \* direction -> its source peer has half-closed
  received,      \* direction -> bytes recv() has taken so far
  out,           \* direction -> bytes send() has accepted, in order
  consumed,      \* direction -> bytes its destination peer has read
  reset          \* the sockets whose peer has reset the connection

proxyVars  == <<buffer, read_filter, write_filter, events, handler, retired>>
kernelVars == <<produced, fin, received, out, consumed, reset>>
vars       == <<proxyVars, kernelVars>>

Loops == {"none", "read", "write"}
Flags == {"none", "eof", "error"}
Event == [dir : Directions, filter : {"read", "write"}, flag : Flags]

NoHandler == [dir |-> "client_to_backend", loop |-> "none"]
Running(d, loop) == handler = [dir |-> d, loop |-> loop]
Idle == handler = NoHandler

\* What establish_connection leaves behind: both sources are being watched.
Init ==
  /\ buffer       = [d \in Directions |-> EmptyBuffer]
  /\ read_filter  = [d \in Directions |-> TRUE]
  /\ write_filter = [d \in Directions |-> FALSE]
  /\ events       = {}
  /\ handler      = NoHandler
  /\ retired      = FALSE
  /\ produced     = [d \in Directions |-> 0]
  /\ fin          = [d \in Directions |-> FALSE]
  /\ received     = [d \in Directions |-> 0]
  /\ out          = [d \in Directions |-> <<>>]
  /\ consumed     = [d \in Directions |-> 0]
  /\ reset        = {}

-----------------------------------------------------------------------------
(* The two peers.                                                          *)

Produce(d) ==
  /\ produced[d] < StreamLength[d]
  /\ produced[d] - received[d] < ReceiveQueue
  /\ ~fin[d] /\ Source(d) \notin reset
  /\ produced' = [produced EXCEPT ![d] = @ + 1]
  /\ UNCHANGED <<proxyVars, fin, received, out, consumed, reset>>

HalfClose(d) ==
  /\ ~fin[d] /\ Source(d) \notin reset
  /\ fin' = [fin EXCEPT ![d] = TRUE]
  /\ UNCHANGED <<proxyVars, produced, received, out, consumed, reset>>

Consume(d) ==
  /\ consumed[d] < Len(out[d])
  /\ Destination(d) \notin reset
  /\ consumed' = [consumed EXCEPT ![d] = @ + 1]
  /\ UNCHANGED <<proxyVars, produced, fin, received, out, reset>>

Reset(s) ==
  /\ s \in Resettable \ reset
  /\ reset' = reset \cup {s}
  /\ UNCHANGED <<proxyVars, produced, fin, received, out, consumed>>

Peers == \/ \E d \in Directions : Produce(d) \/ HalfClose(d) \/ Consume(d)
         \/ \E s \in Sockets : Reset(s)

-----------------------------------------------------------------------------
(* kevent().                                                               *)

Readable(d) == produced[d] > received[d] \/ fin[d] \/ Source(d) \in reset
Room(d)     == SendQueue - (Len(out[d]) - consumed[d])
Writable(d) == Room(d) > 0 \/ Destination(d) \in reset

\* EV_EOF with fflags # 0 is an error; EV_EOF alone matters only to a writer.
ReadFlags(d)  == IF Source(d) \in reset THEN {"none", "error"} ELSE {"none"}
WriteFlags(d) == IF Destination(d) \in reset THEN Flags ELSE {"none"}

Ready ==
  {e \in Event :
     \/ /\ e.filter = "read" /\ read_filter[e.dir]
        /\ Readable(e.dir) /\ e.flag \in ReadFlags(e.dir)
     \/ /\ e.filter = "write" /\ write_filter[e.dir]
        /\ Writable(e.dir) /\ e.flag \in WriteFlags(e.dir)}

\* A batch holds some of the ready filters, each once.
KeventWait ==
  /\ Idle /\ ~retired /\ events = {}
  /\ \E batch \in SUBSET Ready :
       /\ batch # {}
       /\ \A e, f \in batch : e.dir = f.dir /\ e.filter = f.filter => e = f
       /\ events' = batch
  /\ UNCHANGED <<buffer, read_filter, write_filter, handler, retired, kernelVars>>

-----------------------------------------------------------------------------
(* The handlers.                                                           *)

Fail(b) == [b EXCEPT !.failed = TRUE]

\* Every outcome of finish_direction on buffer b of direction d: nothing to do,
\* shutdown(SHUT_WR) done, or shutdown failed because the peer is gone.
ShutdownWhilePending(d, b) ==
  IF b.failed \/ ~b.read_eof \/ b.write_shutdown
  THEN {b}
  ELSE {[b EXCEPT !.write_shutdown = TRUE]}
finish_direction(d, b) ==
  IF b.failed \/ ~b.read_eof \/ pending(b) # 0 \/ b.write_shutdown
  THEN {b}
  ELSE {[b EXCEPT !.write_shutdown = TRUE]}
       \cup {x \in {Fail(b)} : Destination(d) \in reset}

\* A handler returns with buffer b; its result is false exactly if b failed.
\* The event loop then retires a connection that failed or is finished.
Return(d, b) ==
  /\ buffer'  = [buffer EXCEPT ![d] = b]
  /\ handler' = NoHandler
  /\ retired' = (b.failed \/ \A x \in Directions : finished(buffer'[x]))

Enter(d, b, loop) ==
  /\ buffer'  = [buffer EXCEPT ![d] = b]
  /\ handler' = [dir |-> d, loop |-> loop]
  /\ UNCHANGED retired

\* A notification is taken from the batch; read_direction and write_direction
\* up to their loops.
HandleError(e) ==
  /\ e.flag = "error"
  /\ Return(e.dir, Fail(buffer[e.dir]))

HandleRead(e) ==
  LET b == buffer[e.dir] IN
  /\ e.filter = "read" /\ e.flag # "error"
  /\ IF b.failed \/ b.read_eof \/ b.read_paused
     THEN Return(e.dir, b)
     ELSE Enter(e.dir, Compact(b), "read")

HandleWrite(e) ==
  LET b == buffer[e.dir] IN
  /\ e.filter = "write" /\ e.flag # "error"
  /\ \/ pending(b) = 0 /\ \E x \in finish_direction(e.dir, b) : Return(e.dir, x)
     \/ pending(b) # 0 /\ e.flag = "eof" /\ Return(e.dir, Fail(b))
     \/ pending(b) # 0 /\ e.flag # "eof" /\ b.failed /\ Return(e.dir, b)
     \/ pending(b) # 0 /\ e.flag # "eof" /\ ~b.failed /\ Enter(e.dir, b, "write")

HandleEvent ==
  /\ Idle /\ ~retired
  /\ \E e \in events :
       /\ events' = events \ {e}
       /\ HandleError(e) \/ HandleRead(e) \/ HandleWrite(e)
  /\ UNCHANGED <<read_filter, write_filter, kernelVars>>

\* read_direction, the loop.
PauseRead(d) ==
  LET b == buffer[d] IN
  /\ Running(d, "read") /\ pending(b) >= HighWatermark
  /\ read_filter' = [read_filter EXCEPT ![d] = FALSE]
  /\ Return(d, [b EXCEPT !.read_paused = TRUE])
  /\ UNCHANGED <<write_filter, events, kernelVars>>

\* recv() > 0; the destination is watched once there is something to write.
NeverWatched(b) == FALSE
BecomesPending(b) == pending(b) = 0
RecvData(d) ==
  LET b == buffer[d] IN
  /\ Running(d, "read") /\ pending(b) < HighWatermark
  /\ \E n \in 1 .. Lesser(available(b), produced[d] - received[d]) :
       /\ Enter(d, Fill(b, n, received[d] + 1), "read")
       /\ received' = [received EXCEPT ![d] = @ + n]
  /\ write_filter' = [write_filter EXCEPT ![d] = @ \/ BecomesPending(b)]
  /\ UNCHANGED <<read_filter, events, produced, fin, out, consumed, reset>>

\* recv() = 0: the peer's FIN, or a request for no bytes at all.
RecvEof(d) ==
  LET b == buffer[d] IN
  /\ Running(d, "read") /\ pending(b) < HighWatermark
  /\ available(b) = 0 \/ (produced[d] = received[d] /\ fin[d])
  /\ read_filter' = [read_filter EXCEPT ![d] = FALSE]
  /\ \E x \in finish_direction(d, [b EXCEPT !.read_eof = TRUE]) : Return(d, x)
  /\ UNCHANGED <<write_filter, events, kernelVars>>

\* recv() = -1: EAGAIN ends the loop, any other error fails the direction.
RecvError(d) ==
  LET b == buffer[d] IN
  /\ Running(d, "read") /\ 0 < available(b) /\ pending(b) < HighWatermark
  /\ \/ produced[d] = received[d] /\ ~fin[d] /\ Source(d) \notin reset /\ Return(d, b)
     \/ Source(d) \in reset /\ Return(d, Fail(b))
  /\ UNCHANGED <<read_filter, write_filter, events, kernelVars>>

\* write_direction, the loop: send() > 0.
SendData(d) ==
  LET b == buffer[d] IN
  /\ Running(d, "write") /\ b.offset < b.size
  /\ Destination(d) \notin reset
  /\ \E n \in 1 .. Lesser(pending(b), Room(d)) :
       LET a == Advance(b, n) IN
       /\ Enter(d, [a EXCEPT !.read_paused = @ /\ ~ShouldResume(a)], "write")
       /\ read_filter' = [read_filter EXCEPT ![d] = @ \/ ShouldResume(a)]
       /\ out' = [out EXCEPT ![d] = [i \in 1 .. Len(out[d]) + n |->
                    IF i <= Len(out[d]) THEN out[d][i]
                    ELSE b.data[b.offset + (i - Len(out[d]) - 1)]]]
  /\ UNCHANGED <<write_filter, events, produced, fin, received, consumed, reset>>

\* send() = -1: EAGAIN keeps offset and filter, any other error fails the direction.
SendError(d) ==
  LET b == buffer[d] IN
  /\ Running(d, "write") /\ b.offset < b.size
  /\ \/ Room(d) <= 0 /\ Destination(d) \notin reset /\ Return(d, b)
     \/ Destination(d) \in reset /\ Return(d, Fail(b))
  /\ UNCHANGED <<read_filter, write_filter, events, kernelVars>>

\* The loop has sent everything.
WriteDone(d) ==
  LET b == buffer[d] IN
  /\ Running(d, "write") /\ b.offset >= b.size
  /\ write_filter' = [write_filter EXCEPT ![d] = FALSE]
  /\ \E x \in finish_direction(d, Rewind(b)) : Return(d, x)
  /\ UNCHANGED <<read_filter, events, kernelVars>>

HandlerStep ==
  \E d \in Directions :
    \/ PauseRead(d) \/ RecvData(d) \/ RecvEof(d) \/ RecvError(d)
    \/ SendData(d) \/ SendError(d) \/ WriteDone(d)

\* The connection is over; its sockets are closed when the batch ends.
Terminated == retired /\ UNCHANGED vars

Next == Peers \/ KeventWait \/ HandleEvent \/ HandlerStep \/ Terminated

(***************************************************************************)
(* Fairness.  The event loop does not stop in the middle of a batch or of  *)
(* a handler.  kevent() may leave a ready filter out of a batch (max_events*)
(* is shared with the other connections) but not for ever: kqueue returns  *)
(* active filters in the order of its queue.  Peers read what they are     *)
(* sent; nothing is assumed of what they send.                             *)
(***************************************************************************)
Returns(d, f) == KeventWait /\ \E e \in events' : e.dir = d /\ e.filter = f

Fairness ==
  /\ WF_vars(HandleEvent)
  /\ WF_vars(HandlerStep)
  /\ \A d \in Directions : \A f \in {"read", "write"} : SF_vars(Returns(d, f))
  /\ \A d \in Directions : WF_vars(Consume(d))

Spec     == Init /\ [][Next]_vars
FairSpec == Spec /\ Fairness

-----------------------------------------------------------------------------
(* Properties.                                                             *)

\* The variables have their types.
TypeOK ==
  /\ buffer \in [Directions -> Buffer]
  /\ \A d \in Directions : BufferOK(buffer[d])
  /\ read_filter \in [Directions -> BOOLEAN]
  /\ write_filter \in [Directions -> BOOLEAN]
  /\ events \subseteq Event
  /\ handler \in [dir : Directions, loop : Loops]
  /\ retired \in BOOLEAN
  /\ produced \in [Directions -> Nat]
  /\ fin \in [Directions -> BOOLEAN]
  /\ received \in [Directions -> Nat]
  /\ out \in [Directions -> Seq(Nat)]
  /\ consumed \in [Directions -> Nat]
  /\ reset \subseteq Sockets

\* What a destination has been sent is exactly the beginning of what its source
\* produced: no byte is lost, repeated, reordered or invented by the moves inside
\* the buffer (memmove, partial sends, rewinding).
StreamPrefix ==
  \A d \in Directions :
    /\ out[d] = [i \in 1 .. Len(out[d]) |-> i]
    /\ Len(out[d]) + pending(buffer[d]) = received[d]
    /\ received[d] <= produced[d]

\* "Only recv() == 0 completes the source": a direction takes its source for
\* finished only if the peer half-closed and every byte before that was taken.  A
\* recv() that asks for no bytes, the hazard of a full array, would break it.
EofIsReal ==
  \A d \in Directions :
    buffer[d].read_eof => fin[d] /\ received[d] = produced[d]

\* The half-close is passed on only behind the last byte of the stream, also when
\* the FIN is read while earlier bytes still wait in the buffer.
HalfCloseAfterLastByte ==
  \A d \in Directions :
    buffer[d].write_shutdown => fin[d] /\ Len(out[d]) = produced[d]

\* Between two handlers, kqueue watches exactly what can still make progress: bytes
\* wait => the destination is watched; reading is possible => the source is; a
\* paused source has more than the low watermark waiting, so a later send() will
\* resume it; and an end of stream with nothing left was passed on.
NoLostWakeup ==
  Idle /\ ~retired =>
    \A d \in Directions :
      LET b == buffer[d] IN
      /\ write_filter[d] <=> pending(b) > 0
      /\ read_filter[d] <=> ~b.read_eof /\ ~b.read_paused
      /\ b.read_paused => pending(b) > LowWatermark
      /\ b.read_eof /\ pending(b) = 0 => b.write_shutdown

\* A connection is retired only after a peer reset, or when both streams were
\* delivered to their last byte and half-closed.
RetiredOnlyWhenDone ==
  retired => \/ reset # {}
             \/ \A d \in Directions :
                  /\ buffer[d].write_shutdown
                  /\ fin[d] /\ Len(out[d]) = produced[d]

\* What is true of one direction in every state, the middle of a handler included.
\* The first part relates the buffer to the two streams, the second the flags to
\* them, the third the kqueue filters to the buffer: NoLostWakeup, weakened where
\* the write loop has yet to remove its filter and pass on the end.
Carries(d) ==
  /\ out[d] = [i \in 1 .. Len(out[d]) |-> i]
  /\ Holds(buffer[d], Len(out[d]))
  /\ Len(out[d]) + pending(buffer[d]) = received[d]
  /\ received[d] <= produced[d]

Ends(d) ==
  /\ buffer[d].read_eof => fin[d] /\ received[d] = produced[d]
  /\ buffer[d].write_shutdown => buffer[d].read_eof /\ pending(buffer[d]) = 0

Watches(d) ==
  LET b == buffer[d] IN
  /\ ~b.failed
  /\ pending(b) > 0 => write_filter[d]
  /\ write_filter[d] => pending(b) > 0 \/ Running(d, "write")
  /\ read_filter[d] <=> ~b.read_eof /\ ~b.read_paused
  /\ b.read_paused => pending(b) > LowWatermark /\ ~b.read_eof
  /\ b.read_eof /\ pending(b) = 0 => b.write_shutdown \/ Running(d, "write")

\* The inductive invariant: every direction is in order; a running loop has passed
\* the early returns before it, and the read loop starts at offset 0; a
\* notification of an error, a failure and a retirement have their cause.
LoopInv ==
  ~Idle =>
    LET b == buffer[handler.dir] IN
    /\ ~retired
    /\ handler.loop = "read"  => b.offset = 0 /\ ~b.read_eof /\ ~b.read_paused
    /\ handler.loop = "write" => write_filter[handler.dir]
    /\ handler.loop # "none"

CauseInv ==
  /\ \A e \in events : e.flag # "none" => reset # {}
  /\ retired => reset # {} \/ \A d \in Directions : buffer[d].write_shutdown
  /\ (\A d \in Directions : buffer[d].write_shutdown) => retired

RelayInv ==
  /\ TypeOK
  /\ \A d \in Directions : Carries(d) /\ Ends(d)
  /\ ~retired => \A d \in Directions : Watches(d)
  /\ LoopInv
  /\ CauseInv

\* Every byte that a source sends reaches the other peer, whatever the partial
\* reads and writes, pauses and stale notifications.
EveryByteForwarded ==
  \A d \in Directions : \A k \in 1 .. StreamLength[d] :
    (produced[d] >= k) ~> (consumed[d] >= k)

\* A half-close is eventually seen by the other peer, after all the bytes.
HalfCloseForwarded ==
  \A d \in Directions :
    fin[d] ~> (buffer[d].write_shutdown /\ consumed[d] = produced[d])

\* When both peers are done the connection is retired.
BothDoneRetires == (\A d \in Directions : fin[d]) ~> retired

\* The abstract specification: two byte streams (module StreamRelay).
Abstract == INSTANCE StreamRelay WITH
  closed <- [d \in Directions |-> buffer[d].write_shutdown],
  broken <- reset # {},
  over   <- retired
ImplementsStreams == Abstract!Spec
=============================================================================

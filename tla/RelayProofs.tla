---------------------------- MODULE RelayProofs ----------------------------
(***************************************************************************)
(* RelayInv is an inductive invariant of Relay for every watermark, buffer *)
(* size, stream length and queue capacity; the safety properties of Relay  *)
(* follow from it, and every step of Relay is one of StreamRelay.          *)
(***************************************************************************)
EXTENDS Relay, DirectionalBufferProofs

LEMMA DirectionsFact == NoHandler.dir \in Directions /\ NoHandler.loop = "none"
BY DEF NoHandler, Directions

\* What a flag assignment leaves alone.
LEMMA FlagFacts ==
  ASSUME NEW b, BufferOK(b), NEW n \in Nat, Holds(b, n),
         NEW c \in {[b EXCEPT !.failed = TRUE], [b EXCEPT !.read_paused = TRUE],
                    [b EXCEPT !.read_paused = FALSE], [b EXCEPT !.read_eof = TRUE],
                    [b EXCEPT !.write_shutdown = TRUE]}
  PROVE  /\ BufferOK(c)
         /\ Holds(c, n)
         /\ pending(c) = pending(b)
         /\ c.offset = b.offset
<1>1. b \in Buffer
  BY DEF BufferOK
<1>2. /\ c \in Buffer
      /\ c.data = b.data /\ c.size = b.size /\ c.offset = b.offset
  BY <1>1 DEF Buffer
<1>3. pending(c) = pending(b)
  BY <1>2 DEF pending
<1> QED BY <1>2, <1>3 DEF BufferOK, Holds

\* finish_direction touches only write_shutdown and errorcode: it fails only if the
\* peer is gone, sets write_shutdown only behind the last byte, and never leaves a
\* complete direction open.
LEMMA FinishFacts ==
  ASSUME NEW d \in Directions, NEW b, BufferOK(b), NEW n \in Nat, Holds(b, n),
         NEW c \in finish_direction(d, b)
  PROVE  /\ BufferOK(c)
         /\ Holds(c, n)
         /\ pending(c) = pending(b)
         /\ c.read_eof = b.read_eof /\ c.read_paused = b.read_paused
         /\ c.failed => b.failed \/ reset # {}
         /\ c.write_shutdown => b.write_shutdown \/ (b.read_eof /\ pending(b) = 0)
         /\ ~c.failed /\ c.read_eof /\ pending(c) = 0 => c.write_shutdown
<1>1. b \in Buffer
  BY DEF BufferOK
<1>2. CASE b.failed \/ ~b.read_eof \/ pending(b) # 0 \/ b.write_shutdown
  BY <1>1, <1>2 DEF finish_direction, Buffer
<1>3. CASE ~(b.failed \/ ~b.read_eof \/ pending(b) # 0 \/ b.write_shutdown)
  <2>1. \/ c = [b EXCEPT !.write_shutdown = TRUE]
        \/ c = [b EXCEPT !.failed = TRUE] /\ reset # {}
    BY <1>3 DEF finish_direction, Fail
  <2>2. BufferOK(c) /\ Holds(c, n) /\ pending(c) = pending(b)
    BY <2>1, FlagFacts
  <2>3. /\ c.read_eof = b.read_eof /\ c.read_paused = b.read_paused
        /\ \/ c.write_shutdown /\ c.failed = b.failed
           \/ c.failed /\ c.write_shutdown = b.write_shutdown /\ reset # {}
    BY <1>1, <2>1 DEF Buffer
  <2> QED BY <1>3, <2>2, <2>3
<1> QED BY <1>2, <1>3

\* A step of a handler on direction d that leaves buffer c behind: what must be
\* shown of d for the whole invariant to be kept.
LEMMA HandlerKeepsInv ==
  ASSUME RelayInv, ~retired,
         NEW d \in Directions, NEW c, BufferOK(c),
         buffer' = [buffer EXCEPT ![d] = c],
         read_filter' \in [Directions -> BOOLEAN],
         write_filter' \in [Directions -> BOOLEAN],
         received' \in [Directions -> Nat],
         out' \in [Directions -> Seq(Nat)],
         \A x \in Directions \ {d} :
           /\ read_filter'[x] = read_filter[x] /\ write_filter'[x] = write_filter[x]
           /\ received'[x] = received[x] /\ out'[x] = out[x],
         UNCHANGED <<produced, fin, consumed, reset>>,
         events' \subseteq events,
         Idle \/ handler.dir = d,
         Carries(d)', Ends(d)',
         \/ /\ handler' = NoHandler
            /\ retired' = (c.failed \/ \A x \in Directions : finished(buffer'[x]))
            /\ c.failed => reset # {}
            /\ ~c.failed => Watches(d)'
         \/ /\ handler' \in [dir : {d}, loop : {"read", "write"}]
            /\ retired' = retired
            /\ Watches(d)'
            /\ LoopInv'
            /\ ~c.write_shutdown
  PROVE  RelayInv'
<1> USE DEF RelayInv
<1>1. /\ buffer'[d] = c
      /\ \A x \in Directions \ {d} : buffer'[x] = buffer[x]
  BY DEF TypeOK
<1>2. c \in Buffer /\ c.failed \in BOOLEAN
  BY DEF BufferOK, Buffer
<1>3. TypeOK'
  <2>1. handler' \in [dir : Directions, loop : Loops]
    BY DirectionsFact DEF NoHandler, Loops
  <2>2. /\ buffer' \in [Directions -> Buffer]
        /\ \A x \in Directions : BufferOK(buffer'[x])
    BY <1>1, <1>2 DEF TypeOK
  <2>3. retired' \in BOOLEAN
    BY <1>2 DEF TypeOK
  <2> QED BY <2>1, <2>2, <2>3 DEF TypeOK
<1>4. ASSUME NEW x \in Directions \ {d}
      PROVE  Carries(x)' /\ Ends(x)' /\ Watches(x)'
  <2>1. /\ buffer'[x] = buffer[x] /\ out'[x] = out[x] /\ received'[x] = received[x]
        /\ produced'[x] = produced[x] /\ fin'[x] = fin[x]
        /\ read_filter'[x] = read_filter[x] /\ write_filter'[x] = write_filter[x]
    BY <1>1
  <2>2. Running(x, "write") <=> Running(x, "write")'
    BY DirectionsFact DEF Running, Idle, NoHandler
  <2> QED BY <2>1, <2>2 DEF Carries, Ends, Watches
<1>5. \A x \in Directions : Carries(x)' /\ Ends(x)'
  BY <1>4
<1>6. ~retired' => \A x \in Directions : Watches(x)'
  BY <1>4
<1>7. LoopInv'
  BY DEF LoopInv, Idle
<1>8. CauseInv'
  <2>1. \A e \in events' : e.flag # "none" => reset' # {}
    BY DEF CauseInv
  <2>2. retired' => reset' # {} \/ \A x \in Directions : buffer'[x].write_shutdown
    BY DEF finished
  <2>3. (\A x \in Directions : buffer'[x].write_shutdown) => retired'
    <3> SUFFICES ASSUME \A x \in Directions : buffer'[x].write_shutdown
                 PROVE  retired'
      OBVIOUS
    <3>1. retired' = (c.failed \/ \A x \in Directions : finished(buffer'[x]))
      BY <1>1
    <3>2. ASSUME ~c.failed, NEW x \in Directions PROVE finished(buffer'[x])
      <4>1. buffer'[x].read_eof /\ pending(buffer'[x]) = 0
        BY <1>5 DEF Ends
      <4>2. ~buffer'[x].failed
        BY <1>1, <3>2, <1>4 DEF Watches
      <4> QED BY <4>1, <4>2 DEF finished
    <3> QED BY <3>1, <3>2
  <2> QED BY <2>1, <2>2, <2>3 DEF CauseInv
<1> QED BY <1>3, <1>5, <1>6, <1>7, <1>8

-----------------------------------------------------------------------------
(* The initial state and the environment.                                  *)

LEMMA InitInv == Init => RelayInv
<1> SUFFICES ASSUME Init PROVE RelayInv
  OBVIOUS
<1> USE DEF Init
<1>1. \A d \in Directions : buffer[d] = EmptyBuffer /\ out[d] = <<>>
  OBVIOUS
<1>2. /\ EmptyBuffer \in Buffer
      /\ ~EmptyBuffer.read_eof /\ ~EmptyBuffer.read_paused
      /\ ~EmptyBuffer.write_shutdown /\ ~EmptyBuffer.failed
  BY EmptyBufferFacts DEF BufferOK, EmptyBuffer
<1>3. TypeOK
  <2>1. buffer \in [Directions -> Buffer] /\ \A d \in Directions : BufferOK(buffer[d])
    BY <1>1, <1>2, EmptyBufferFacts
  <2>2. out \in [Directions -> Seq(Nat)]
    OBVIOUS
  <2>3. handler \in [dir : Directions, loop : Loops]
    BY DirectionsFact DEF NoHandler, Loops
  <2>4. events \subseteq Event /\ reset \subseteq Sockets
    OBVIOUS
  <2> QED BY <2>1, <2>2, <2>3, <2>4 DEF TypeOK
<1>4. \A d \in Directions : Carries(d) /\ Ends(d) /\ Watches(d)
  BY <1>1, <1>2, EmptyBufferFacts DEF Carries, Ends, Watches
<1>5. LoopInv
  BY DEF LoopInv, Idle
<1>6. CauseInv
  BY <1>1, <1>2, DirectionsFact DEF CauseInv
<1> QED BY <1>3, <1>4, <1>5, <1>6 DEF RelayInv

\* The peers change neither the buffers nor the filters; a longer stream or a
\* half-close cannot contradict an end of stream already seen.
LEMMA PeersKeepInv == RelayInv /\ Peers => RelayInv'
<1> SUFFICES ASSUME RelayInv, Peers PROVE RelayInv'
  OBVIOUS
<1>1. UNCHANGED proxyVars /\ UNCHANGED <<received, out>>
  BY DEF Peers, Produce, HalfClose, Consume, Reset
<1>2. TypeOK'
  <2> USE DEF RelayInv, TypeOK, proxyVars
  <2>1. ASSUME NEW d \in Directions, Produce(d) PROVE TypeOK'
    BY <2>1, SMTT(30) DEF Produce
  <2>2. ASSUME NEW d \in Directions, HalfClose(d) PROVE TypeOK'
    BY <2>2, SMTT(30) DEF HalfClose
  <2>3. ASSUME NEW d \in Directions, Consume(d) PROVE TypeOK'
    BY <2>3, SMTT(30) DEF Consume
  <2>4. ASSUME NEW s \in Sockets, Reset(s) PROVE TypeOK'
    BY <2>4 DEF Reset
  <2> QED BY <2>1, <2>2, <2>3, <2>4 DEF Peers
<1>3. ASSUME NEW d \in Directions
      PROVE  /\ produced[d] <= produced'[d]
             /\ fin[d] => fin'[d] /\ produced'[d] = produced[d]
  <2> USE DEF RelayInv, TypeOK
  <2>1. ASSUME NEW x \in Directions, Produce(x)
        PROVE  produced[d] <= produced'[d] /\ (fin[d] => fin'[d] /\ produced'[d] = produced[d])
    BY <2>1, SMTT(30) DEF Produce
  <2>2. ASSUME NEW x \in Directions, HalfClose(x)
        PROVE  produced[d] <= produced'[d] /\ (fin[d] => fin'[d] /\ produced'[d] = produced[d])
    BY <2>2, SMTT(30) DEF HalfClose
  <2>3. CASE UNCHANGED <<produced, fin>>
    BY <2>3
  <2> QED BY <2>1, <2>2, <2>3 DEF Peers, Consume, Reset
<1>4. reset \subseteq reset'
  BY DEF Peers, Produce, HalfClose, Consume, Reset
<1>5. ASSUME NEW d \in Directions
      PROVE  Carries(d)' /\ Ends(d)' /\ (~retired' => Watches(d)')
  <2>1. /\ received[d] \in Nat /\ received'[d] = received[d] /\ out'[d] = out[d]
        /\ produced[d] \in Nat /\ produced'[d] \in Nat
    BY <1>1, <1>2 DEF RelayInv, TypeOK
  <2>2. Carries(d)'
    <3>1. buffer' = buffer
      BY <1>1 DEF proxyVars
    <3>2. Carries(d)
      BY DEF RelayInv
    <3>3. received'[d] <= produced'[d]
      BY <1>3, <2>1, <3>2 DEF Carries
    <3> QED BY <2>1, <3>1, <3>2, <3>3 DEF Carries
  <2>3. Ends(d)'
    BY <1>1, <1>3, <2>1 DEF RelayInv, proxyVars, Ends
  <2>4. ~retired' => Watches(d)'
    BY <1>1 DEF RelayInv, proxyVars, Watches, Running
  <2> QED BY <2>2, <2>3, <2>4
<1>6. LoopInv' /\ CauseInv'
  BY <1>1, <1>4 DEF RelayInv, proxyVars, LoopInv, CauseInv, Idle
<1> QED BY <1>2, <1>5, <1>6 DEF RelayInv

\* kevent() reports errors only of a peer that is gone.
LEMMA KeventWaitKeepsInv == RelayInv /\ KeventWait => RelayInv'
<1> SUFFICES ASSUME RelayInv, KeventWait PROVE RelayInv'
  OBVIOUS
<1> USE DEF RelayInv
<1>1. /\ UNCHANGED <<buffer, read_filter, write_filter, handler, retired, kernelVars>>
      /\ events' \subseteq Ready
  BY DEF KeventWait
<1>2. \A e \in Ready : e \in Event /\ (e.flag # "none" => reset # {})
  BY DEF Ready, ReadFlags, WriteFlags
<1>3. TypeOK'
  BY <1>1, <1>2 DEF TypeOK, kernelVars
<1>4. CauseInv'
  BY <1>1, <1>2 DEF CauseInv, kernelVars
<1>5. LoopInv'
  BY <1>1 DEF LoopInv, Idle
<1>6. \A d \in Directions : Carries(d)' /\ Ends(d)' /\ (~retired' => Watches(d)')
  BY <1>1 DEF Carries, Ends, Watches, Running, kernelVars
<1> QED BY <1>3, <1>4, <1>5, <1>6

-----------------------------------------------------------------------------
(* The handlers.                                                           *)

\* The parts of the invariant about one direction, in the form the handlers use.
LEMMA DirectionFacts ==
  ASSUME RelayInv, NEW d \in Directions
  PROVE  /\ buffer[d] \in Buffer /\ BufferOK(buffer[d])
         /\ Len(out[d]) \in Nat /\ Holds(buffer[d], Len(out[d]))
         /\ received[d] \in Nat /\ produced[d] \in Nat /\ received[d] <= produced[d]
         /\ received[d] = Len(out[d]) + pending(buffer[d])
         /\ Carries(d) /\ Ends(d)
         /\ ~retired => Watches(d)
BY DEF RelayInv, TypeOK, Carries

\* A handler that returns without having moved a byte leaves a buffer c with the same
\* pending bytes and sets the two filters of its direction to r and w.
LEMMA ReturnKeepsInv ==
  ASSUME RelayInv, ~retired, NEW d \in Directions, Idle \/ handler.dir = d,
         NEW c, BufferOK(c), Holds(c, Len(out[d])), pending(c) = pending(buffer[d]),
         NEW r \in BOOLEAN, NEW w \in BOOLEAN,
         read_filter' = [read_filter EXCEPT ![d] = r],
         write_filter' = [write_filter EXCEPT ![d] = w],
         events' \subseteq events,
         UNCHANGED kernelVars,
         Return(d, c),
         c.read_eof => fin[d] /\ received[d] = produced[d],
         c.write_shutdown => c.read_eof /\ pending(c) = 0,
         c.failed => reset # {},
         ~c.failed => /\ w <=> pending(c) > 0
                      /\ r <=> ~c.read_eof /\ ~c.read_paused
                      /\ c.read_paused => pending(c) > LowWatermark /\ ~c.read_eof
                      /\ c.read_eof /\ pending(c) = 0 => c.write_shutdown
  PROVE  RelayInv'
<1>1. /\ buffer' = [buffer EXCEPT ![d] = c] /\ handler' = NoHandler
      /\ retired' = (c.failed \/ \A x \in Directions : finished(buffer'[x]))
  BY DEF Return
<1>2. /\ buffer'[d] = c /\ read_filter'[d] = r /\ write_filter'[d] = w
      /\ \A x \in Directions \ {d} :
           read_filter'[x] = read_filter[x] /\ write_filter'[x] = write_filter[x]
  BY <1>1 DEF RelayInv, TypeOK
<1>3. Carries(d)' /\ Ends(d)'
  BY <1>2, DirectionFacts DEF Carries, Ends, kernelVars
<1>4. ~c.failed => Watches(d)'
  BY <1>2 DEF Watches
<1>5. /\ read_filter' \in [Directions -> BOOLEAN] /\ write_filter' \in [Directions -> BOOLEAN]
      /\ received' \in [Directions -> Nat] /\ out' \in [Directions -> Seq(Nat)]
  BY DEF RelayInv, TypeOK, kernelVars
<1> QED BY <1>1, <1>2, <1>3, <1>4, <1>5, HandlerKeepsInv DEF kernelVars

\* A filter that is left alone.
LEMMA FilterFacts ==
  ASSUME RelayInv, NEW d \in Directions
  PROVE  /\ read_filter[d] \in BOOLEAN /\ write_filter[d] \in BOOLEAN
         /\ read_filter = [read_filter EXCEPT ![d] = read_filter[d]]
         /\ write_filter = [write_filter EXCEPT ![d] = write_filter[d]]
BY DEF RelayInv, TypeOK

LEMMA HandleErrorKeepsInv ==
  ASSUME RelayInv, HandleEvent, NEW e \in events, events' = events \ {e}, HandleError(e)
  PROVE  RelayInv'
<1> DEFINE d == e.dir
           c == Fail(buffer[d])
<1>1. d \in Directions /\ reset # {} /\ ~retired /\ Idle
  BY DEF RelayInv, TypeOK, Event, CauseInv, HandleError, HandleEvent
<1>2. Return(d, c) /\ UNCHANGED <<read_filter, write_filter, kernelVars>>
  BY DEF HandleError, HandleEvent
<1> HIDE DEF d
<1>3. /\ BufferOK(c) /\ Holds(c, Len(out[d])) /\ pending(c) = pending(buffer[d])
      /\ c.failed /\ c.read_eof = buffer[d].read_eof
      /\ c.write_shutdown = buffer[d].write_shutdown
  BY <1>1, DirectionFacts, FlagFacts DEF Fail, Buffer
<1> HIDE DEF c
<1>4. /\ c.read_eof => fin[d] /\ received[d] = produced[d]
      /\ c.write_shutdown => c.read_eof /\ pending(c) = 0
  BY <1>1, <1>3, DirectionFacts DEF Ends
<1> QED BY <1>1, <1>2, <1>3, <1>4, FilterFacts, ReturnKeepsInv

\* A read notification: nothing to do, or the loop is entered on a compacted buffer.
LEMMA HandleReadKeepsInv ==
  ASSUME RelayInv, HandleEvent, NEW e \in events, events' = events \ {e}, HandleRead(e)
  PROVE  RelayInv'
<1> DEFINE d == e.dir
           b == buffer[d]
           c == Compact(b)
<1>1. d \in Directions /\ ~retired /\ Idle
  BY DEF RelayInv, TypeOK, Event, HandleEvent
<1>2. UNCHANGED <<read_filter, write_filter, kernelVars>>
  BY DEF HandleEvent
<1>3. \/ Return(d, b)
      \/ ~b.failed /\ ~b.read_eof /\ ~b.read_paused /\ Enter(d, c, "read")
  BY DEF HandleRead
<1> HIDE DEF d
<1>4. ~Running(d, "write")
  BY <1>1, DirectionsFact DEF Running, Idle
<1>5. CASE Return(d, b)
  <2>1. Watches(d) /\ Ends(d)
    BY <1>1, DirectionFacts
  <2>2. /\ ~b.failed /\ (write_filter[d] <=> pending(b) > 0)
        /\ read_filter[d] <=> ~b.read_eof /\ ~b.read_paused
        /\ b.read_paused => pending(b) > LowWatermark /\ ~b.read_eof
        /\ b.read_eof /\ pending(b) = 0 => b.write_shutdown
    BY <2>1, <1>4, <1>1, FilterFacts DEF Watches
  <2>3. /\ b.read_eof => fin[d] /\ received[d] = produced[d]
        /\ b.write_shutdown => b.read_eof /\ pending(b) = 0
    BY <2>1 DEF Ends
  <2> HIDE DEF b
  <2>4. b = buffer[d]
    BY DEF b
  <2> QED BY <1>1, <1>2, <1>5, <2>2, <2>3, <2>4, DirectionFacts, FilterFacts, ReturnKeepsInv
<1>6. CASE ~b.failed /\ ~b.read_eof /\ ~b.read_paused /\ Enter(d, c, "read")
  <2>1. /\ BufferOK(c) /\ Holds(c, Len(out[d])) /\ pending(c) = pending(b)
        /\ c.offset = 0 /\ SameFlags(b, c)
    BY <1>1, DirectionFacts, CompactFacts
  <2>2. /\ buffer' = [buffer EXCEPT ![d] = c]
        /\ handler' = [dir |-> d, loop |-> "read"] /\ retired' = retired
    BY <1>6 DEF Enter
  <2>3. buffer'[d] = c
    BY <1>1, <2>2 DEF RelayInv, TypeOK
  <2> HIDE DEF c
  <2>4. Carries(d)' /\ Ends(d)'
    BY <1>1, <1>2, <2>1, <2>3, DirectionFacts DEF Carries, Ends, SameFlags, kernelVars
  <2>5. Watches(d)'
    BY <1>1, <1>2, <1>4, <1>6, <2>1, <2>3, DirectionFacts DEF Watches, SameFlags
  <2>6. LoopInv' /\ ~c.write_shutdown
    BY <1>1, <1>6, <2>1, <2>2, <2>3, DirectionFacts DEF LoopInv, SameFlags, Ends
  <2>7. /\ read_filter' \in [Directions -> BOOLEAN] /\ write_filter' \in [Directions -> BOOLEAN]
        /\ received' \in [Directions -> Nat] /\ out' \in [Directions -> Seq(Nat)]
        /\ events' \subseteq events
    BY <1>2 DEF RelayInv, TypeOK, kernelVars
  <2> QED BY <1>1, <1>2, <2>1, <2>2, <2>4, <2>5, <2>6, <2>7, HandlerKeepsInv DEF kernelVars
<1> QED BY <1>3, <1>5, <1>6

\* Between two handlers a direction watches what it can make progress on.
LEMMA IdleWatches ==
  ASSUME RelayInv, ~retired, NEW d \in Directions, ~Running(d, "write")
  PROVE  LET b == buffer[d] IN
         /\ ~b.failed
         /\ write_filter[d] <=> pending(b) > 0
         /\ read_filter[d] <=> ~b.read_eof /\ ~b.read_paused
         /\ b.read_paused => pending(b) > LowWatermark /\ ~b.read_eof
         /\ b.read_eof /\ pending(b) = 0 => b.write_shutdown
<1>1. Watches(d)
  BY DirectionFacts
<1>2. write_filter[d] \in BOOLEAN
  BY FilterFacts
<1> QED BY <1>1, <1>2 DEF Watches

\* A write notification: the end is passed on, the direction fails, or the loop is
\* entered with bytes to send.
LEMMA HandleWriteKeepsInv ==
  ASSUME RelayInv, HandleEvent, NEW e \in events, events' = events \ {e}, HandleWrite(e)
  PROVE  RelayInv'
<1> DEFINE d == e.dir
           b == buffer[d]
<1>1. d \in Directions /\ ~retired /\ Idle
  BY DEF RelayInv, TypeOK, Event, HandleEvent
<1>2. UNCHANGED <<read_filter, write_filter, kernelVars>>
  BY DEF HandleEvent
<1>3. e.flag # "none" => reset # {}
  BY DEF RelayInv, CauseInv
<1>4. \/ pending(b) = 0 /\ \E x \in finish_direction(d, b) : Return(d, x)
      \/ pending(b) # 0 /\ e.flag # "none" /\ Return(d, Fail(b))
      \/ pending(b) # 0 /\ b.failed
      \/ pending(b) # 0 /\ ~b.failed /\ Enter(d, b, "write")
  BY DEF HandleWrite
<1> HIDE DEF d
<1>5. ~Running(d, "write")
  BY <1>1, DirectionsFact DEF Running, Idle
<1> DEFINE n == Len(out[d])
<1>6. /\ BufferOK(b) /\ b \in Buffer /\ n \in Nat /\ Holds(b, n) /\ pending(b) \in Nat
      /\ ~b.failed
      /\ write_filter[d] <=> pending(b) > 0
      /\ read_filter[d] <=> ~b.read_eof /\ ~b.read_paused
      /\ b.read_paused => pending(b) > LowWatermark /\ ~b.read_eof
      /\ b.read_eof /\ pending(b) = 0 => b.write_shutdown
      /\ b.read_eof => fin[d] /\ received[d] = produced[d]
      /\ b.write_shutdown => b.read_eof /\ pending(b) = 0
  BY <1>1, <1>5, DirectionFacts, IdleWatches, PendingBounds DEF Ends
<1>7. CASE pending(b) = 0 /\ \E x \in finish_direction(d, b) : Return(d, x)
  <2>1. PICK c \in finish_direction(d, b) : Return(d, c)
    BY <1>7
  <2>2. c = b
    BY <1>6, <1>7 DEF finish_direction
  <2> HIDE DEF b
  <2>3. b = buffer[d]
    BY DEF b
  <2> QED BY <1>1, <1>2, <1>6, <2>1, <2>2, <2>3, FilterFacts, ReturnKeepsInv
<1>8. CASE pending(b) # 0 /\ e.flag # "none" /\ Return(d, Fail(b))
  <2> DEFINE c == Fail(b)
  <2>1. /\ BufferOK(c) /\ Holds(c, n) /\ pending(c) = pending(b)
        /\ c.failed /\ c.read_eof = b.read_eof /\ c.write_shutdown = b.write_shutdown
    BY <1>6, FlagFacts DEF Fail, Buffer
  <2>2. Return(d, c)
    BY <1>8
  <2> HIDE DEF c
  <2> QED BY <1>1, <1>2, <1>3, <1>6, <1>8, <2>1, <2>2, FilterFacts, ReturnKeepsInv
<1>9. CASE pending(b) # 0 /\ ~b.failed /\ Enter(d, b, "write")
  <2>1. /\ buffer' = [buffer EXCEPT ![d] = b]
        /\ handler' = [dir |-> d, loop |-> "write"] /\ retired' = retired
    BY <1>9 DEF Enter
  <2>2. buffer'[d] = b
    BY <1>1, <2>1 DEF RelayInv, TypeOK
  <2>3. Carries(d)' /\ Ends(d)'
    BY <1>1, <1>2, <2>2, DirectionFacts DEF Carries, Ends, kernelVars
  <2>4. Watches(d)' /\ LoopInv'
    BY <1>1, <1>2, <1>6, <1>9, <2>1, <2>2 DEF Watches, LoopInv
  <2>5. /\ read_filter' \in [Directions -> BOOLEAN] /\ write_filter' \in [Directions -> BOOLEAN]
        /\ received' \in [Directions -> Nat] /\ out' \in [Directions -> Seq(Nat)]
        /\ events' \subseteq events /\ ~b.write_shutdown
    BY <1>2, <1>6, <1>9 DEF RelayInv, TypeOK, kernelVars
  <2> HIDE DEF b
  <2> QED BY <1>1, <1>2, <1>6, <2>1, <2>3, <2>4, <2>5, HandlerKeepsInv DEF kernelVars
<1> QED BY <1>4, <1>6, <1>7, <1>8, <1>9

\* A full buffer pauses the source; what waits is above the low watermark.
LEMMA PauseReadKeepsInv ==
  ASSUME RelayInv, NEW d \in Directions, PauseRead(d)
  PROVE  RelayInv'
<1> DEFINE b == buffer[d]
           c == [b EXCEPT !.read_paused = TRUE]
<1>1. /\ handler.dir = d /\ handler.loop = "read" /\ ~Idle /\ ~Running(d, "write")
      /\ pending(b) >= HighWatermark
      /\ Return(d, c)
      /\ read_filter' = [read_filter EXCEPT ![d] = FALSE]
      /\ UNCHANGED <<write_filter, events, kernelVars>>
  BY DirectionsFact DEF PauseRead, Running, Idle
<1>2. ~retired /\ ~b.read_eof
  BY <1>1 DEF RelayInv, LoopInv
<1>3. /\ BufferOK(b) /\ b \in Buffer /\ Len(out[d]) \in Nat /\ Holds(b, Len(out[d]))
      /\ ~b.failed /\ pending(b) \in Nat
      /\ write_filter[d] <=> pending(b) > 0
      /\ b.write_shutdown => b.read_eof /\ pending(b) = 0
  BY <1>1, <1>2, DirectionFacts, IdleWatches, PendingBounds DEF Ends
<1>4. /\ BufferOK(c) /\ Holds(c, Len(out[d])) /\ pending(c) = pending(b)
      /\ ~c.failed /\ ~c.read_eof /\ c.read_paused /\ ~c.write_shutdown
  BY <1>2, <1>3, FlagFacts DEF Buffer
<1>5. pending(c) > LowWatermark
  BY <1>1, <1>3, <1>4, WatermarkAssumption
<1> HIDE DEF c
<1> QED BY <1>1, <1>2, <1>3, <1>4, <1>5, FilterFacts, ReturnKeepsInv

\* What the read loop finds: a compacted buffer with room, so that recv() is asked
\* for at least one byte.
LEMMA ReadLoopFacts ==
  ASSUME RelayInv, NEW d \in Directions, Running(d, "read"), pending(buffer[d]) < HighWatermark
  PROVE  LET b == buffer[d] IN
         /\ ~retired /\ handler.dir = d
         /\ b \in Buffer /\ BufferOK(b) /\ Len(out[d]) \in Nat /\ Holds(b, Len(out[d]))
         /\ pending(b) \in Nat /\ b.size \in Nat /\ b.size < HighWatermark
         /\ available(b) \in Nat /\ 0 < available(b) /\ available(b) <= HighWatermark - b.size
         /\ b.offset = 0 /\ ~b.failed /\ ~b.read_eof /\ ~b.read_paused /\ ~b.write_shutdown
         /\ write_filter[d] <=> pending(b) > 0
         /\ read_filter[d]
<1> DEFINE b == buffer[d]
<1>1. ~retired /\ handler.dir = d /\ handler.loop = "read" /\ ~Running(d, "write")
  BY DirectionsFact DEF RelayInv, LoopInv, Running, Idle
<1>2. b.offset = 0 /\ ~b.read_eof /\ ~b.read_paused
  BY <1>1, DirectionsFact DEF RelayInv, LoopInv, Idle
<1>3. /\ BufferOK(b) /\ b \in Buffer /\ Len(out[d]) \in Nat /\ Holds(b, Len(out[d]))
      /\ ~b.failed
      /\ write_filter[d] <=> pending(b) > 0
      /\ read_filter[d]
      /\ ~b.write_shutdown
  BY <1>1, <1>2, DirectionFacts, IdleWatches DEF Ends
<1>4. pending(b) \in Nat /\ b.size \in Nat /\ b.size = pending(b)
  BY <1>2, <1>3, PendingBounds
<1>5. b.size < HighWatermark
  BY <1>4
<1>6. HighWatermark - b.size \in Nat /\ 0 < HighWatermark - b.size
  BY <1>4, <1>5, WatermarkAssumption
<1>7. available(b) \in Nat /\ 0 < available(b) /\ available(b) <= HighWatermark - b.size
  <2> DEFINE m == HighWatermark - b.size
  <2>1. m \in Nat /\ 0 < m /\ BufferSize \in Nat /\ 0 < BufferSize
    BY <1>6, WatermarkAssumption
  <2>2. available(b) = Lesser(BufferSize, m)
    BY DEF available
  <2> HIDE DEF m
  <2>3. available(b) \in Nat /\ 0 < available(b) /\ available(b) <= m
    BY <2>1, <2>2 DEF Lesser
  <2> QED BY <2>3 DEF m
<1> QED BY <1>1, <1>2, <1>3, <1>4, <1>5, <1>7

\* The bytes that recv() appends are the next ones of the stream, and the
\* destination is watched from the first of them on.
LEMMA RecvDataKeepsInv ==
  ASSUME RelayInv, NEW d \in Directions, RecvData(d)
  PROVE  RelayInv'
<1> DEFINE b == buffer[d]
<1>1. PICK n \in 1 .. Lesser(available(b), produced[d] - received[d]) :
        /\ Enter(d, Fill(b, n, received[d] + 1), "read")
        /\ received' = [received EXCEPT ![d] = @ + n]
  BY DEF RecvData
<1> DEFINE c == Fill(b, n, received[d] + 1)
<1>2. /\ Running(d, "read") /\ pending(b) < HighWatermark
      /\ write_filter' = [write_filter EXCEPT ![d] = @ \/ BecomesPending(b)]
      /\ UNCHANGED <<read_filter, events, produced, fin, out, consumed, reset>>
  BY DEF RecvData
<1>3. /\ ~retired /\ handler.dir = d
      /\ b \in Buffer /\ BufferOK(b) /\ Len(out[d]) \in Nat /\ Holds(b, Len(out[d]))
      /\ pending(b) \in Nat /\ b.size \in Nat
      /\ available(b) \in Nat /\ available(b) <= HighWatermark - b.size
      /\ b.offset = 0 /\ ~b.failed /\ ~b.read_eof /\ ~b.read_paused /\ ~b.write_shutdown
      /\ write_filter[d] <=> pending(b) > 0
      /\ read_filter[d]
  BY <1>2, ReadLoopFacts
<1>4. /\ received[d] \in Nat /\ produced[d] \in Nat /\ received[d] <= produced[d]
      /\ received[d] = Len(out[d]) + pending(b)
      /\ out[d] = [i \in 1 .. Len(out[d]) |-> i]
  BY DirectionFacts DEF Carries
<1>5. /\ n \in Nat /\ 0 < n /\ n <= HighWatermark - b.size
      /\ received[d] + n <= produced[d]
  <2> DEFINE ready == produced[d] - received[d]
             asked == available(b)
  <2>1. ready \in Nat /\ asked \in Nat
    BY <1>3, <1>4
  <2>2. n \in 1 .. Lesser(asked, ready)
    OBVIOUS
  <2> HIDE DEF ready, asked
  <2>3. n \in Nat /\ 0 < n /\ n <= asked /\ n <= ready
    BY <2>1, <2>2 DEF Lesser
  <2>4. received[d] + n <= produced[d]
    BY <1>4, <2>3 DEF ready
  <2>5. n <= HighWatermark - b.size
    <3> DEFINE room == HighWatermark - b.size
    <3>1. asked <= room /\ room \in Int
      BY <1>3, WatermarkAssumption DEF asked
    <3> HIDE DEF room
    <3>2. n <= room
      BY <2>1, <2>3, <3>1
    <3> QED BY <3>2 DEF room
  <2> QED BY <2>3, <2>4, <2>5
<1>6. c = Fill(b, n, Len(out[d]) + pending(b) + 1)
  BY <1>4
<1>7. /\ BufferOK(c) /\ Holds(c, Len(out[d])) /\ pending(c) = pending(b) + n
      /\ c.offset = 0 /\ SameFlags(b, c)
  BY SMTT(30), <1>3, <1>5, <1>6, FillFacts
<1>8. /\ buffer' = [buffer EXCEPT ![d] = c]
      /\ handler' = [dir |-> d, loop |-> "read"] /\ retired' = retired
  BY <1>1 DEF Enter
<1> HIDE DEF c
<1>9. /\ buffer'[d] = c /\ received'[d] = received[d] + n /\ write_filter'[d] = TRUE
      /\ \A x \in Directions \ {d} :
           received'[x] = received[x] /\ write_filter'[x] = write_filter[x]
      /\ received' \in [Directions -> Nat]
      /\ write_filter' \in [Directions -> BOOLEAN]
  <2>1. write_filter[d] \/ BecomesPending(b)
    BY <1>3 DEF BecomesPending
  <2>2. write_filter' = [write_filter EXCEPT ![d] = TRUE]
    BY <1>2, <2>1
  <2> QED BY SMTT(30), <1>1, <1>2, <1>4, <1>5, <1>8, <2>2 DEF RelayInv, TypeOK
<1>10. Carries(d)' /\ Ends(d)'
  BY SMTT(30), <1>2, <1>3, <1>4, <1>5, <1>7, <1>9 DEF Carries, Ends, SameFlags
<1>11. Watches(d)' /\ LoopInv' /\ ~c.write_shutdown
  BY <1>2, <1>3, <1>5, <1>7, <1>8, <1>9 DEF Watches, LoopInv, SameFlags
<1>12. /\ read_filter' \in [Directions -> BOOLEAN] /\ out' \in [Directions -> Seq(Nat)]
       /\ \A x \in Directions \ {d} : read_filter'[x] = read_filter[x] /\ out'[x] = out[x]
  BY <1>2 DEF RelayInv, TypeOK
<1> QED BY <1>2, <1>3, <1>7, <1>8, <1>9, <1>10, <1>11, <1>12, HandlerKeepsInv

\* recv() = 0 is the peer's FIN, because a compacted buffer has room.
LEMMA RecvEofKeepsInv ==
  ASSUME RelayInv, NEW d \in Directions, RecvEof(d)
  PROVE  RelayInv'
<1> DEFINE b == buffer[d]
           a == [b EXCEPT !.read_eof = TRUE]
<1>1. /\ Running(d, "read") /\ pending(b) < HighWatermark
      /\ available(b) = 0 \/ (produced[d] = received[d] /\ fin[d])
      /\ read_filter' = [read_filter EXCEPT ![d] = FALSE]
      /\ UNCHANGED <<write_filter, events, kernelVars>>
  BY DEF RecvEof
<1>2. PICK c \in finish_direction(d, a) : Return(d, c)
  BY DEF RecvEof
<1>3. /\ ~retired /\ handler.dir = d /\ b \in Buffer /\ BufferOK(b)
      /\ Len(out[d]) \in Nat /\ Holds(b, Len(out[d])) /\ pending(b) \in Nat
      /\ ~b.failed /\ ~b.read_paused /\ ~b.write_shutdown
      /\ write_filter[d] <=> pending(b) > 0
      /\ fin[d] /\ received[d] = produced[d]
  BY <1>1, ReadLoopFacts
<1>4. /\ BufferOK(a) /\ Holds(a, Len(out[d])) /\ pending(a) = pending(b)
      /\ a.read_eof /\ ~a.failed /\ ~a.read_paused /\ ~a.write_shutdown
  BY <1>3, FlagFacts DEF Buffer
<1> HIDE DEF a
<1>5. /\ BufferOK(c) /\ Holds(c, Len(out[d])) /\ pending(c) = pending(b)
      /\ c.read_eof /\ ~c.read_paused
      /\ c.failed => reset # {}
      /\ c.write_shutdown => pending(c) = 0
      /\ ~c.failed /\ pending(c) = 0 => c.write_shutdown
  BY <1>3, <1>4, FinishFacts
<1> QED BY <1>1, <1>2, <1>3, <1>5, FilterFacts, ReturnKeepsInv

LEMMA RecvErrorKeepsInv ==
  ASSUME RelayInv, NEW d \in Directions, RecvError(d)
  PROVE  RelayInv'
<1> DEFINE b == buffer[d]
           c == Fail(b)
<1>1. /\ Running(d, "read") /\ pending(b) < HighWatermark
      /\ UNCHANGED <<read_filter, write_filter, events, kernelVars>>
      /\ Return(d, b) \/ (reset # {} /\ Return(d, c))
  BY DEF RecvError
<1>2. /\ ~retired /\ handler.dir = d /\ b \in Buffer /\ BufferOK(b)
      /\ Len(out[d]) \in Nat /\ Holds(b, Len(out[d]))
      /\ ~b.failed /\ ~b.read_eof /\ ~b.read_paused /\ ~b.write_shutdown
      /\ write_filter[d] <=> pending(b) > 0
      /\ read_filter[d]
  BY <1>1, ReadLoopFacts
<1>3. /\ BufferOK(c) /\ Holds(c, Len(out[d])) /\ pending(c) = pending(b)
      /\ c.failed /\ ~c.read_eof /\ ~c.write_shutdown
  BY <1>2, FlagFacts DEF Fail, Buffer
<1>4. CASE Return(d, b)
  BY <1>1, <1>2, <1>4, FilterFacts, ReturnKeepsInv
<1> HIDE DEF c
<1>5. CASE reset # {} /\ Return(d, c)
  BY <1>1, <1>2, <1>3, <1>5, FilterFacts, ReturnKeepsInv
<1> QED BY <1>1, <1>4, <1>5

\* What the write loop finds: its filter registered, and an end of stream passed on
\* only when nothing waits.
LEMMA WriteLoopFacts ==
  ASSUME RelayInv, NEW d \in Directions, Running(d, "write")
  PROVE  LET b == buffer[d] IN
         /\ ~retired /\ handler.dir = d
         /\ b \in Buffer /\ BufferOK(b) /\ Len(out[d]) \in Nat /\ Holds(b, Len(out[d]))
         /\ pending(b) \in Nat
         /\ b.size \in Nat /\ b.offset \in Nat /\ b.size = b.offset + pending(b)
         /\ ~b.failed /\ write_filter[d]
         /\ b.write_shutdown => b.read_eof /\ pending(b) = 0
         /\ read_filter[d] <=> ~b.read_eof /\ ~b.read_paused
         /\ b.read_paused => pending(b) > LowWatermark /\ ~b.read_eof
         /\ b.read_eof => fin[d] /\ received[d] = produced[d]
<1> DEFINE b == buffer[d]
<1>1. ~retired /\ handler.dir = d /\ write_filter[d]
  BY DirectionsFact DEF RelayInv, LoopInv, Running, Idle
<1>2. /\ BufferOK(b) /\ b \in Buffer /\ Len(out[d]) \in Nat /\ Holds(b, Len(out[d]))
      /\ Watches(d) /\ Ends(d)
  BY <1>1, DirectionFacts
<1>3. /\ pending(b) \in Nat
      /\ b.size \in Nat /\ b.offset \in Nat /\ b.size = b.offset + pending(b)
  BY <1>2, PendingBounds
<1> QED BY <1>1, <1>2, <1>3 DEF Watches, Ends

\* send() appends the next bytes of the stream to what the destination got, and a
\* source that was paused is read again exactly from the low watermark on.
LEMMA SendDataKeepsInv ==
  ASSUME RelayInv, NEW d \in Directions, SendData(d)
  PROVE  RelayInv'
<1> DEFINE b == buffer[d]
           l == Len(out[d])
<1>1. PICK n \in 1 .. Lesser(pending(b), Room(d)) :
        LET a == Advance(b, n) IN
        /\ Enter(d, [a EXCEPT !.read_paused = @ /\ ~ShouldResume(a)], "write")
        /\ read_filter' = [read_filter EXCEPT ![d] = @ \/ ShouldResume(a)]
        /\ out' = [out EXCEPT ![d] = [i \in 1 .. l + n |->
                     IF i <= l THEN out[d][i] ELSE b.data[b.offset + (i - l - 1)]]]
  BY DEF SendData
<1> DEFINE a == Advance(b, n)
           c == [a EXCEPT !.read_paused = @ /\ ~ShouldResume(a)]
           sent == [i \in 1 .. l + n |->
                      IF i <= l THEN out[d][i] ELSE b.data[b.offset + (i - l - 1)]]
<1>2. /\ Running(d, "write") /\ b.offset < b.size
      /\ UNCHANGED <<write_filter, events, produced, fin, received, consumed, reset>>
  BY DEF SendData
<1>3. /\ ~retired /\ handler.dir = d
      /\ b \in Buffer /\ BufferOK(b) /\ l \in Nat /\ Holds(b, l)
      /\ pending(b) \in Nat /\ 0 < pending(b)
      /\ b.size \in Nat /\ b.offset \in Nat /\ b.size = b.offset + pending(b)
      /\ ~b.failed /\ ~b.write_shutdown /\ write_filter[d]
      /\ read_filter[d] <=> ~b.read_eof /\ ~b.read_paused
      /\ b.read_paused => pending(b) > LowWatermark /\ ~b.read_eof
      /\ b.read_eof => fin[d] /\ received[d] = produced[d]
  BY <1>2, WriteLoopFacts
<1>4. /\ received[d] \in Nat /\ produced[d] \in Nat /\ received[d] <= produced[d]
      /\ received[d] = l + pending(b)
      /\ out[d] = [i \in 1 .. l |-> i]
  BY DirectionFacts DEF Carries
<1>5. n \in Nat /\ 0 < n /\ n <= pending(b)
  <2> DEFINE room == Room(d)
             wait == pending(b)
  <2>1. room \in Int /\ wait \in Nat
    <3>1. Len(out[d]) \in Int /\ consumed[d] \in Int /\ SendQueue \in Int
      BY <1>3, RelayAssumption DEF RelayInv, TypeOK
    <3> QED BY <1>3, <3>1 DEF Room
  <2>2. n \in 1 .. Lesser(wait, room)
    OBVIOUS
  <2> HIDE DEF room, wait
  <2>3. n \in Nat /\ 0 < n /\ n <= wait
    BY <2>1, <2>2 DEF Lesser
  <2> QED BY <2>3 DEF wait
<1>6. /\ BufferOK(a) /\ a \in Buffer /\ Holds(a, l + n) /\ pending(a) = pending(b) - n
      /\ SameFlags(b, a)
  BY <1>3, <1>5, AdvanceFacts DEF BufferOK
<1>7. /\ BufferOK(c) /\ Holds(c, l + n) /\ pending(c) = pending(b) - n
      /\ c.read_eof = b.read_eof /\ ~c.failed /\ ~c.write_shutdown
      /\ c.read_paused <=> b.read_paused /\ ~ShouldResume(a)
  <2> HIDE DEF a
  <2>1. c \in {[a EXCEPT !.read_paused = FALSE], [a EXCEPT !.read_paused = TRUE]}
    BY <1>6 DEF Buffer
  <2>2. BufferOK(c) /\ Holds(c, l + n) /\ pending(c) = pending(a)
    <3> DEFINE m == l + n
    <3>1. m \in Nat /\ Holds(a, m)
      <4>1. l \in Nat /\ n \in Nat
        BY <1>3, <1>5
      <4>2. Holds(a, l + n)
        BY <1>6
      <4> HIDE DEF l, b, c
      <4> QED BY <4>1, <4>2
    <3> HIDE DEF m, c
    <3>2. BufferOK(c) /\ Holds(c, m) /\ pending(c) = pending(a)
      BY <2>1, <3>1, <1>6, FlagFacts
    <3> QED BY <3>2 DEF m
  <2>3. /\ c.read_eof = a.read_eof /\ c.failed = a.failed
        /\ c.write_shutdown = a.write_shutdown
        /\ c.read_paused <=> a.read_paused /\ ~ShouldResume(a)
    BY <1>6 DEF Buffer
  <2> QED BY <1>3, <1>6, <2>2, <2>3 DEF SameFlags
<1>8. ShouldResume(a) <=> b.read_paused /\ ~b.read_eof /\ pending(c) <= LowWatermark
  BY <1>6, <1>7 DEF ShouldResume, SameFlags
<1>9. /\ buffer' = [buffer EXCEPT ![d] = c]
      /\ handler' = [dir |-> d, loop |-> "write"] /\ retired' = retired
      /\ read_filter' = [read_filter EXCEPT ![d] = @ \/ ShouldResume(a)]
      /\ out' = [out EXCEPT ![d] = sent]
  BY <1>1 DEF Enter
<1>10. sent = [i \in 1 .. l + n |-> i]
  <2> SUFFICES ASSUME NEW i \in 1 .. l + n
               PROVE  (IF i <= l THEN out[d][i] ELSE b.data[b.offset + (i - l - 1)]) = i
    BY Zenon
  <2>1. CASE i <= l
    BY <1>3, <1>4, <1>5, <2>1
  <2>2. CASE ~(i <= l)
    <3>1. (i - l - 1) \in 0 .. pending(b) - 1
      BY <1>3, <1>5, <2>2
    <3>2. b.data[b.offset + (i - l - 1)] = l + (i - l - 1) + 1
      BY <1>3, <3>1 DEF Holds
    <3> QED BY <1>3, <1>5, <2>2, <3>2
  <2> QED BY <2>1, <2>2
<1>11. sent \in Seq(Nat) /\ Len(sent) = l + n
  <2>1. l + n \in Nat
    BY <1>3, <1>5
  <2> DEFINE m == l + n
  <2>2. m \in Nat /\ sent = [i \in 1 .. m |-> i]
    BY <1>10, <2>1
  <2> HIDE DEF m, sent
  <2>3. sent \in Seq(Nat) /\ Len(sent) = m
    BY <2>2
  <2> QED BY <2>3 DEF m
<1> HIDE DEF a, c, sent
<1>12. /\ buffer'[d] = c /\ out'[d] = sent
       /\ read_filter'[d] <=> read_filter[d] \/ ShouldResume(a)
       /\ \A x \in Directions \ {d} : out'[x] = out[x] /\ read_filter'[x] = read_filter[x]
  BY <1>9 DEF RelayInv, TypeOK
<1>13. out' \in [Directions -> Seq(Nat)]
  BY <1>9, <1>11 DEF RelayInv, TypeOK
<1>14. read_filter' \in [Directions -> BOOLEAN]
  <2>1. (read_filter[d] \/ ShouldResume(a)) \in BOOLEAN
    OBVIOUS
  <2> QED BY <1>9, <2>1 DEF RelayInv, TypeOK
<1>15. Carries(d)' /\ Ends(d)'
  <2>1. out'[d] = [i \in 1 .. Len(out'[d]) |-> i]
    BY <1>10, <1>11, <1>12
  <2>2. Holds(buffer'[d], Len(out'[d]))
    BY <1>7, <1>11, <1>12
  <2>3. Len(out'[d]) + pending(buffer'[d]) = received'[d] /\ received'[d] <= produced'[d]
    <3>1. received'[d] = received[d] /\ produced'[d] = produced[d]
      BY <1>2
    <3>2. pending(buffer'[d]) = pending(b) - n /\ Len(out'[d]) = l + n
      BY <1>7, <1>11, <1>12
    <3> HIDE DEF l, b
    <3>3. l + n + (pending(b) - n) = l + pending(b)
      BY <1>3, <1>5
    <3> QED BY <1>4, <3>1, <3>2, <3>3
  <2> QED BY <1>2, <1>3, <1>7, <1>12, <2>1, <2>2, <2>3 DEF Carries, Ends
<1>16. Watches(d)'
  <2>1. Running(d, "write")'
    BY <1>9 DEF Running
  <2>2. pending(c) \in Nat /\ LowWatermark \in Nat
    BY <1>3, <1>5, <1>7, WatermarkAssumption
  <2> QED BY <1>2, <1>3, <1>7, <1>8, <1>12, <2>1, <2>2 DEF Watches
<1>17. LoopInv'
  BY <1>2, <1>3, <1>9 DEF LoopInv
<1>18. /\ write_filter' \in [Directions -> BOOLEAN] /\ received' \in [Directions -> Nat]
       /\ \A x \in Directions \ {d} :
            write_filter'[x] = write_filter[x] /\ received'[x] = received[x]
       /\ events' \subseteq events
  BY <1>2 DEF RelayInv, TypeOK
<1> QED
  BY <1>2, <1>3, <1>7, <1>9, <1>12, <1>13, <1>14, <1>15, <1>16, <1>17, <1>18, HandlerKeepsInv

LEMMA SendErrorKeepsInv ==
  ASSUME RelayInv, NEW d \in Directions, SendError(d)
  PROVE  RelayInv'
<1> DEFINE b == buffer[d]
           c == Fail(b)
<1>1. /\ Running(d, "write") /\ b.offset < b.size
      /\ UNCHANGED <<read_filter, write_filter, events, kernelVars>>
      /\ Return(d, b) \/ (reset # {} /\ Return(d, c))
  BY DEF SendError
<1>2. /\ ~retired /\ handler.dir = d
      /\ b \in Buffer /\ BufferOK(b) /\ Len(out[d]) \in Nat /\ Holds(b, Len(out[d]))
      /\ pending(b) \in Nat /\ 0 < pending(b)
      /\ ~b.failed /\ ~b.write_shutdown /\ write_filter[d]
      /\ read_filter[d] <=> ~b.read_eof /\ ~b.read_paused
      /\ b.read_paused => pending(b) > LowWatermark /\ ~b.read_eof
      /\ b.read_eof => fin[d] /\ received[d] = produced[d]
  BY <1>1, WriteLoopFacts
<1>3. /\ BufferOK(c) /\ Holds(c, Len(out[d])) /\ pending(c) = pending(b)
      /\ c.failed /\ c.read_eof = b.read_eof /\ ~c.write_shutdown
  BY <1>2, FlagFacts DEF Fail, Buffer
<1>4. CASE Return(d, b)
  BY <1>1, <1>2, <1>4, FilterFacts, ReturnKeepsInv
<1> HIDE DEF c
<1>5. CASE reset # {} /\ Return(d, c)
  BY <1>1, <1>2, <1>3, <1>5, FilterFacts, ReturnKeepsInv
<1> QED BY <1>1, <1>4, <1>5

\* Everything was sent: the write filter goes, and an end of stream is passed on.
LEMMA WriteDoneKeepsInv ==
  ASSUME RelayInv, NEW d \in Directions, WriteDone(d)
  PROVE  RelayInv'
<1> DEFINE b == buffer[d]
           a == Rewind(b)
<1>1. /\ Running(d, "write") /\ b.offset >= b.size
      /\ write_filter' = [write_filter EXCEPT ![d] = FALSE]
      /\ UNCHANGED <<read_filter, events, kernelVars>>
  BY DEF WriteDone
<1>2. PICK c \in finish_direction(d, a) : Return(d, c)
  BY DEF WriteDone
<1>3. /\ ~retired /\ handler.dir = d
      /\ b \in Buffer /\ BufferOK(b) /\ Len(out[d]) \in Nat
      /\ pending(b) = 0
      /\ ~b.failed
      /\ b.write_shutdown => b.read_eof
      /\ read_filter[d] <=> ~b.read_eof /\ ~b.read_paused
      /\ ~b.read_paused
      /\ b.read_eof => fin[d] /\ received[d] = produced[d]
  BY <1>1, WriteLoopFacts, WatermarkAssumption
<1>4. /\ BufferOK(a) /\ Holds(a, Len(out[d])) /\ pending(a) = 0 /\ SameFlags(b, a)
  BY <1>3, RewindFacts
<1> HIDE DEF a
<1>5. /\ BufferOK(c) /\ Holds(c, Len(out[d])) /\ pending(c) = 0
      /\ c.read_eof = b.read_eof /\ ~c.read_paused
      /\ c.failed => reset # {}
      /\ c.write_shutdown => c.read_eof
      /\ ~c.failed /\ c.read_eof => c.write_shutdown
  BY <1>3, <1>4, FinishFacts DEF SameFlags
<1>6. pending(c) = pending(buffer[d]) /\ ~(pending(c) > 0)
  BY <1>3, <1>5
<1> HIDE DEF b
<1>7. read_filter[d] <=> ~c.read_eof /\ ~c.read_paused
  BY <1>3, <1>5
<1> QED BY <1>1, <1>2, <1>3, <1>5, <1>6, <1>7, FilterFacts, ReturnKeepsInv

-----------------------------------------------------------------------------
(* The theorems.                                                           *)

LEMMA NextKeepsInv == RelayInv /\ [Next]_vars => RelayInv'
<1> SUFFICES ASSUME RelayInv, [Next]_vars PROVE RelayInv'
  OBVIOUS
<1>1. CASE Peers
  BY <1>1, PeersKeepInv
<1>2. CASE KeventWait
  BY <1>2, KeventWaitKeepsInv
<1>3. CASE HandleEvent
  <2>1. PICK e \in events : /\ events' = events \ {e}
                            /\ HandleError(e) \/ HandleRead(e) \/ HandleWrite(e)
    BY <1>3 DEF HandleEvent
  <2> QED
    BY <1>3, <2>1, HandleErrorKeepsInv, HandleReadKeepsInv, HandleWriteKeepsInv
<1>4. CASE HandlerStep
  BY <1>4, PauseReadKeepsInv, RecvDataKeepsInv, RecvEofKeepsInv, RecvErrorKeepsInv,
     SendDataKeepsInv, SendErrorKeepsInv, WriteDoneKeepsInv DEF HandlerStep
<1>5. CASE UNCHANGED vars
  BY <1>5 DEF vars, proxyVars, kernelVars, RelayInv, TypeOK, Carries, Ends, Watches,
              LoopInv, CauseInv, Idle, Running
<1> QED BY <1>1, <1>2, <1>3, <1>4, <1>5 DEF Next, Terminated

\* RelayInv holds in every state, for every watermark, buffer size, stream length and
\* queue capacity.
THEOREM Invariance == Spec => []RelayInv
BY InitInv, NextKeepsInv, PTL DEF Spec

\* The variables keep their types; the buffer in particular never overruns its array.
THEOREM TypeCorrect == Spec => []TypeOK
BY Invariance, PTL DEF RelayInv

\* A destination is sent exactly a prefix of what its source produced.
THEOREM StreamsInOrder == Spec => []StreamPrefix
<1>1. RelayInv => StreamPrefix
  BY DEF RelayInv, Carries, StreamPrefix
<1> QED BY <1>1, Invariance, PTL

\* recv() = 0 is only ever seen at the real end of a stream, although the code may ask
\* recv() for as few bytes as are left in the array.
THEOREM EndOfFileIsReal == Spec => []EofIsReal
<1>1. RelayInv => EofIsReal
  BY DEF RelayInv, Ends, EofIsReal
<1> QED BY <1>1, Invariance, PTL

\* A half-close is passed on behind the last byte.
THEOREM HalfCloseInOrder == Spec => []HalfCloseAfterLastByte
<1>1. RelayInv => HalfCloseAfterLastByte
  <2> SUFFICES ASSUME RelayInv, NEW d \in Directions, buffer[d].write_shutdown
               PROVE  fin[d] /\ Len(out[d]) = produced[d]
    BY DEF HalfCloseAfterLastByte
  <2>1. Ends(d) /\ Len(out[d]) \in Nat /\ received[d] = Len(out[d]) + pending(buffer[d])
    BY DirectionFacts
  <2> QED BY <2>1 DEF Ends
<1> QED BY <1>1, Invariance, PTL

\* Between handlers the filters registered with kqueue are exactly those that can
\* still make progress.
THEOREM NoWakeupIsLost == Spec => []NoLostWakeup
<1>1. RelayInv => NoLostWakeup
  <2> SUFFICES ASSUME RelayInv, Idle, ~retired, NEW d \in Directions
               PROVE  LET b == buffer[d] IN
                      /\ write_filter[d] <=> pending(b) > 0
                      /\ read_filter[d] <=> ~b.read_eof /\ ~b.read_paused
                      /\ b.read_paused => pending(b) > LowWatermark
                      /\ b.read_eof /\ pending(b) = 0 => b.write_shutdown
    BY DEF NoLostWakeup
  <2>1. ~Running(d, "write")
    BY DirectionsFact DEF Running, Idle
  <2> QED BY <2>1, IdleWatches
<1> QED BY <1>1, Invariance, PTL

\* A connection is retired only after a reset, or complete in both directions.
THEOREM RetirementIsDue == Spec => []RetiredOnlyWhenDone
<1>1. RelayInv => RetiredOnlyWhenDone
  <2> SUFFICES ASSUME RelayInv, retired, reset = {}, NEW d \in Directions
               PROVE  buffer[d].write_shutdown /\ fin[d] /\ Len(out[d]) = produced[d]
    BY DEF RetiredOnlyWhenDone
  <2>1. buffer[d].write_shutdown
    BY DEF RelayInv, CauseInv
  <2>2. Ends(d) /\ Len(out[d]) \in Nat /\ received[d] = Len(out[d]) + pending(buffer[d])
    BY DirectionFacts
  <2> QED BY <2>1, <2>2 DEF Ends
<1> QED BY <1>1, Invariance, PTL

-----------------------------------------------------------------------------
(* The refinement of StreamRelay: every step of the handlers is one of its *)
(* steps or a stutter.                                                     *)

\* finish_direction sets write_shutdown or fails, never both.
LEMMA FinishShuts ==
  ASSUME NEW d \in Directions, NEW b, BufferOK(b), NEW c \in finish_direction(d, b)
  PROVE  /\ c.write_shutdown \in BOOLEAN /\ c.failed \in BOOLEAN
         /\ \/ c.write_shutdown = b.write_shutdown
            \/ c.write_shutdown /\ ~c.failed
<1>1. b \in Buffer BY DEF BufferOK
<1>2. \/ c = b
      \/ c = [b EXCEPT !.write_shutdown = TRUE] /\ ~b.failed
      \/ c = [b EXCEPT !.failed = TRUE]
  BY DEF finish_direction, Fail
<1> QED BY <1>1, <1>2 DEF Buffer

\* A step of a handler that sends nothing, and what it does to the end of direction d: a
\* stutter, Close(d), or GiveUp.
LEMMA QuietStepRefines ==
  ASSUME RelayInv, RelayInv', NEW d \in Directions, NEW c,
         UNCHANGED <<produced, fin, out, reset>>, ~retired,
         buffer' = [buffer EXCEPT ![d] = c],
         c.write_shutdown \in BOOLEAN, c.failed \in BOOLEAN,
         \/ c.write_shutdown = buffer[d].write_shutdown
         \/ c.write_shutdown /\ ~c.failed,
         \/ retired' = (c.failed \/ \A x \in Directions : finished(buffer'[x]))
         \/ retired' = retired
  PROVE  [Abstract!Next]_Abstract!vars
<1> DEFINE closed == [x \in Directions |-> buffer[x].write_shutdown]
<1>1. /\ buffer'[d] = c /\ \A x \in Directions : x # d => buffer'[x] = buffer[x]
      /\ \A x \in Directions : buffer[x].write_shutdown \in BOOLEAN
      /\ retired \in BOOLEAN /\ retired' \in BOOLEAN
  BY DEF RelayInv, TypeOK, Buffer
<1>2. (\A x \in Directions : buffer'[x].write_shutdown) => retired'
  BY DEF RelayInv, CauseInv
<1>3. CASE c.write_shutdown = buffer[d].write_shutdown
  <2>1. closed' = closed BY <1>1, <1>3
  <2>2. CASE retired' = retired BY <2>1, <2>2 DEF Abstract!vars
  <2>3. CASE retired'
    <3>1. reset # {}
      BY <1>1, <1>3, <2>3 DEF RelayInv, CauseInv
    <3>2. Abstract!GiveUp
      BY <1>1, <2>1, <2>3, <3>1 DEF Abstract!GiveUp
    <3> QED BY <3>2 DEF Abstract!Next
  <2> QED BY <1>1, <2>2, <2>3
<1>4. CASE c.write_shutdown /\ ~c.failed /\ ~buffer[d].write_shutdown
  <2>1. closed' = [closed EXCEPT ![d] = TRUE]
    BY <1>1, <1>4
  <2>2. fin[d] /\ Len(out[d]) = produced[d]
    <3>1. /\ pending(buffer'[d]) = 0 /\ fin'[d] /\ received'[d] = produced'[d]
      BY <1>1, <1>4 DEF RelayInv, Ends
    <3>2. Len(out'[d]) + pending(buffer'[d]) = received'[d] /\ Len(out'[d]) \in Nat
      BY DEF RelayInv, TypeOK, Carries
    <3> QED BY <3>1, <3>2
  <2>3. retired' = \A x \in Directions : closed'[x]
    BY <1>1, <1>2, <1>4 DEF finished
  <2>4. Abstract!Close(d)
    BY <1>4, <2>1, <2>2, <2>3 DEF Abstract!Close
  <2> QED BY <2>4 DEF Abstract!Next
<1> QED BY <1>1, <1>3, <1>4

\* The peers produce, half-close and break; what they read is not part of the
\* abstraction.
LEMMA PeersRefine ==
  ASSUME RelayInv, Peers
  PROVE  [Abstract!Next]_Abstract!vars
<1>1. UNCHANGED <<buffer, retired, out>>
  BY DEF Peers, Produce, HalfClose, Consume, Reset, proxyVars
<1>2. ASSUME NEW d \in Directions, Produce(d) PROVE Abstract!Next
  <2>1. Abstract!Produce(d)
    BY <1>1, <1>2 DEF Produce, Abstract!Produce
  <2> QED BY <2>1 DEF Abstract!Next
<1>3. ASSUME NEW d \in Directions, HalfClose(d) PROVE Abstract!Next
  <2>1. Abstract!Finish(d)
    BY <1>1, <1>3 DEF HalfClose, Abstract!Finish
  <2> QED BY <2>1 DEF Abstract!Next
<1>4. ASSUME NEW d \in Directions, Consume(d) PROVE UNCHANGED Abstract!vars
  BY <1>1, <1>4 DEF Consume, Abstract!vars
<1>5. ASSUME NEW s \in Sockets, Reset(s) PROVE Abstract!Next
  <2>1. Abstract!Break
    BY <1>1, <1>5 DEF Reset, Abstract!Break
  <2> QED BY <2>1 DEF Abstract!Next
<1> QED BY <1>2, <1>3, <1>4, <1>5 DEF Peers

\* The first step of a handler: nothing, a loop, a failure, or the end of a direction.
LEMMA HandleEventRefines ==
  ASSUME RelayInv, RelayInv', HandleEvent
  PROVE  [Abstract!Next]_Abstract!vars
<1>1. ~retired /\ UNCHANGED <<produced, fin, out, reset>>
  BY DEF HandleEvent, kernelVars
<1>2. PICK e \in events : HandleError(e) \/ HandleRead(e) \/ HandleWrite(e)
  BY DEF HandleEvent
<1> DEFINE d == e.dir
           b == buffer[d]
<1>3. d \in Directions
  BY DEF RelayInv, TypeOK, Event
<1>4. b \in Buffer /\ BufferOK(b) /\ Len(out[d]) \in Nat /\ Holds(b, Len(out[d]))
  BY <1>3, DirectionFacts
<1>5. PICK c : /\ \/ c = b \/ c = Fail(b) \/ c = Compact(b) \/ c \in finish_direction(d, b)
               /\ \/ Return(d, c)
                  \/ \E loop \in {"read", "write"} : Enter(d, c, loop)
  BY <1>2 DEF HandleError, HandleRead, HandleWrite
<1> HIDE DEF d
<1>6. /\ c.write_shutdown \in BOOLEAN /\ c.failed \in BOOLEAN
      /\ \/ c.write_shutdown = b.write_shutdown
         \/ c.write_shutdown /\ ~c.failed
  <2>1. CASE c = b BY <1>4, <2>1 DEF Buffer
  <2>2. CASE c = Fail(b) BY <1>4, <2>2 DEF Buffer, Fail
  <2>3. CASE c = Compact(b)
    BY <1>4, <2>3, CompactFacts DEF Buffer, SameFlags
  <2>4. CASE c \in finish_direction(d, b) BY <1>3, <1>4, <2>4, FinishShuts
  <2> QED BY <1>5, <2>1, <2>2, <2>3, <2>4
<1>7. /\ buffer' = [buffer EXCEPT ![d] = c]
      /\ \/ retired' = (c.failed \/ \A x \in Directions : finished(buffer'[x]))
         \/ retired' = retired
  BY <1>5 DEF Return, Enter
<1> QED BY <1>1, <1>3, <1>6, <1>7, QuietStepRefines

\* An iteration of a loop that sends nothing.
LEMMA QuietLoopRefines ==
  ASSUME RelayInv, RelayInv', NEW d \in Directions,
         PauseRead(d) \/ RecvData(d) \/ RecvEof(d) \/ RecvError(d) \/ SendError(d) \/ WriteDone(d)
  PROVE  [Abstract!Next]_Abstract!vars
<1> DEFINE b == buffer[d]
<1>1. UNCHANGED <<produced, fin, out, reset>>
  BY DEF PauseRead, RecvData, RecvEof, RecvError, SendError, WriteDone, kernelVars
<1>2. ~retired
  <2>1. handler.loop # "none"
    BY DEF PauseRead, RecvData, RecvEof, RecvError, SendError, WriteDone, Running
  <2> QED BY <2>1, DirectionsFact DEF RelayInv, LoopInv, Idle
<1>3. b \in Buffer /\ BufferOK(b) /\ Len(out[d]) \in Nat /\ Holds(b, Len(out[d]))
  BY DirectionFacts
<1>4. PICK c : /\ \/ Return(d, c) \/ Enter(d, c, "read")
               /\ \/ c = b \/ c = Fail(b) \/ c = [b EXCEPT !.read_paused = TRUE]
                  \/ \E n, k : c = Fill(b, n, k)
                  \/ c \in finish_direction(d, [b EXCEPT !.read_eof = TRUE])
                  \/ pending(b) = 0 /\ c \in finish_direction(d, Rewind(b))
  <2>1. CASE PauseRead(d) BY <2>1 DEF PauseRead
  <2>2. CASE RecvData(d) BY <2>2 DEF RecvData
  <2>3. CASE RecvEof(d) BY <2>3 DEF RecvEof
  <2>4. CASE RecvError(d) BY <2>4 DEF RecvError
  <2>5. CASE SendError(d) BY <2>5 DEF SendError
  <2>6. CASE WriteDone(d)
    <3>1. pending(b) = 0
      BY <1>3, <2>6, PendingBounds DEF WriteDone, BufferOK
    <3> QED BY <2>6, <3>1 DEF WriteDone
  <2> QED BY <2>1, <2>2, <2>3, <2>4, <2>5, <2>6
<1>5. /\ c.write_shutdown \in BOOLEAN /\ c.failed \in BOOLEAN
      /\ \/ c.write_shutdown = b.write_shutdown
         \/ c.write_shutdown /\ ~c.failed
  <2>1. CASE c = b \/ c = Fail(b) \/ c = [b EXCEPT !.read_paused = TRUE]
    BY <1>3, <2>1 DEF Buffer, Fail
  <2>2. ASSUME NEW n, NEW k, c = Fill(b, n, k)
        PROVE  c.write_shutdown = b.write_shutdown /\ c.failed = b.failed
    BY <1>3, <2>2 DEF Buffer, Fill
  <2>3. CASE c \in finish_direction(d, [b EXCEPT !.read_eof = TRUE])
    <3> DEFINE a == [b EXCEPT !.read_eof = TRUE]
    <3>1. BufferOK(a) /\ a.write_shutdown = b.write_shutdown
      BY <1>3, FlagFacts DEF Buffer
    <3> HIDE DEF a
    <3>2. c \in finish_direction(d, a) BY <2>3 DEF a
    <3> QED BY <3>1, <3>2, FinishShuts
  <2>4. CASE pending(b) = 0 /\ c \in finish_direction(d, Rewind(b))
    <3>1. BufferOK(Rewind(b)) /\ Rewind(b).write_shutdown = b.write_shutdown
      BY <1>3, <2>4, RewindFacts DEF SameFlags
    <3> QED BY <2>4, <3>1, FinishShuts
  <2> QED BY <1>3, <1>4, <2>1, <2>2, <2>3, <2>4 DEF Buffer
<1>6. /\ buffer' = [buffer EXCEPT ![d] = c]
      /\ \/ retired' = (c.failed \/ \A x \in Directions : finished(buffer'[x]))
         \/ retired' = retired
  BY <1>4 DEF Return, Enter
<1> QED BY <1>1, <1>2, <1>5, <1>6, QuietStepRefines

\* A send() that takes bytes delivers them: the destination gets the next bytes of the
\* stream, of which it had not been told the end.
LEMMA SendDataRefines ==
  ASSUME RelayInv, RelayInv', NEW d \in Directions, SendData(d)
  PROVE  [Abstract!Next]_Abstract!vars
<1> DEFINE b == buffer[d]
<1>1. /\ Running(d, "write") /\ b.offset < b.size
      /\ UNCHANGED <<produced, fin, received, reset>>
  BY DEF SendData
<1>2. PICK n \in 1 .. Lesser(pending(b), Room(d)) :
        /\ Enter(d, [Advance(b, n) EXCEPT
                       !.read_paused = @ /\ ~ShouldResume(Advance(b, n))], "write")
        /\ out' = [out EXCEPT ![d] = [i \in 1 .. Len(out[d]) + n |->
                     IF i <= Len(out[d]) THEN out[d][i]
                     ELSE b.data[b.offset + (i - Len(out[d]) - 1)]]]
  BY DEF SendData
<1>3. /\ ~retired /\ b \in Buffer /\ pending(b) \in Nat /\ ~b.write_shutdown
      /\ BufferOK(b) /\ Holds(b, Len(out[d])) /\ Len(out[d]) \in Nat
      /\ b.size = b.offset + pending(b) /\ b.size \in Nat /\ b.offset \in Nat
  BY <1>1, WriteLoopFacts
<1> DEFINE c == [Advance(b, n) EXCEPT !.read_paused = @ /\ ~ShouldResume(Advance(b, n))]
<1>4. /\ buffer' = [buffer EXCEPT ![d] = c] /\ retired' = retired
  BY <1>2 DEF Enter
<1>5. c.write_shutdown = b.write_shutdown /\ c.size = b.size /\ c.offset = b.offset + n
  BY <1>3 DEF Advance, Buffer
<1> HIDE DEF c
<1>6. /\ buffer'[d] = c /\ \A x \in Directions : x # d => buffer'[x] = buffer[x]
      /\ \A x \in Directions : x # d => out'[x] = out[x]
  BY <1>2, <1>4 DEF RelayInv, TypeOK
<1>7. [x \in Directions |-> buffer[x].write_shutdown]'
        = [x \in Directions |-> buffer[x].write_shutdown]
  BY <1>5, <1>6
<1>8. /\ Len(out[d]) + pending(b) = received[d] /\ received[d] \in Nat
      /\ out'[d] = [i \in 1 .. Len(out'[d]) |-> i]
      /\ Len(out'[d]) + pending(buffer'[d]) = received'[d]
      /\ received'[d] <= produced'[d] /\ produced'[d] \in Nat
      /\ Len(out'[d]) \in Nat /\ pending(buffer'[d]) \in Nat
  <2>1. Len(out[d]) + pending(b) = received[d] /\ received[d] \in Nat
    BY DirectionFacts
  <2>2. BufferOK(buffer'[d])
    BY DEF RelayInv, TypeOK
  <2>3. pending(buffer'[d]) \in Nat
    BY <2>2, PendingBounds
  <2>4. Len(out'[d]) \in Nat /\ produced'[d] \in Nat
    BY DEF RelayInv, TypeOK
  <2>5. /\ out'[d] = [i \in 1 .. Len(out'[d]) |-> i]
        /\ Len(out'[d]) + pending(buffer'[d]) = received'[d]
        /\ received'[d] <= produced'[d]
    BY DEF RelayInv, Carries
  <2> QED BY <2>1, <2>3, <2>4, <2>5
<1>9. pending(buffer'[d]) = pending(b) - n /\ n \in Nat /\ 0 < n
  <2>1. n \in Nat /\ 0 < n
    BY <1>2, <1>3 DEF Lesser
  <2> QED BY <1>3, <1>5, <1>6, <2>1 DEF pending
<1>10. Len(out'[d]) \in Len(out[d]) + 1 .. produced[d]
  <2> DEFINE l == Len(out[d])
             m == Len(out'[d])
             p == pending(b)
             q == pending(buffer'[d])
             r == received[d]
             s == produced[d]
  <2>1. /\ l \in Nat /\ m \in Nat /\ p \in Nat /\ q \in Nat /\ r \in Nat /\ s \in Nat /\ n \in Nat
        /\ l + p = r /\ m + q = r /\ r <= s /\ q = p - n /\ 0 < n
    BY <1>1, <1>3, <1>8, <1>9
  <2> HIDE DEF l, m, p, q, r, s
  <2>2. m \in l + 1 .. s
    BY <2>1
  <2> QED BY <2>2 DEF l, m, s
<1>11. out' = [out EXCEPT ![d] = Abstract!Stream(Len(out'[d]))]
  BY <1>6, <1>8 DEF RelayInv, TypeOK, Abstract!Stream
<1>12. Abstract!Deliver(d)
  BY <1>1, <1>3, <1>4, <1>7, <1>10, <1>11 DEF Abstract!Deliver
<1> QED BY <1>12 DEF Abstract!Next

\* An established connection, with its buffers, watermarks, filters and stale
\* notifications, is two streams delivered in order, each closed behind its last byte;
\* it is let go when both are closed or after a reset.
THEOREM RefinesStreams == Spec => ImplementsStreams
<1>1. Init => Abstract!Init
  BY DEF Init, Abstract!Init, EmptyBuffer
<1>2. RelayInv /\ RelayInv' /\ [Next]_vars => [Abstract!Next]_Abstract!vars
  <2> SUFFICES ASSUME RelayInv, RelayInv', [Next]_vars
               PROVE  [Abstract!Next]_Abstract!vars
    OBVIOUS
  <2>1. CASE Peers
    BY <2>1, PeersRefine
  <2>2. CASE KeventWait
    BY <2>2 DEF KeventWait, kernelVars, Abstract!vars
  <2>3. CASE HandleEvent
    BY <2>3, HandleEventRefines
  <2>4. CASE HandlerStep
    BY <2>4, QuietLoopRefines, SendDataRefines DEF HandlerStep
  <2>5. CASE UNCHANGED vars
    BY <2>5 DEF vars, proxyVars, kernelVars, Abstract!vars
  <2> QED BY <2>1, <2>2, <2>3, <2>4, <2>5 DEF Next, Terminated
<1> QED BY <1>1, <1>2, Invariance, PTL DEF Spec, ImplementsStreams, Abstract!Spec
=============================================================================

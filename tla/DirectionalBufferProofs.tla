---------------------- MODULE DirectionalBufferProofs ----------------------
(***************************************************************************)
(* What each step on a DirectionalBuffer preserves, for every watermark    *)
(* and buffer size: the type, the number of pending bytes and which bytes  *)
(* of the stream they are.                                                 *)
(***************************************************************************)
EXTENDS DirectionalBuffer, TLAPS

\* The flags of two buffers agree.
SameFlags(b, c) ==
  /\ c.read_eof = b.read_eof
  /\ c.read_paused = b.read_paused
  /\ c.write_shutdown = b.write_shutdown
  /\ c.failed = b.failed

\* What a well-formed buffer counts: pending() is a natural number that fits in
\* the array behind offset.
LEMMA PendingBounds ==
  ASSUME NEW b, BufferOK(b)
  PROVE  /\ pending(b) \in Nat
         /\ b.size \in Nat /\ b.offset \in Nat
         /\ b.size <= HighWatermark
         /\ b.size = b.offset + pending(b)
BY WatermarkAssumption DEF BufferOK, Buffer, pending

\* A new buffer is well-formed, holds nothing and is not finished.
LEMMA EmptyBufferFacts ==
  /\ BufferOK(EmptyBuffer)
  /\ pending(EmptyBuffer) = 0
  /\ Holds(EmptyBuffer, 0)
BY WatermarkAssumption DEF BufferOK, Buffer, EmptyBuffer, pending, Holds, Index

\* The memmove of read_direction moves the pending bytes to the front and keeps
\* every one of them.
LEMMA CompactFacts ==
  ASSUME NEW b, BufferOK(b), NEW n \in Nat, Holds(b, n)
  PROVE  /\ BufferOK(Compact(b))
         /\ Holds(Compact(b), n)
         /\ pending(Compact(b)) = pending(b)
         /\ Compact(b).offset = 0
         /\ SameFlags(b, Compact(b))
<1>1. CASE b.offset = 0
  BY <1>1 DEF Compact, SameFlags
<1>2. CASE b.offset # 0
  <2> DEFINE moved == [i \in Index |-> IF i < pending(b)
                                       THEN b.data[b.offset + i]
                                       ELSE b.data[i]]
  <2>1. Compact(b) = [b EXCEPT !.data = moved, !.size = pending(b), !.offset = 0]
    BY <1>2 DEF Compact
  <2>2. moved \in [Index -> Nat]
    BY PendingBounds, WatermarkAssumption DEF BufferOK, Buffer, Index
  <2> HIDE DEF moved
  <2>3. BufferOK(Compact(b))
    <3>1. pending(b) \in 0 .. HighWatermark /\ 0 \in 0 .. HighWatermark /\ 0 <= pending(b)
      BY PendingBounds, WatermarkAssumption
    <3>2. b \in Buffer
      BY DEF BufferOK
    <3>3. Compact(b) \in Buffer
      BY <2>1, <2>2, <3>1, <3>2 DEF Buffer
    <3>4. Compact(b).offset = 0 /\ Compact(b).size = pending(b)
      BY <2>1, <3>2 DEF Buffer
    <3> QED BY <3>1, <3>3, <3>4 DEF BufferOK
  <2>4. /\ Compact(b).data = moved
        /\ Compact(b).size = pending(b)
        /\ Compact(b).offset = 0
        /\ SameFlags(b, Compact(b))
    BY <2>1 DEF BufferOK, Buffer, SameFlags
  <2>5. pending(Compact(b)) = pending(b)
    BY <2>4, PendingBounds DEF pending
  <2>6. Holds(Compact(b), n)
    BY <2>4, <2>5, PendingBounds, WatermarkAssumption DEF Holds, Index, moved
  <2> QED BY <2>3, <2>4, <2>5, <2>6
<1> QED BY <1>1, <1>2

\* recv() appends: the bytes already pending stay, the new ones follow them.
LEMMA FillFacts ==
  ASSUME NEW b, BufferOK(b), NEW n \in Nat, Holds(b, n),
         NEW m \in Nat, 0 < m, m <= HighWatermark - b.size
  PROVE  LET c == Fill(b, m, n + pending(b) + 1) IN
         /\ BufferOK(c)
         /\ Holds(c, n)
         /\ pending(c) = pending(b) + m
         /\ c.offset = b.offset
         /\ SameFlags(b, c)
<1> DEFINE c == Fill(b, m, n + pending(b) + 1)
           data == [i \in Index |-> IF i \in b.size .. b.size + m - 1
                                    THEN n + pending(b) + 1 + (i - b.size)
                                    ELSE b.data[i]]
<1>1. c = [b EXCEPT !.data = data, !.size = b.size + m]
  BY DEF Fill
<1>2. data \in [Index -> Nat]
  <2>1. b.data \in [Index -> Nat]
    BY DEF BufferOK, Buffer
  <2>2. ASSUME NEW i \in b.size .. b.size + m - 1
        PROVE  n + pending(b) + 1 + (i - b.size) \in Nat
    BY PendingBounds
  <2> QED BY <2>1, <2>2
<1> HIDE DEF data
<1>3. BufferOK(c)
  <2>1. b.size + m \in 0 .. HighWatermark /\ b.offset <= b.size + m
    BY PendingBounds, WatermarkAssumption
  <2>2. b \in Buffer
    BY DEF BufferOK
  <2>3. c \in Buffer
    BY <1>1, <1>2, <2>1, <2>2 DEF Buffer
  <2>4. c.offset = b.offset /\ c.size = b.size + m
    BY <1>1, <2>2 DEF Buffer
  <2> QED BY <2>1, <2>3, <2>4 DEF BufferOK
<1>4. /\ c.data = data
      /\ c.size = b.size + m
      /\ c.offset = b.offset
      /\ SameFlags(b, c)
  BY <1>1 DEF BufferOK, Buffer, SameFlags
<1>5. pending(c) = pending(b) + m
  BY <1>4, PendingBounds DEF pending
<1>6. Holds(c, n)
  <2> SUFFICES ASSUME NEW k \in 0 .. pending(c) - 1
               PROVE  c.data[c.offset + k] = n + k + 1
    BY DEF Holds
  <2>1. b.offset + k \in Index /\ k \in Nat
    BY <1>5, PendingBounds, WatermarkAssumption DEF Index
  <2>2. CASE k < pending(b)
    BY <2>1, <2>2, <1>4, PendingBounds DEF Holds, data
  <2>3. CASE k >= pending(b)
    BY <2>1, <2>3, <1>4, <1>5, PendingBounds DEF data
  <2> QED BY <2>1, <2>2, <2>3, PendingBounds
<1> QED BY <1>3, <1>4, <1>5, <1>6

\* send() takes bytes from the front: what is left is what followed them.
LEMMA AdvanceFacts ==
  ASSUME NEW b, BufferOK(b), NEW n \in Nat, Holds(b, n),
         NEW m \in Nat, m <= pending(b)
  PROVE  LET c == Advance(b, m) IN
         /\ BufferOK(c)
         /\ Holds(c, n + m)
         /\ pending(c) = pending(b) - m
         /\ SameFlags(b, c)
<1> DEFINE c == Advance(b, m)
<1>1. /\ c.data = b.data
      /\ c.size = b.size
      /\ c.offset = b.offset + m
      /\ SameFlags(b, c)
  BY DEF Advance, BufferOK, Buffer, SameFlags
<1>2. BufferOK(c)
  BY PendingBounds, WatermarkAssumption DEF Advance, BufferOK, Buffer
<1>3. pending(c) = pending(b) - m
  BY <1>1, PendingBounds DEF pending
<1>4. Holds(c, n + m)
  <2> SUFFICES ASSUME NEW k \in 0 .. pending(c) - 1
               PROVE  c.data[c.offset + k] = n + m + k + 1
    BY DEF Holds
  <2>1. m + k \in 0 .. pending(b) - 1
    BY <1>3, PendingBounds
  <2>2. b.data[b.offset + (m + k)] = n + (m + k) + 1
    BY <2>1 DEF Holds
  <2> QED BY <2>1, <2>2, <1>1, PendingBounds
<1> QED BY <1>1, <1>2, <1>3, <1>4

\* Rewinding an empty buffer keeps it empty.
LEMMA RewindFacts ==
  ASSUME NEW b, BufferOK(b), NEW n \in Nat, pending(b) = 0
  PROVE  /\ BufferOK(Rewind(b))
         /\ Holds(Rewind(b), n)
         /\ pending(Rewind(b)) = 0
         /\ SameFlags(b, Rewind(b))
<1>1. 0 \in 0 .. HighWatermark
  BY WatermarkAssumption
<1>2. b \in Buffer
  BY DEF BufferOK
<1>3. Rewind(b) \in Buffer
  BY <1>1, <1>2 DEF Rewind, Buffer
<1>4. Rewind(b).size = 0 /\ Rewind(b).offset = 0 /\ SameFlags(b, Rewind(b))
  BY <1>2 DEF Rewind, Buffer, SameFlags
<1>5. pending(Rewind(b)) = 0
  BY <1>4 DEF pending
<1> QED BY <1>3, <1>4, <1>5 DEF BufferOK, Holds
=============================================================================

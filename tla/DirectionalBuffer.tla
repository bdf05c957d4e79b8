------------------------- MODULE DirectionalBuffer -------------------------
(***************************************************************************)
(* struct DirectionalBuffer of src/kqueue_server.cpp: the user-space       *)
(* buffer between the two sockets of one direction of a connection, and    *)
(* the pure steps that read_direction and write_direction take on it.      *)
(*                                                                         *)
(* Byte number k of a stream is the number k, so that a byte that is lost, *)
(* duplicated or moved to a wrong index is told apart from the right one;  *)
(* 0 is what data{} is initialised with and is never a byte of a stream.   *)
(* errorcode is abstracted to failed (errorcode # 0).                      *)
(***************************************************************************)
EXTENDS Integers

CONSTANTS HighWatermark,   \* high_watermark, the length of the data array
          LowWatermark,    \* low_watermark
          BufferSize       \* buffer_size, the most that one recv() asks for

\* The constants of the source, and its static_assert.
ASSUME WatermarkAssumption ==
  /\ HighWatermark \in Nat
  /\ LowWatermark \in Nat
  /\ BufferSize \in Nat \ {0}
  /\ LowWatermark < HighWatermark

Index == 0 .. HighWatermark - 1

Buffer == [data           : [Index -> Nat],
           size           : 0 .. HighWatermark,
           offset         : 0 .. HighWatermark,
           read_eof       : BOOLEAN,
           read_paused    : BOOLEAN,
           write_shutdown : BOOLEAN,
           failed         : BOOLEAN]

\* The fields have their types and the pending bytes lie inside the array.
BufferOK(b) == b \in Buffer /\ b.offset <= b.size

EmptyBuffer == [data           |-> [i \in Index |-> 0],
                size           |-> 0,
                offset         |-> 0,
                read_eof       |-> FALSE,
                read_paused    |-> FALSE,
                write_shutdown |-> FALSE,
                failed         |-> FALSE]

pending(b) == b.size - b.offset

finishedEarly(b) == ~b.failed /\ b.read_eof

finished(b) == ~b.failed /\ b.read_eof /\ pending(b) = 0 /\ b.write_shutdown

\* The memmove at the head of read_direction: pending bytes to index 0.
NoMemmove(b) == [b EXCEPT !.size = pending(b), !.offset = 0]
NoCompaction(b) == b
Compact(b) ==
  IF b.offset = 0
  THEN b
  ELSE [b EXCEPT !.data   = [i \in Index |-> IF i < pending(b)
                                             THEN b.data[b.offset + i]
                                             ELSE b.data[i]],
                 !.size   = pending(b),
                 !.offset = 0]

Lesser(m, n) == IF m <= n THEN m ELSE n

\* The length that read_direction passes to recv().
available(b) == Lesser(BufferSize, HighWatermark - b.size)

\* recv() stored n bytes at data + size, the first of them being byte number k.
Fill(b, n, k) ==
  [b EXCEPT !.data = [i \in Index |-> IF i \in b.size .. b.size + n - 1
                                      THEN k + (i - b.size)
                                      ELSE b.data[i]],
            !.size = b.size + n]

\* send() took n bytes from data + offset.
Advance(b, n) == [b EXCEPT !.offset = b.offset + n]

\* Whether the source is read again after a send().
ResumeBelowLow(b) == b.read_paused /\ ~b.read_eof /\ pending(b) < LowWatermark
ShouldResume(b)   == b.read_paused /\ ~b.read_eof /\ pending(b) <= LowWatermark

\* The write loop is over: everything was sent.
RewindSizeOnly(b) == [b EXCEPT !.size = 0]
Rewind(b) == [b EXCEPT !.size = 0, !.offset = 0]

\* The pending bytes are the bytes of the stream that follow byte number n.
Holds(b, n) ==
  \A k \in 0 .. pending(b) - 1 : b.data[b.offset + k] = n + k + 1
=============================================================================

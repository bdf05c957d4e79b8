---------------------------- MODULE StreamRelay ----------------------------
(***************************************************************************)
(* What an established connection promises its two peers, without buffers, *)
(* filters, notifications or system calls: two byte streams that are       *)
(* delivered in order, each closed behind its last byte, and a connection  *)
(* that is over when both are closed, or given up after a peer broke it.   *)
(* Byte number k of a stream is the number k.                              *)
(***************************************************************************)
EXTENDS Integers, Sequences

CONSTANT Directions

VARIABLES produced,   \* direction -> length of the stream so far
          fin,        \* direction -> the stream is complete
          out,        \* direction -> what was handed to the destination
          closed,     \* direction -> the destination was told the end
          broken,     \* a peer has broken the connection
          over        \* the relay has let go of the connection

vars == <<produced, fin, out, closed, broken, over>>

Stream(n) == [i \in 1 .. n |-> i]

Init ==
  /\ produced = [d \in Directions |-> 0]
  /\ fin      = [d \in Directions |-> FALSE]
  /\ out      = [d \in Directions |-> <<>>]
  /\ closed   = [d \in Directions |-> FALSE]
  /\ broken   = FALSE
  /\ over     = FALSE

Produce(d) ==
  /\ ~fin[d]
  /\ produced' = [produced EXCEPT ![d] = @ + 1]
  /\ UNCHANGED <<fin, out, closed, broken, over>>

Finish(d) ==
  /\ fin' = [fin EXCEPT ![d] = TRUE]
  /\ UNCHANGED <<produced, out, closed, broken, over>>

Break ==
  /\ broken' = TRUE
  /\ UNCHANGED <<produced, fin, out, closed, over>>

Deliver(d) ==
  /\ ~over /\ ~closed[d]
  /\ \E n \in Len(out[d]) + 1 .. produced[d] :
       out' = [out EXCEPT ![d] = Stream(n)]
  /\ UNCHANGED <<produced, fin, closed, broken, over>>

Close(d) ==
  /\ ~over /\ ~closed[d]
  /\ fin[d] /\ Len(out[d]) = produced[d]
  /\ closed' = [closed EXCEPT ![d] = TRUE]
  /\ over' = (\A x \in Directions : closed'[x])
  /\ UNCHANGED <<produced, fin, out, broken>>

GiveUp ==
  /\ broken /\ ~over
  /\ over' = TRUE
  /\ UNCHANGED <<produced, fin, out, closed, broken>>

Next == \/ \E d \in Directions : Produce(d) \/ Finish(d) \/ Deliver(d) \/ Close(d)
        \/ Break \/ GiveUp

Spec == Init /\ [][Next]_vars
=============================================================================

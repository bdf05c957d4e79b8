------------------------- MODULE BlockingRelayProofs -------------------------
(***************************************************************************)
(* Safety of BlockingRelay for every buffer size, stream length and queue  *)
(* capacity: its types, that no thread is left behind, whom an error is    *)
(* blamed on, and that it implements StreamRelay.                          *)
(***************************************************************************)
EXTENDS BlockingRelay, SequenceTheorems, TLAPS

-----------------------------------------------------------------------------
(* The inductive invariant.                                                *)

\* A direction has sent the bytes it took, in order, up to the rest of its buffer, and a
\* thread returns to recv() only when there is no rest.
Bytes(d) ==
  /\ out[d] = [i \in 1 .. Len(out[d]) |-> i]
  /\ buffer[d] = [i \in 1 .. Len(buffer[d]) |-> received[d] - Len(buffer[d]) + i]
  /\ Len(out[d]) + Unsent(d) = received[d]
  /\ received[d] <= produced[d]
  /\ pc[d] = "recv" => Unsent(d) = 0

\* The end that was passed on is the end of the stream.
EndIsReal(d) ==
  ended[d] => pc[d] = "done" /\ fin[d] /\ received[d] = produced[d] /\ Unsent(d) = 0

\* A source that was shut down for reading was shut by shutdown_server, by its own thread
\* on the way out, or by the other thread, which has left.
ShutInv(d) ==
  /\ pc[d] = "shut_destination" => Source(d) \in no_read
  /\ Source(d) \in no_read =>
       stop_requested \/ pc[d] \in {"shut_destination", "done"} \/ pc[Other(d)] = "done"

\* What a thread can do as long as no peer resets and the server does not stop.
Undisturbed(d) ==
  /\ pc[d] \in {"recv", "send", "done"}
  /\ pc[d] = "done" => ended[d]
  /\ Source(d) \notin no_read
  /\ Destination(d) \in no_write => pc[d] = "done"

\* The backend's socket is shut for writing by the thread that sends to it, when it leaves,
\* or by the other one, when it has given up.
GaveUp == pc["backend_to_client"] \in {"shut_destination", "done"} /\ ~ended["backend_to_client"]
BackendShut == "backend" \in no_write => pc["client_to_backend"] = "done" \/ GaveUp

Control ==
  /\ \A d \in Directions : EndIsReal(d) /\ ShutInv(d)
  /\ reset = {} /\ ~stop_requested => \A d \in Directions : Undisturbed(d)
  /\ NobodyLeftBehind
  /\ BackendShut
  /\ BlameHasItsCause

BlockingRelayInv == TypeOK /\ (\A d \in Directions : Bytes(d)) /\ Control

-----------------------------------------------------------------------------
(* Directions and frames.                                                  *)

LEMMA DirectionFacts ==
  ASSUME NEW d \in Directions
  PROVE  /\ Other(d) \in Directions /\ Other(d) # d /\ Other(Other(d)) = d
         /\ \A x \in Directions : x = d \/ x = Other(d)
         /\ Source(Other(d)) = Destination(d) /\ Destination(Other(d)) = Source(d)
         /\ Source(d) # Destination(d)
         /\ Source(d) \in Sockets /\ Destination(d) \in Sockets
<1>1. \A x \in Directions : \E y \in Directions : y # x
  BY DEF Directions
<1>2. \A x \in Directions : Other(x) \in Directions /\ Other(x) # x
  BY <1>1 DEF Other
<1>3. Other("client_to_backend") = "backend_to_client"
  BY <1>2 DEF Directions
<1>4. Other("backend_to_client") = "client_to_backend"
  BY <1>2 DEF Directions
<1>5. CASE d = "client_to_backend"
  BY <1>3, <1>4, <1>5 DEF Directions, Source, Destination, Sockets
<1>6. CASE d = "backend_to_client"
  BY <1>3, <1>4, <1>6 DEF Directions, Source, Destination, Sockets
<1> QED BY <1>5, <1>6 DEF Directions

\* What the thread of d leaves alone.
OthersKeep(d) ==
  /\ UNCHANGED <<peerVars, stop_requested>>
  /\ no_read \subseteq no_read' /\ no_write \subseteq no_write'
  /\ \A x \in Directions \ {d} :
       /\ pc'[x] = pc[x] /\ buffer'[x] = buffer[x] /\ total_sent'[x] = total_sent[x]
       /\ ended'[x] = ended[x] /\ received'[x] = received[x] /\ out'[x] = out[x]

LEMMA ThreadFrame ==
  ASSUME TypeOK, NEW d \in Directions, forward_data(d)
  PROVE  OthersKeep(d)
<1> USE DEF OthersKeep, TypeOK, peerVars, shutVars, Goto
<1>1. CASE RecvData(d) BY <1>1 DEF RecvData
<1>2. CASE RecvEof(d) BY <1>2 DEF RecvEof, PassOnEnd
<1>3. CASE RecvError(d) BY <1>3 DEF RecvError
<1>4. CASE SendData(d) BY <1>4 DEF SendData
<1>5. CASE SendError(d) BY <1>5 DEF SendError
<1>6. CASE ShutSource(d) BY <1>6 DEF ShutSource
<1>7. CASE ShutDestination(d) BY <1>7 DEF ShutDestination
<1> QED BY <1>1, <1>2, <1>3, <1>4, <1>5, <1>6, <1>7 DEF forward_data

\* The state of direction d that only its thread changes.
DirectionState(d) == <<pc[d], buffer[d], total_sent[d], ended[d], received[d], out[d]>>

-----------------------------------------------------------------------------
(* Types and bytes.                                                        *)

LEMMA InitInv == Init => BlockingRelayInv
<1> SUFFICES ASSUME Init PROVE BlockingRelayInv
  OBVIOUS
<1> USE DEF Init
<1>1. TypeOK
  <2>1. Len(<<>>) = 0 /\ <<>> \in Seq(Nat) /\ BufferSize \in Nat
    BY BlockingRelayAssumption
  <2>2. \A d \in Directions : buffer[d] = <<>> /\ total_sent[d] = 0
    OBVIOUS
  <2>3. \A d \in Directions : total_sent[d] <= Len(buffer[d]) /\ Len(buffer[d]) <= BufferSize
    BY <2>1, <2>2
  <2> QED BY <2>1, <2>3 DEF TypeOK
<1>2. ASSUME NEW d \in Directions PROVE Bytes(d)
  <2>1. /\ out[d] = <<>> /\ buffer[d] = <<>> /\ total_sent[d] = 0
        /\ received[d] = 0 /\ produced[d] = 0
    OBVIOUS
  <2> QED BY <2>1 DEF Bytes, Unsent
<1>3. Control
  BY DirectionFacts DEF Control, EndIsReal, ShutInv, Undisturbed, NobodyLeftBehind,
     BackendShut, BlameHasItsCause
<1> QED BY <1>1, <1>2, <1>3 DEF BlockingRelayInv

\* recv() took n bytes.
LEMMA RecvDataKeepsBytes ==
  ASSUME BlockingRelayInv, NEW d \in Directions, RecvData(d)
  PROVE  TypeOK' /\ Bytes(d)'
<1>1. PICK n \in 1 .. BufferSize :
        /\ n <= produced[d] - received[d]
        /\ buffer' = [buffer EXCEPT ![d] = [i \in 1 .. n |-> received[d] + i]]
        /\ received' = [received EXCEPT ![d] = @ + n]
  BY DEF RecvData
<1>2. /\ total_sent' = [total_sent EXCEPT ![d] = 0]
      /\ pc' = [pc EXCEPT ![d] = "send"] /\ pc[d] = "recv"
      /\ UNCHANGED <<ended, healthy, stop_requested, shutVars, peerVars, out>>
  BY DEF RecvData, Goto
<1> DEFINE r == received[d]
           taken == [i \in 1 .. n |-> r + i]
<1>3. /\ n \in Nat /\ n <= BufferSize /\ 0 < n /\ r \in Nat /\ produced[d] \in Nat
      /\ n <= produced[d] - r
  BY <1>1, BlockingRelayAssumption DEF BlockingRelayInv, TypeOK
<1>4. taken \in Seq(Nat) /\ Len(taken) = n /\ r + n \in Nat
  BY <1>3
<1>5. Len(out[d]) = r
  BY DEF BlockingRelayInv, TypeOK, Bytes, RecvData, Unsent
<1>6. /\ buffer' = [buffer EXCEPT ![d] = taken]
      /\ received' = [received EXCEPT ![d] = r + n]
  BY <1>1
<1> HIDE DEF taken, r
<1>7. TypeOK'
  <2> USE DEF BlockingRelayInv, TypeOK
  <2>1. buffer' \in [Directions -> Seq(Nat)] /\ received' \in [Directions -> Nat]
    BY <1>4, <1>6
  <2>2. total_sent' \in [Directions -> Nat]
    BY <1>2
  <2>3. \A x \in Directions : total_sent'[x] <= Len(buffer'[x]) /\ Len(buffer'[x]) <= BufferSize
    BY <1>2, <1>3, <1>4, <1>6
  <2>4. pc' \in [Directions -> {"recv", "send", "shut_source", "shut_destination", "done"}]
    BY <1>2
  <2> QED BY <1>2, <2>1, <2>2, <2>3, <2>4 DEF shutVars, peerVars
<1>8. Bytes(d)'
  <2>1. /\ buffer'[d] = taken /\ received'[d] = r + n /\ total_sent'[d] = 0
        /\ out'[d] = out[d] /\ produced'[d] = produced[d] /\ pc'[d] = "send"
    BY <1>2, <1>6 DEF BlockingRelayInv, TypeOK, peerVars
  <2>2. Len(out'[d]) + Unsent(d)' = received'[d]
    BY <1>3, <1>4, <1>5, <2>1 DEF Unsent
  <2>3. taken = [i \in 1 .. Len(taken) |-> (r + n) - Len(taken) + i]
    BY <1>3, <1>4, SMTT(30) DEF taken
  <2>4. received'[d] <= produced'[d]
    BY <1>3, <2>1
  <2>5. out[d] = [i \in 1 .. Len(out[d]) |-> i]
    BY DEF BlockingRelayInv, Bytes
  <2> QED BY <2>1, <2>2, <2>3, <2>4, <2>5 DEF Bytes
<1> QED BY <1>7, <1>8

\* send() took n bytes, the next ones.
LEMMA SendDataKeepsBytes ==
  ASSUME BlockingRelayInv, NEW d \in Directions, SendData(d)
  PROVE  /\ TypeOK' /\ Bytes(d)'
         /\ Len(out[d]) \in Nat /\ Len(out'[d]) \in Nat
         /\ Len(out[d]) < Len(out'[d]) /\ Len(out'[d]) <= produced[d]
         /\ pc'[d] \in {"recv", "send"}
<1>1. PICK n \in 1 .. Unsent(d) :
        /\ out' = [out EXCEPT ![d] = @ \o Sent(d, n)]
        /\ total_sent' = [total_sent EXCEPT ![d] = NextTotal(d, n)]
        /\ Goto(d, AfterSend(d, n))
  BY DEF SendData
<1> DEFINE o == out[d]
           l == Len(o)
           b == buffer[d]
           m == Len(b)
           t == total_sent[d]
           r == received[d]
           s == SubSeq(b, t + 1, t + n)
<1>2. /\ UNCHANGED <<buffer, ended, healthy, stop_requested, shutVars, peerVars, received>>
      /\ out' = [out EXCEPT ![d] = o \o s]
      /\ total_sent' = [total_sent EXCEPT ![d] = t + n]
      /\ pc' = [pc EXCEPT ![d] = IF n = m - t THEN "recv" ELSE "send"]
  BY <1>1 DEF SendData, Sent, NextTotal, Goto, AfterSend, Unsent
<1>3. /\ o \in Seq(Nat) /\ b \in Seq(Nat) /\ l \in Nat /\ m \in Nat /\ t \in Nat /\ r \in Nat
      /\ produced[d] \in Nat /\ BufferSize \in Nat /\ t <= m /\ m <= BufferSize
  BY BlockingRelayAssumption DEF BlockingRelayInv, TypeOK
<1>4. /\ o = [i \in 1 .. l |-> i]
      /\ b = [i \in 1 .. m |-> r - m + i]
      /\ l + (m - t) = r /\ r <= produced[d]
  BY DEF BlockingRelayInv, Bytes, Unsent
<1>5. n \in Nat /\ 0 < n /\ n <= m - t
  BY <1>1, <1>3 DEF Unsent
<1> HIDE DEF o, l, b, m, t, r
<1>6. s \in Seq(Nat) /\ Len(s) = n /\ \A i \in 1 .. n : s[i] = b[t + i]
  <2>1. t + 1 \in Nat /\ t + n \in Nat /\ t + n <= m /\ 1 <= t + 1
    BY <1>3, <1>5
  <2> QED BY <1>3, <1>5, <2>1, SMTT(30) DEF m
<1> HIDE DEF s
<1>7. /\ o \o s \in Seq(Nat) /\ Len(o \o s) = l + n
      /\ \A i \in 1 .. l + n : (o \o s)[i] = IF i <= l THEN o[i] ELSE s[i - l]
      /\ o \o s = [i \in 1 .. l + n |-> (o \o s)[i]]
  <2>1. /\ o \o s \in Seq(Nat) /\ Len(o \o s) = l + n
        /\ \A i \in 1 .. l + n : (o \o s)[i] = IF i <= l THEN o[i] ELSE s[i - l]
    BY <1>3, <1>6, ConcatProperties DEF l
  <2>2. o \o s \in [1 .. l + n -> Nat]
    BY <2>1, LenProperties
  <2> QED BY <2>1, <2>2
<1>8. o \o s = [i \in 1 .. l + n |-> i]
  <2>1. ASSUME NEW i \in 1 .. l + n PROVE (o \o s)[i] = i
    <3>1. CASE i <= l
      <4>1. i \in 1 .. l
        BY <1>3, <1>5, <3>1
      <4>2. o[i] = i
        BY <1>4, <4>1
      <4> QED BY <1>7, <3>1, <4>2
    <3>2. CASE ~(i <= l)
      <4>1. i - l \in 1 .. n /\ t + (i - l) \in 1 .. m
        BY <1>3, <1>5, <3>2
      <4>2. (o \o s)[i] = b[t + (i - l)]
        BY <1>6, <1>7, <3>2, <4>1
      <4>3. b[t + (i - l)] = r - m + (t + (i - l))
        BY <1>4, <4>1
      <4>4. /\ l \in Nat /\ m \in Nat /\ t \in Nat /\ r \in Nat /\ i \in Int
            /\ l + (m - t) = r
        BY <1>3, <1>4, <1>5
      <4>5. r - m + (t + (i - l)) = i
        BY <4>4
      <4> QED BY <4>2, <4>3, <4>5
    <3> QED BY <3>1, <3>2
  <2> QED BY <1>7, <2>1
<1>9. l + n \in Nat /\ t + n \in Nat /\ t + n <= m
  BY <1>3, <1>5
<1>10. TypeOK'
  <2> USE DEF BlockingRelayInv, TypeOK
  <2>1. out' \in [Directions -> Seq(Nat)] /\ total_sent' \in [Directions -> Nat]
    BY <1>2, <1>7, <1>9
  <2>2. \A x \in Directions : total_sent'[x] <= Len(buffer'[x]) /\ Len(buffer'[x]) <= BufferSize
    BY <1>2, <1>3, <1>9 DEF b, m
  <2>3. pc' \in [Directions -> {"recv", "send", "shut_source", "shut_destination", "done"}]
    BY <1>2
  <2> QED BY <1>2, <2>1, <2>2, <2>3 DEF shutVars, peerVars
<1>11. /\ out'[d] = o \o s /\ total_sent'[d] = t + n /\ buffer'[d] = b /\ received'[d] = r
       /\ produced'[d] = produced[d] /\ pc'[d] = IF n = m - t THEN "recv" ELSE "send"
  BY <1>2 DEF BlockingRelayInv, TypeOK, peerVars, b, r
<1>12. Len(out'[d]) = l + n
  BY <1>7, <1>11
<1>13. Bytes(d)'
  <2>1. Unsent(d)' = m - (t + n)
    BY <1>11 DEF Unsent, m
  <2>2. Len(out'[d]) + Unsent(d)' = received'[d]
    BY <1>3, <1>4, <1>5, <1>11, <1>12, <2>1
  <2>3. pc'[d] = "recv" => Unsent(d)' = 0
    BY <1>3, <1>5, <1>11, <2>1
  <2>4. buffer'[d] = [i \in 1 .. Len(buffer'[d]) |-> received'[d] - Len(buffer'[d]) + i]
    BY <1>4, <1>11 DEF m
  <2> QED BY <1>4, <1>8, <1>11, <1>12, <2>2, <2>3, <2>4 DEF Bytes
<1>14. Len(out[d]) = l
  BY DEF l, o
<1>15. l < l + n /\ l + n <= produced[d]
  BY <1>3, <1>4, <1>5
<1> QED BY <1>3, <1>9, <1>10, <1>11, <1>12, <1>13, <1>14, <1>15

\* The calls that move no byte.
LEMMA QuietCallsKeepBytes ==
  ASSUME BlockingRelayInv, NEW d \in Directions,
         RecvEof(d) \/ RecvError(d) \/ SendError(d) \/ ShutSource(d) \/ ShutDestination(d)
  PROVE  TypeOK' /\ Bytes(d)'
<1>1. /\ UNCHANGED <<buffer, total_sent, stop_requested, peerVars, received, out>>
      /\ pc' \in {[pc EXCEPT ![d] = p] : p \in {"shut_source", "shut_destination", "done"}}
  BY DEF RecvEof, RecvError, SendError, ShutSource, ShutDestination, Goto
<1>2. no_read' \subseteq Sockets /\ no_write' \subseteq Sockets
  BY DirectionFacts DEF BlockingRelayInv, TypeOK, RecvEof, RecvError, SendError, ShutSource,
     ShutDestination, PassOnEnd, shutVars
<1>3. healthy' \in BOOLEAN
  BY DEF BlockingRelayInv, TypeOK, RecvEof, RecvError, SendError, ShutSource, ShutDestination,
     BlamesBackend
<1>4. ended' \in [Directions -> BOOLEAN]
  <2>1. RealEof(d) \in BOOLEAN
    BY DEF RealEof, BlockingRelayInv, TypeOK
  <2>2. ended' = ended \/ ended' = [ended EXCEPT ![d] = RealEof(d)]
    BY DEF RecvEof, RecvError, SendError, ShutSource, ShutDestination
  <2> QED BY <2>1, <2>2 DEF BlockingRelayInv, TypeOK
<1>5. /\ pc' \in [Directions -> {"recv", "send", "shut_source", "shut_destination", "done"}]
      /\ pc'[d] # "recv"
  BY <1>1 DEF BlockingRelayInv, TypeOK
<1>6. TypeOK'
  BY <1>1, <1>2, <1>3, <1>4, <1>5 DEF BlockingRelayInv, TypeOK, peerVars
<1>7. Bytes(d)
  BY DEF BlockingRelayInv
<1>8. Bytes(d)'
  BY <1>1, <1>5, <1>7 DEF Bytes, Unsent, peerVars
<1> QED BY <1>6, <1>8

LEMMA BytesFrame ==
  ASSUME BlockingRelayInv, NEW d \in Directions, OthersKeep(d), Bytes(d)'
  PROVE  \A x \in Directions : Bytes(x)'
<1> SUFFICES ASSUME NEW x \in Directions \ {d} PROVE Bytes(x)'
  OBVIOUS
<1>1. /\ pc'[x] = pc[x] /\ buffer'[x] = buffer[x] /\ total_sent'[x] = total_sent[x]
      /\ received'[x] = received[x] /\ out'[x] = out[x] /\ produced'[x] = produced[x]
  BY DEF OthersKeep, peerVars
<1>2. Bytes(x)
  BY DEF BlockingRelayInv
<1> QED BY <1>1, <1>2 DEF Bytes, Unsent

\* A longer stream or a half-close contradicts nothing; a reset only weakens what is
\* asked of an undisturbed connection.
LEMMA PeersKeepInv == BlockingRelayInv /\ Peers => BlockingRelayInv'
<1> SUFFICES ASSUME BlockingRelayInv, Peers PROVE BlockingRelayInv'
  OBVIOUS
<1> USE DEF BlockingRelayInv
<1>1. UNCHANGED <<threadVars, stop_requested, shutVars, received, out>>
  BY DEF Peers, Produce, HalfClose, Consume, Reset
<1>2. TypeOK'
  <2> USE DEF TypeOK, threadVars, shutVars
  <2>1. ASSUME NEW d \in Directions, Produce(d) PROVE TypeOK'
    BY <2>1, SMTT(30) DEF Produce
  <2>2. ASSUME NEW d \in Directions, HalfClose(d) PROVE TypeOK'
    BY <2>2, SMTT(30) DEF HalfClose
  <2>3. ASSUME NEW d \in Directions, Consume(d) PROVE TypeOK'
    BY <2>3, SMTT(30) DEF Consume
  <2>4. ASSUME NEW s \in Sockets, Reset(s) PROVE TypeOK'
    BY <2>4 DEF Reset
  <2> QED BY <2>1, <2>2, <2>3, <2>4 DEF Peers
<1>3. /\ reset \subseteq reset'
      /\ \A d \in Directions : /\ produced[d] <= produced'[d]
                               /\ fin[d] => fin'[d] /\ produced'[d] = produced[d]
  <2> USE DEF TypeOK
  <2>1. ASSUME NEW x \in Directions, Produce(x)
        PROVE  \A d \in Directions : /\ produced[d] <= produced'[d]
                                     /\ fin[d] => fin'[d] /\ produced'[d] = produced[d]
    BY <2>1, SMTT(30) DEF Produce
  <2>2. ASSUME NEW x \in Directions, HalfClose(x)
        PROVE  \A d \in Directions : /\ produced[d] <= produced'[d]
                                     /\ fin[d] => fin'[d] /\ produced'[d] = produced[d]
    BY <2>2, SMTT(30) DEF HalfClose
  <2>3. UNCHANGED <<produced, fin>> =>
          \A d \in Directions : /\ produced[d] <= produced'[d]
                                /\ fin[d] => fin'[d] /\ produced'[d] = produced[d]
    OBVIOUS
  <2>4. reset \subseteq reset'
    BY DEF Peers, Produce, HalfClose, Consume, Reset
  <2> QED BY <2>1, <2>2, <2>3, <2>4 DEF Peers, Consume, Reset
<1>4. ASSUME NEW d \in Directions PROVE Bytes(d)'
  <2>1. received[d] \in Nat /\ produced[d] \in Nat /\ produced'[d] \in Nat
    BY <1>2 DEF TypeOK
  <2>2. received[d] <= produced[d] /\ produced[d] <= produced'[d]
    BY <1>3 DEF Bytes
  <2>3. received[d] <= produced'[d]
    <3> HIDE DEF BlockingRelayInv
    <3> QED BY <2>1, <2>2
  <2> QED BY <1>1, <2>3 DEF Bytes, Unsent, threadVars
<1>5. \A d \in Directions : EndIsReal(d)' /\ ShutInv(d)'
  BY <1>1, <1>3 DEF Control, EndIsReal, ShutInv, Unsent, threadVars, shutVars
<1>6. reset' = {} /\ ~stop_requested' => \A d \in Directions : Undisturbed(d)'
  BY <1>1, <1>3 DEF Control, Undisturbed, threadVars, shutVars
<1>7. NobodyLeftBehind' /\ BackendShut' /\ BlameHasItsCause'
  BY <1>1, <1>3 DEF Control, NobodyLeftBehind, BackendShut, GaveUp, BlameHasItsCause, threadVars,
     shutVars
<1> QED BY <1>2, <1>4, <1>5, <1>6, <1>7 DEF Control

\* shutdown_server only shuts the client's socket, which is what a thread that stops waiting
\* for it relies on.
LEMMA ServerKeepsInv ==
  ASSUME BlockingRelayInv, StopRequested \/ ShutClient
  PROVE  BlockingRelayInv'
<1> USE DEF BlockingRelayInv
<1>1. /\ UNCHANGED <<threadVars, peerVars, received, out>>
      /\ no_read \subseteq no_read' /\ no_write \subseteq no_write'
      /\ no_read' \subseteq Sockets /\ no_write' \subseteq Sockets
      /\ stop_requested' = TRUE
  BY DEF StopRequested, ShutClient, shutVars, TypeOK, Sockets
<1>2. TypeOK'
  BY <1>1 DEF TypeOK, threadVars, peerVars
<1>3. \A d \in Directions : Bytes(d)'
  BY <1>1 DEF Bytes, Unsent, threadVars, peerVars
<1>4. Control'
  <2>1. \A d \in Directions : EndIsReal(d)' /\ ShutInv(d)'
    BY <1>1 DEF Control, EndIsReal, ShutInv, Unsent, threadVars, peerVars
  <2>2. NobodyLeftBehind' /\ BlameHasItsCause'
    BY <1>1 DEF Control, NobodyLeftBehind, BlameHasItsCause, threadVars, peerVars
  <2>3. BackendShut'
    <3>1. "backend" \in no_write' => "backend" \in no_write
      BY DEF StopRequested, ShutClient, shutVars
    <3>2. BackendShut /\ pc' = pc /\ ended' = ended
      BY <1>1 DEF Control, threadVars
    <3> QED BY <3>1, <3>2 DEF BackendShut, GaveUp
  <2> QED BY <1>1, <2>1, <2>2, <2>3 DEF Control
<1> QED BY <1>2, <1>3, <1>4

-----------------------------------------------------------------------------
(* The threads.                                                            *)

\* The five things a call can mean to the rest of the connection: bytes were moved; the end
\* was passed on; an error was met; the source was shut; the destination was shut.
Moves(d) ==
  /\ pc[d] \in {"recv", "send"} /\ pc'[d] \in {"recv", "send"}
  /\ ended'[d] = ended[d] /\ UNCHANGED <<healthy, no_read, no_write>>

Ends(d) ==
  /\ pc[d] = "recv" /\ pc'[d] = "done"
  /\ RealEof(d) \/ Source(d) \in no_read
  /\ ended'[d] = RealEof(d) /\ UNCHANGED healthy
  /\ no_write' = no_write \cup {Destination(d)}
  /\ no_read' = no_read \cup {s \in {Destination(d)} : stop_requested}

Breaks(d) ==
  /\ pc[d] \in {"recv", "send"} /\ pc'[d] = "shut_source"
  /\ ended'[d] = ended[d] /\ UNCHANGED <<no_read, no_write>>
  /\ Source(d) \in reset \/ Destination(d) \in reset \cup no_write
  /\ \/ healthy' = healthy
     \/ "backend" \in reset
     \/ pc[d] = "send" /\ Destination(d) = "backend" /\ "backend" \in no_write

Shuts(d, from, to, s) ==
  /\ pc[d] = from /\ pc'[d] = to
  /\ ended'[d] = ended[d] /\ UNCHANGED healthy
  /\ no_read' = no_read \cup {s} /\ no_write' = no_write \cup {s}

LEMMA ThreadEffect ==
  ASSUME BlockingRelayInv, NEW d \in Directions, forward_data(d)
  PROVE  \/ Moves(d) \/ Ends(d) \/ Breaks(d)
         \/ Shuts(d, "shut_source", "shut_destination", Source(d))
         \/ Shuts(d, "shut_destination", "done", Destination(d))
<1> USE DEF BlockingRelayInv, TypeOK, Goto, shutVars
<1>1. CASE RecvData(d) BY <1>1 DEF RecvData, Moves
<1>2. CASE RecvEof(d)
  <2>1. CASE PassOnEnd(d) /\ Goto(d, "done") /\ ended' = [ended EXCEPT ![d] = RealEof(d)]
    BY <1>2, <2>1 DEF RecvEof, PassOnEnd, Ends
  <2>2. CASE Destination(d) \in reset \cup no_write /\ Goto(d, "shut_source")
             /\ UNCHANGED <<ended, shutVars>>
    BY <1>2, <2>2 DEF RecvEof, Breaks
  <2> QED BY <1>2, <2>1, <2>2 DEF RecvEof
<1>3. CASE RecvError(d) BY <1>3 DEF RecvError, Breaks, BlamesBackend
<1>4. CASE SendData(d) BY <1>4 DEF SendData, AfterSend, Moves
<1>5. CASE SendError(d) BY <1>5 DEF SendError, Breaks, BlamesBackend
<1>6. CASE ShutSource(d) BY <1>6 DEF ShutSource, Shuts
<1>7. CASE ShutDestination(d) BY <1>7 DEF ShutDestination, Shuts
<1> QED BY <1>1, <1>2, <1>3, <1>4, <1>5, <1>6, <1>7 DEF forward_data

\* The flag is lost by an error of the backend's socket, or by a send() to it after the other
\* thread has given up, which an undisturbed one does not do.
LEMMA BlameFollowsCause ==
  ASSUME BlockingRelayInv, NEW d \in Directions, forward_data(d)
  PROVE  BackendShut' /\ BlameHasItsCause'
<1> DEFINE up   == "client_to_backend"
           down == "backend_to_client"
<1>1. /\ d = up \/ d = down
      /\ up \in Directions /\ down \in Directions /\ up # down
      /\ Source(up) = "client" /\ Destination(up) = "backend"
      /\ Source(down) = "backend" /\ Destination(down) = "client"
  BY DEF Directions, Source, Destination
<1>2. /\ d # up => pc'[up] = pc[up]
      /\ d # down => pc'[down] = pc[down] /\ ended'[down] = ended[down]
      /\ reset' = reset /\ stop_requested' = stop_requested /\ no_write \subseteq no_write'
  BY <1>1, ThreadFrame DEF OthersKeep, peerVars, BlockingRelayInv
<1>3. BackendShut /\ BlameHasItsCause /\ reset \subseteq {"client", "backend"}
  BY DEF BlockingRelayInv, Control, TypeOK, Sockets
<1>4. pc[d] # "done"
  BY DEF BlockingRelayInv, TypeOK, forward_data, RecvData, RecvEof, RecvError, SendData, SendError,
     ShutSource, ShutDestination
<1>5. GaveUp => reset # {} \/ stop_requested
  BY <1>1 DEF GaveUp, BlockingRelayInv, Control, Undisturbed
<1>6. GaveUp => GaveUp'
  <2>1. CASE d = up
    BY <1>1, <1>2, <2>1 DEF GaveUp
  <2>2. CASE d = down
    BY <1>1, <1>4, <2>2, ThreadEffect DEF GaveUp, Moves, Ends, Breaks, Shuts
  <2> QED BY <1>1, <2>1, <2>2
<1>7. BackendShut'
  <2>1. CASE d = up
    BY <1>1, <1>2, <1>3, <1>4, <1>6, <2>1, ThreadEffect
       DEF BackendShut, Moves, Ends, Breaks, Shuts
  <2>2. CASE d = down
    <3>1. Shuts(d, "shut_source", "shut_destination", Source(d)) => GaveUp'
      <4>1. pc[d] = "shut_source" => ~ended[d]
        BY DEF BlockingRelayInv, Control, EndIsReal
      <4> QED BY <2>2, <4>1 DEF Shuts, GaveUp
    <3> QED BY <1>1, <1>2, <1>3, <1>6, <2>2, <3>1, ThreadEffect
            DEF BackendShut, Moves, Ends, Breaks, Shuts
  <2> QED BY <1>1, <2>1, <2>2
<1>8. BlameHasItsCause'
  <2>1. CASE healthy' = healthy
    BY <1>2, <1>3, <1>6, <2>1 DEF BlameHasItsCause, GaveUp
  <2>2. CASE "backend" \in reset
    BY <1>2, <2>2 DEF BlameHasItsCause
  <2>3. CASE d = up /\ pc[up] = "send" /\ "backend" \in no_write
    <3>1. GaveUp
      BY <1>3, <2>3 DEF BackendShut
    <3> QED BY <1>2, <1>3, <1>5, <1>6, <2>3, <3>1 DEF BlameHasItsCause, GaveUp
  <2> QED BY <1>1, <2>1, <2>2, <2>3, ThreadEffect DEF Moves, Ends, Breaks, Shuts
<1> QED BY <1>7, <1>8

LEMMA ThreadKeepsControl ==
  ASSUME BlockingRelayInv, NEW d \in Directions, forward_data(d), Bytes(d)'
  PROVE  Control'
<1> DEFINE y == Other(d)
<1>1. /\ y = Other(d) /\ y \in Directions /\ y # d /\ Other(y) = d
      /\ \A x \in Directions : x = d \/ x = y
      /\ Source(y) = Destination(d) /\ Destination(y) = Source(d)
      /\ Source(d) # Destination(d)
  BY DirectionFacts
<1>2. OthersKeep(d)
  BY ThreadFrame DEF BlockingRelayInv
<1>3. /\ pc'[y] = pc[y] /\ ended'[y] = ended[y] /\ Unsent(y)' = Unsent(y)
      /\ received'[y] = received[y]
      /\ fin' = fin /\ produced' = produced /\ reset' = reset /\ stop_requested' = stop_requested
      /\ no_read \subseteq no_read' /\ no_write \subseteq no_write'
  BY <1>1, <1>2 DEF OthersKeep, peerVars, Unsent
<1>4. /\ EndIsReal(d) /\ EndIsReal(y) /\ ShutInv(d) /\ ShutInv(y)
      /\ reset = {} /\ ~stop_requested => Undisturbed(d) /\ Undisturbed(y)
      /\ pc[d] = "done" /\ ~ended[d] =>
           /\ Source(d) \in no_read /\ Destination(d) \in no_write
           /\ \/ Destination(d) \in no_read
              \/ pc[y] \in {"shut_source", "shut_destination", "done"}
      /\ pc[y] = "done" /\ ~ended[y] =>
           /\ Destination(d) \in no_read /\ Source(d) \in no_write
           /\ \/ Source(d) \in no_read
              \/ pc[d] \in {"shut_source", "shut_destination", "done"}
  BY <1>1 DEF BlockingRelayInv, Control, NobodyLeftBehind
<1>5. ASSUME EndIsReal(d)', ShutInv(d)', ShutInv(y)',
             reset = {} /\ ~stop_requested => Undisturbed(d)' /\ Undisturbed(y)',
             pc'[d] = "done" /\ ~ended'[d] =>
               /\ Source(d) \in no_read' /\ Destination(d) \in no_write'
               /\ \/ Destination(d) \in no_read'
                  \/ pc[y] \in {"shut_source", "shut_destination", "done"},
             pc[d] \in {"shut_source", "shut_destination", "done"} =>
               pc'[d] \in {"shut_source", "shut_destination", "done"}
      PROVE  Control'
  <2>1. \A x \in Directions : EndIsReal(x)' /\ ShutInv(x)'
    BY <1>1, <1>3, <1>4, <1>5 DEF EndIsReal
  <2>2. NobodyLeftBehind'
    <3>1. pc'[y] = "done" /\ ~ended'[y] =>
           /\ Source(y) \in no_read' /\ Destination(y) \in no_write'
           /\ \/ Source(d) \in no_read'
              \/ pc'[d] \in {"shut_source", "shut_destination", "done"}
      BY <1>1, <1>3, <1>4, <1>5
    <3>2. pc'[d] = "done" /\ ~ended'[d] =>
           /\ Source(d) \in no_read' /\ Destination(d) \in no_write'
           /\ \/ Source(y) \in no_read'
              \/ pc'[y] \in {"shut_source", "shut_destination", "done"}
      BY <1>1, <1>3, <1>5
    <3> QED BY <1>1, <3>1, <3>2 DEF NobodyLeftBehind
  <2>3. reset' = {} /\ ~stop_requested' => \A x \in Directions : Undisturbed(x)'
    BY <1>1, <1>3, <1>5
  <2>4. BackendShut' /\ BlameHasItsCause'
    BY BlameFollowsCause
  <2> QED BY <2>1, <2>2, <2>3, <2>4 DEF Control
<1> HIDE DEF y
<1>6. CASE Moves(d)
  BY <1>1, <1>3, <1>4, <1>5, <1>6 DEF Moves, EndIsReal, ShutInv, Undisturbed
<1>7. CASE Ends(d)
  <2>1. EndIsReal(d)'
    <3>1. RecvEof(d)
      BY <1>7 DEF BlockingRelayInv, TypeOK, Ends, Goto, forward_data, RecvData, RecvError,
         SendData, SendError, ShutSource, ShutDestination
    <3>2. Unsent(d) = 0
      BY <1>7 DEF BlockingRelayInv, Bytes, Ends
    <3>3. Unsent(d)' = 0 /\ received'[d] = received[d]
      BY <3>1, <3>2 DEF RecvEof, Unsent
    <3> QED BY <1>3, <1>7, <3>3 DEF Ends, EndIsReal, RealEof
  <2> QED BY <1>1, <1>3, <1>4, <1>5, <1>7, <2>1 DEF Ends, ShutInv, Undisturbed, RealEof
<1>8. CASE Breaks(d)
  BY <1>1, <1>3, <1>4, <1>5, <1>8 DEF Breaks, EndIsReal, ShutInv, Undisturbed
<1>9. CASE Shuts(d, "shut_source", "shut_destination", Source(d))
  BY <1>1, <1>3, <1>4, <1>5, <1>9 DEF Shuts, EndIsReal, ShutInv, Undisturbed
<1>10. CASE Shuts(d, "shut_destination", "done", Destination(d))
  BY <1>1, <1>3, <1>4, <1>5, <1>10 DEF Shuts, EndIsReal, ShutInv, Undisturbed
<1> QED BY <1>6, <1>7, <1>8, <1>9, <1>10, ThreadEffect

LEMMA ThreadKeepsInv ==
  ASSUME BlockingRelayInv, NEW d \in Directions, forward_data(d)
  PROVE  BlockingRelayInv'
<1>1. TypeOK' /\ Bytes(d)'
  BY RecvDataKeepsBytes, SendDataKeepsBytes, QuietCallsKeepBytes DEF forward_data
<1>2. OthersKeep(d)
  BY ThreadFrame DEF BlockingRelayInv
<1>3. \A x \in Directions : Bytes(x)'
  BY <1>1, <1>2, BytesFrame
<1>4. Control'
  BY <1>1, ThreadKeepsControl
<1> QED BY <1>1, <1>3, <1>4 DEF BlockingRelayInv

LEMMA StutterKeepsInv == BlockingRelayInv /\ UNCHANGED vars => BlockingRelayInv'
BY DEF BlockingRelayInv, vars, threadVars, shutVars, peerVars, TypeOK, Bytes, Unsent, Control,
       EndIsReal, ShutInv, Undisturbed, NobodyLeftBehind, BackendShut, GaveUp,
       BlameHasItsCause

LEMMA NextKeepsInv == BlockingRelayInv /\ [Next]_vars => BlockingRelayInv'
<1> SUFFICES ASSUME BlockingRelayInv, [Next]_vars PROVE BlockingRelayInv'
  OBVIOUS
<1>1. CASE Peers
  BY <1>1, PeersKeepInv
<1>2. CASE StopRequested \/ ShutClient
  BY <1>2, ServerKeepsInv
<1>3. CASE \E d \in Directions : forward_data(d)
  BY <1>3, ThreadKeepsInv
<1>4. CASE UNCHANGED vars
  BY <1>4, StutterKeepsInv
<1> QED BY <1>1, <1>2, <1>3, <1>4 DEF Next, Terminated

-----------------------------------------------------------------------------
(* The refinement of StreamRelay.                                          *)

LEMMA PeersRefine ==
  ASSUME BlockingRelayInv, Peers
  PROVE  [Abstract!Next]_Abstract!vars
<1>1. UNCHANGED <<pc, ended, stop_requested, out>>
  BY DEF Peers, Produce, HalfClose, Consume, Reset, threadVars
<1>2. Joined' = Joined
  BY <1>1 DEF Joined
<1>3. ASSUME NEW d \in Directions, Produce(d) PROVE Abstract!Next
  <2>1. Abstract!Produce(d)
    BY <1>1, <1>2, <1>3 DEF Produce, Abstract!Produce
  <2> QED BY <2>1 DEF Abstract!Next
<1>4. ASSUME NEW d \in Directions, HalfClose(d) PROVE Abstract!Next
  <2>1. Abstract!Finish(d)
    BY <1>1, <1>2, <1>4 DEF HalfClose, Abstract!Finish
  <2> QED BY <2>1 DEF Abstract!Next
<1>5. ASSUME NEW d \in Directions, Consume(d) PROVE UNCHANGED Abstract!vars
  BY <1>1, <1>2, <1>5 DEF Consume, Abstract!vars
<1>6. ASSUME NEW s \in Sockets, Reset(s) PROVE Abstract!Next
  <2>1. Abstract!Break
    BY <1>1, <1>2, <1>6 DEF Reset, Abstract!Break
  <2> QED BY <2>1 DEF Abstract!Next
<1> QED BY <1>3, <1>4, <1>5, <1>6 DEF Peers

LEMMA ServerRefines ==
  ASSUME BlockingRelayInv, StopRequested \/ ShutClient
  PROVE  [Abstract!Next]_Abstract!vars
<1>1. UNCHANGED <<pc, ended, produced, fin, out, reset>>
  BY DEF StopRequested, ShutClient, threadVars, peerVars
<1>2. Joined' = Joined
  BY <1>1 DEF Joined
<1>3. CASE StopRequested
  <2>1. Abstract!Break
    BY <1>1, <1>2, <1>3 DEF StopRequested, Abstract!Break
  <2> QED BY <2>1 DEF Abstract!Next
<1>4. CASE ShutClient
  BY <1>1, <1>2, <1>4 DEF ShutClient, Abstract!vars
<1> QED BY <1>3, <1>4

\* A thread that leaves after an error, or because its source was shut down, was disturbed.
LEMMA LeavingNeedsCause ==
  ASSUME BlockingRelayInv, NEW d \in Directions,
         pc[d] \in {"shut_source", "shut_destination"} \/ Source(d) \in no_read
  PROVE  reset # {} \/ stop_requested
BY DEF BlockingRelayInv, Control, Undisturbed

\* The bytes of a send() are delivered by SendData alone; the real end of a stream closes it,
\* and is the end of the connection just when the other thread, too, passed on a real end.
LEMMA ThreadRefines ==
  ASSUME BlockingRelayInv, NEW d \in Directions, forward_data(d)
  PROVE  [Abstract!Next]_Abstract!vars
<1> DEFINE y == Other(d)
<1>1. /\ y \in Directions /\ y # d /\ \A x \in Directions : x = d \/ x = y
      /\ Source(d) = Destination(y)
  BY DirectionFacts
<1>2. /\ OthersKeep(d)
      /\ UNCHANGED <<produced, fin, reset, stop_requested>>
  BY ThreadFrame DEF BlockingRelayInv, OthersKeep, peerVars
<1>3. ended \in [Directions -> BOOLEAN] /\ ended' \in [Directions -> BOOLEAN]
  BY ThreadKeepsInv DEF BlockingRelayInv, TypeOK
<1>4. pc[d] # "done" /\ ~ended[d]
  BY DEF BlockingRelayInv, Control, EndIsReal, TypeOK, forward_data, RecvData, RecvEof, RecvError,
         SendData, SendError, ShutSource, ShutDestination
<1>5. ~Joined
  BY <1>4 DEF Joined
<1>6. CASE SendData(d)
  <2>1. /\ Len(out[d]) \in Nat /\ Len(out'[d]) \in Nat
        /\ Len(out[d]) < Len(out'[d]) /\ Len(out'[d]) <= produced[d]
        /\ pc'[d] \in {"recv", "send"} /\ Bytes(d)' /\ produced[d] \in Nat
    BY <1>6, SendDataKeepsBytes DEF BlockingRelayInv, TypeOK
  <2>2. Len(out'[d]) \in Len(out[d]) + 1 .. produced[d]
    <3> DEFINE l == Len(out[d])
               m == Len(out'[d])
    <3>1. l \in Nat /\ m \in Nat /\ l < m /\ m <= produced[d] /\ produced[d] \in Nat
      BY <2>1
    <3> HIDE DEF l, m
    <3>2. m \in l + 1 .. produced[d]
      BY <3>1
    <3> QED BY <3>2 DEF l, m
  <2>3. out' = [out EXCEPT ![d] = Abstract!Stream(Len(out'[d]))]
    <3>1. out' = [out EXCEPT ![d] = out'[d]]
      BY <1>6 DEF SendData, BlockingRelayInv, TypeOK
    <3>2. out'[d] = Abstract!Stream(Len(out'[d]))
      BY <2>1 DEF Bytes, Abstract!Stream
    <3> QED BY <3>1, <3>2
  <2>4. UNCHANGED ended /\ Joined' = Joined
    BY <1>5, <1>6, <2>1 DEF SendData, Joined
  <2>5. Abstract!Deliver(d)
    BY <1>2, <1>4, <1>5, <2>2, <2>3, <2>4 DEF Abstract!Deliver
  <2> QED BY <2>5 DEF Abstract!Next
<1>7. CASE ~SendData(d) /\ ended'[d]
  <2>1. RecvEof(d) /\ RealEof(d) /\ pc'[d] = "done" /\ pc[d] = "recv"
    BY <1>3, <1>4, <1>7 DEF forward_data, RecvData, RecvEof, RecvError, SendError, ShutSource,
       ShutDestination, Goto, BlockingRelayInv, TypeOK
  <2>2. ended' = [ended EXCEPT ![d] = TRUE] /\ UNCHANGED out
    BY <1>3, <1>7, <2>1 DEF RecvEof
  <2>3. fin[d] /\ Len(out[d]) = produced[d]
    BY <2>1 DEF BlockingRelayInv, TypeOK, Bytes, RealEof
  <2>4. pc[y] = "done" <=> ended[y]
    <3>1. Source(d) \notin no_read
      BY <2>1 DEF RealEof
    <3>2. pc[y] = "done" /\ ~ended[y] => Destination(y) \in no_write /\
            (Source(Other(y)) \in no_read \/ pc[Other(y)] \in {"shut_source", "shut_destination", "done"})
      BY <1>1 DEF BlockingRelayInv, Control, NobodyLeftBehind
    <3>3. Other(y) = d
      BY DirectionFacts
    <3>4. ended[y] => pc[y] = "done"
      BY <1>1 DEF BlockingRelayInv, Control, EndIsReal
    <3> QED BY <2>1, <3>1, <3>2, <3>3, <3>4
  <2>5. Joined' = \A x \in Directions : ended'[x]
    BY <1>1, <1>2, <1>7, <2>1, <2>4 DEF Joined, OthersKeep
  <2>6. Abstract!Close(d)
    BY <1>2, <1>4, <1>5, <2>2, <2>3, <2>5 DEF Abstract!Close
  <2> QED BY <2>6 DEF Abstract!Next
<1>8. CASE ~SendData(d) /\ ~ended'[d]
  <2>1. UNCHANGED <<produced, fin, out, reset, stop_requested>>
    BY <1>2, <1>8 DEF forward_data, RecvData, RecvEof, RecvError, SendError, ShutSource,
       ShutDestination
  <2>2. ended' = ended
    BY <1>2, <1>3, <1>4, <1>8 DEF OthersKeep
  <2>3. CASE Joined'
    <3>1. pc'[d] = "done"
      BY <2>3 DEF Joined
    <3>2. pc[d] = "shut_destination" \/ Source(d) \in no_read
      BY <1>4, <1>8, <3>1, ThreadEffect DEF Moves, Ends, Breaks, Shuts
    <3>3. reset # {} \/ stop_requested
      BY <3>2, LeavingNeedsCause
    <3>4. Abstract!GiveUp
      BY <1>5, <2>1, <2>2, <2>3, <3>3 DEF Abstract!GiveUp
    <3> QED BY <3>4 DEF Abstract!Next
  <2>4. CASE ~Joined'
    <3>1. Joined' = Joined
      BY <1>5, <2>4 DEF Joined
    <3> QED BY <2>1, <2>2, <3>1 DEF Abstract!vars
  <2> QED BY <2>3, <2>4
<1> QED BY <1>6, <1>7, <1>8

-----------------------------------------------------------------------------
(* The theorems.                                                           *)

\* BlockingRelayInv holds in every state, for every buffer size, stream length and queue
\* capacity of the two threads of proxy_connection.
THEOREM Invariance == Spec => []BlockingRelayInv
BY InitInv, NextKeepsInv, PTL DEF Spec

\* The variables keep their types, and send_all never reads beyond the bytes received.
THEOREM TypeCorrect == Spec => []TypeOK
BY Invariance, PTL DEF BlockingRelayInv

\* A thread that leaves forward_data because of an error or a stop leaves the other one nothing
\* to wait for, so that proxy_connection can join both.
THEOREM NobodyIsLeftBehind == Spec => []NobodyLeftBehind
<1>1. BlockingRelayInv => NobodyLeftBehind
  BY DEF BlockingRelayInv, Control
<1> QED BY <1>1, Invariance, PTL

\* forward_data clears the backend's flag only if the backend's own socket broke or, after a
\* reset of the client or a stop, if the other thread gave up and shut that socket down.
THEOREM BlameIsDue == Spec => []BlameHasItsCause
<1>1. BlockingRelayInv => BlameHasItsCause
  BY DEF BlockingRelayInv, Control
<1> QED BY <1>1, Invariance, PTL

\* Two threads that share nothing but two sockets implement the same two streams as the
\* event-driven relay.
THEOREM RefinesStreams == Spec => ImplementsStreams
<1>1. Init => Abstract!Init
  BY DEF Init, Abstract!Init, Joined, Directions
<1>2. BlockingRelayInv /\ [Next]_vars => [Abstract!Next]_Abstract!vars
  <2> SUFFICES ASSUME BlockingRelayInv, [Next]_vars
               PROVE  [Abstract!Next]_Abstract!vars
    OBVIOUS
  <2>1. CASE Peers
    BY <2>1, PeersRefine
  <2>2. CASE StopRequested \/ ShutClient
    BY <2>2, ServerRefines
  <2>3. CASE \E d \in Directions : forward_data(d)
    BY <2>3, ThreadRefines
  <2>4. CASE UNCHANGED vars
    BY <2>4 DEF vars, threadVars, peerVars, Abstract!vars, Joined
  <2> QED BY <2>1, <2>2, <2>3, <2>4 DEF Next, Terminated
<1> QED BY <1>1, <1>2, Invariance, PTL DEF Spec, ImplementsStreams, Abstract!Spec
=============================================================================

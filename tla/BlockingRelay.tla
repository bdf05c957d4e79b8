--------------------------- MODULE BlockingRelay ---------------------------
(***************************************************************************)
(* One connection of the blocking proxy (src/proxy.cpp): the two threads   *)
(* of proxy_connection that run forward_data, one per direction, on the    *)
(* same two sockets, and shutdown_server of src/server.cpp, which another  *)
(* thread runs when the server stops.                                      *)
(*                                                                         *)
(* A step is one system call and what its thread does with the result.     *)
(* The threads share nothing but the sockets: an error of one direction    *)
(* reaches the other because both sockets are shut down.  Byte number k of *)
(* a stream is the number k.                                               *)
(***************************************************************************)
EXTENDS Integers, Sequences

CONSTANTS BufferSize,    \* buffer_size, the most that one recv() asks for
          StreamLength,  \* direction -> the most bytes its source may send
          ReceiveQueue,  \* capacity of the kernel's receive queue
          SendQueue,     \* capacity of the kernel's send queue
          Resettable     \* the sockets whose peer may reset the connection

Sockets    == {"client", "backend"}
Directions == {"client_to_backend", "backend_to_client"}

ASSUME BlockingRelayAssumption ==
  /\ StreamLength \in [Directions -> Nat]
  /\ BufferSize \in Nat \ {0} /\ ReceiveQueue \in Nat \ {0} /\ SendQueue \in Nat \ {0}
  /\ Resettable \subseteq Sockets

Source(d)      == IF d = "client_to_backend" THEN "client" ELSE "backend"
Destination(d) == IF d = "client_to_backend" THEN "backend" ELSE "client"

VARIABLES
  pc,              \* direction -> the call its thread makes next
  buffer,          \* direction -> the bytes of the last recv()
  total_sent,      \* direction -> how many of them send_all has sent
  ended,           \* direction -> its thread passed on a real end of stream
  healthy,         \* the flag of the connection's backend was not cleared by it
  stop_requested,
  no_read,         \* sockets that were shut down for reading
  no_write,        \* sockets that were shut down for writing
  produced,        \* direction -> bytes its source peer has sent so far
  fin,             \* direction -> its source peer has half-closed
  received,        \* direction -> bytes recv() has taken so far
  out,             \* direction -> bytes send() has accepted, in order
  consumed,        \* direction -> bytes its destination peer has read
  reset            \* the sockets whose peer has reset the connection

threadVars == <<pc, buffer, total_sent, ended, healthy>>
shutVars   == <<no_read, no_write>>
peerVars   == <<produced, fin, consumed, reset>>
vars       == <<threadVars, stop_requested, shutVars, peerVars, received, out>>

Init ==
  /\ pc             = [d \in Directions |-> "recv"]
  /\ buffer         = [d \in Directions |-> <<>>]
  /\ total_sent     = [d \in Directions |-> 0]
  /\ ended          = [d \in Directions |-> FALSE]
  /\ healthy        = TRUE
  /\ stop_requested = FALSE
  /\ no_read = {} /\ no_write = {} /\ reset = {}
  /\ produced = [d \in Directions |-> 0]
  /\ fin      = [d \in Directions |-> FALSE]
  /\ received = [d \in Directions |-> 0]
  /\ out      = [d \in Directions |-> <<>>]
  /\ consumed = [d \in Directions |-> 0]

-----------------------------------------------------------------------------
(* The two peers.  What a peer sends to a socket that no longer reads is   *)
(* discarded by the kernel and left out.                                   *)

Produce(d) ==
  /\ produced[d] < StreamLength[d] /\ produced[d] - received[d] < ReceiveQueue
  /\ ~fin[d] /\ Source(d) \notin reset \cup no_read
  /\ produced' = [produced EXCEPT ![d] = @ + 1]
  /\ UNCHANGED <<threadVars, stop_requested, shutVars, fin, consumed, reset, received, out>>

HalfClose(d) ==
  /\ ~fin[d] /\ Source(d) \notin reset
  /\ fin' = [fin EXCEPT ![d] = TRUE]
  /\ UNCHANGED <<threadVars, stop_requested, shutVars, produced, consumed, reset, received, out>>

Consume(d) ==
  /\ consumed[d] < Len(out[d]) /\ Destination(d) \notin reset
  /\ consumed' = [consumed EXCEPT ![d] = @ + 1]
  /\ UNCHANGED <<threadVars, stop_requested, shutVars, produced, fin, reset, received, out>>

Reset(s) ==
  /\ s \in Resettable \ reset
  /\ reset' = reset \cup {s}
  /\ UNCHANGED <<threadVars, stop_requested, shutVars, produced, fin, consumed, received, out>>

Peers == \/ \E d \in Directions : Produce(d) \/ HalfClose(d) \/ Consume(d)
         \/ \E s \in Sockets : Reset(s)

-----------------------------------------------------------------------------
(* shutdown_server, and the threads of this connection.                    *)

Joined == \A d \in Directions : pc[d] = "done"

StopRequested ==
  /\ ~stop_requested
  /\ stop_requested' = TRUE
  /\ UNCHANGED <<threadVars, shutVars, peerVars, received, out>>

\* weak_socket.lock() succeeds as long as the connection thread runs.
ShutClientForWriting ==
  /\ stop_requested /\ ~Joined /\ "client" \notin no_write
  /\ no_write' = no_write \cup {"client"}
  /\ UNCHANGED <<threadVars, stop_requested, no_read, peerVars, received, out>>
ShutClient ==
  /\ stop_requested /\ ~Joined /\ "client" \notin no_read \cap no_write
  /\ no_read' = no_read \cup {"client"} /\ no_write' = no_write \cup {"client"}
  /\ UNCHANGED <<threadVars, stop_requested, peerVars, received, out>>

Goto(d, p) == pc' = [pc EXCEPT ![d] = p]

\* Which socket's errors clear the backend's healthy flag.
BlamesAnyone(s)  == TRUE
BlamesBackend(s) == s = "backend"

RecvData(d) ==
  /\ pc[d] = "recv" /\ Source(d) \notin no_read
  /\ \E n \in 1 .. BufferSize :
       /\ n <= produced[d] - received[d]
       /\ buffer' = [buffer EXCEPT ![d] = [i \in 1 .. n |-> received[d] + i]]
       /\ received' = [received EXCEPT ![d] = @ + n]
  /\ total_sent' = [total_sent EXCEPT ![d] = 0]
  /\ Goto(d, "send")
  /\ UNCHANGED <<ended, healthy, stop_requested, shutVars, peerVars, out>>

\* recv() = 0: the peer's FIN behind its last byte, or the socket was shut down here.
\* The end is passed on, on both sides of the destination if the server stops;
\* shutdown() fails if the destination is gone.
RealEof(d) == fin[d] /\ received[d] = produced[d] /\ Source(d) \notin reset \cup no_read
ShutAlwaysForWriting(d) ==
  /\ no_write' = no_write \cup {Destination(d)}
  /\ UNCHANGED no_read
PassOnEnd(d) ==
  /\ no_write' = no_write \cup {Destination(d)}
  /\ no_read' = no_read \cup {s \in {Destination(d)} : stop_requested}
RecvEof(d) ==
  /\ pc[d] = "recv"
  /\ RealEof(d) \/ Source(d) \in no_read
  /\ \/ /\ PassOnEnd(d) /\ Goto(d, "done")
        /\ ended' = [ended EXCEPT ![d] = RealEof(d)]
     \/ /\ Destination(d) \in reset \cup no_write /\ Goto(d, "shut_source")
        /\ UNCHANGED <<ended, shutVars>>
  /\ UNCHANGED <<buffer, total_sent, healthy, stop_requested, peerVars, received, out>>

\* recv() = -1.  An error of the backend's socket clears the backend's flag.
RecvError(d) ==
  /\ pc[d] = "recv" /\ Source(d) \in reset
  /\ healthy' = (healthy /\ ~BlamesBackend(Source(d)))
  /\ Goto(d, "shut_source")
  /\ UNCHANGED <<buffer, total_sent, ended, stop_requested, shutVars, peerVars, received, out>>

\* send_all: one send() takes some of the rest.
Room(d) == SendQueue - (Len(out[d]) - consumed[d])
Unsent(d)                == Len(buffer[d]) - total_sent[d]
OneTooFar(d, n)          == total_sent[d] + n + 1
NextTotal(d, n)          == total_sent[d] + n
SentFromTheStart(d, n)   == SubSeq(buffer[d], 1, n)
Sent(d, n)               == SubSeq(buffer[d], total_sent[d] + 1, total_sent[d] + n)
SendsOnce(d, n)          == "recv"
AfterSend(d, n)          == IF n = Unsent(d) THEN "recv" ELSE "send"
SendData(d) ==
  /\ pc[d] = "send" /\ Destination(d) \notin reset \cup no_write
  /\ \E n \in 1 .. Unsent(d) :
       /\ n <= Room(d)
       /\ out' = [out EXCEPT ![d] = @ \o Sent(d, n)]
       /\ total_sent' = [total_sent EXCEPT ![d] = NextTotal(d, n)]
       /\ Goto(d, AfterSend(d, n))
  /\ UNCHANGED <<buffer, ended, healthy, stop_requested, shutVars, peerVars, received>>

\* send() = -1: the peer is gone, or the socket was shut down here (EPIPE).
SendError(d) ==
  /\ pc[d] = "send" /\ Destination(d) \in reset \cup no_write
  /\ healthy' = (healthy /\ ~BlamesBackend(Destination(d)))
  /\ Goto(d, "shut_source")
  /\ UNCHANGED <<buffer, total_sent, ended, stop_requested, shutVars, peerVars, received, out>>

\* The catch clause: shutdown(SHUT_RDWR) of the source, then of the destination.
ShutSource(d) ==
  /\ pc[d] = "shut_source"
  /\ no_read' = no_read \cup {Source(d)} /\ no_write' = no_write \cup {Source(d)}
  /\ Goto(d, "shut_destination")
  /\ UNCHANGED <<buffer, total_sent, ended, healthy, stop_requested, peerVars, received, out>>

ShutDestination(d) ==
  /\ pc[d] = "shut_destination"
  /\ no_read' = no_read \cup {Destination(d)} /\ no_write' = no_write \cup {Destination(d)}
  /\ Goto(d, "done")
  /\ UNCHANGED <<buffer, total_sent, ended, healthy, stop_requested, peerVars, received, out>>

forward_data(d) ==
  \/ RecvData(d) \/ RecvEof(d) \/ RecvError(d) \/ SendData(d) \/ SendError(d)
  \/ ShutSource(d) \/ ShutDestination(d)

\* client_to_backend.join(); backend_to_client.join(); the sockets are closed.
Terminated == Joined /\ UNCHANGED vars

Next == \/ Peers \/ StopRequested \/ ShutClient \/ (\E d \in Directions : forward_data(d))
        \/ Terminated

(***************************************************************************)
(* Fairness.  Threads run, and shutdown_server goes through all clients.   *)
(* Peers read what they are sent.  The backend is the echo server of       *)
(* src/backend_main.cpp, which closes its socket when it has read to the   *)
(* end; nothing is assumed of when a client stops sending.                 *)
(***************************************************************************)
BackendCloses == /\ "backend" \in no_write
                 /\ consumed["client_to_backend"] = Len(out["client_to_backend"])
                 /\ HalfClose("backend_to_client")

Fairness == /\ \A d \in Directions : WF_vars(forward_data(d)) /\ WF_vars(Consume(d))
            /\ WF_vars(ShutClient)
            /\ WF_vars(BackendCloses)

Spec     == Init /\ [][Next]_vars
FairSpec == Spec /\ Fairness

-----------------------------------------------------------------------------
(* Properties.                                                             *)

\* The variables have their types, and send_all stays inside its buffer.
TypeOK ==
  /\ pc \in [Directions -> {"recv", "send", "shut_source", "shut_destination", "done"}]
  /\ buffer \in [Directions -> Seq(Nat)]
  /\ total_sent \in [Directions -> Nat]
  /\ \A d \in Directions : total_sent[d] <= Len(buffer[d]) /\ Len(buffer[d]) <= BufferSize
  /\ ended \in [Directions -> BOOLEAN]
  /\ healthy \in BOOLEAN /\ stop_requested \in BOOLEAN
  /\ no_read \subseteq Sockets /\ no_write \subseteq Sockets /\ reset \subseteq Sockets
  /\ produced \in [Directions -> Nat] /\ received \in [Directions -> Nat]
  /\ fin \in [Directions -> BOOLEAN]
  /\ out \in [Directions -> Seq(Nat)] /\ consumed \in [Directions -> Nat]

\* A thread that has left without passing on a real end (an error, or a stop of the
\* server) leaves nothing that the other could wait for: the other's source is shut
\* down, or the other is leaving, too.  Only so can proxy_connection join them both.
Other(d) == CHOOSE x \in Directions : x # d
NobodyLeftBehind ==
  \A d \in Directions :
    pc[d] = "done" /\ ~ended[d] =>
      /\ Source(d) \in no_read /\ Destination(d) \in no_write
      /\ \/ Source(Other(d)) \in no_read
         \/ pc[Other(d)] \in {"shut_source", "shut_destination", "done"}

\* An orderly end never costs the backend its flag, and an error of the client's socket, or
\* a stop, does so in one way only.  If the backend's own socket did not break, the thread
\* from the backend has given the connection up without an end of stream: it has shut the
\* backend's socket down under the thread that sends to it, whose send() returned EPIPE.
BlameHasItsCause ==
  ~healthy /\ "backend" \notin reset =>
    /\ "client" \in reset \/ stop_requested
    /\ "backend" \in no_write
    /\ pc["backend_to_client"] \in {"shut_destination", "done"} /\ ~ended["backend_to_client"]

\* Every byte reaches the other peer unless a peer resets or the server stops.
BytesForwarded ==
  \A d \in Directions : \A k \in 1 .. StreamLength[d] :
    produced[d] >= k ~> (consumed[d] >= k \/ reset # {} \/ stop_requested)

\* When both peers are done, or the server stops, both threads end and are joined: for
\* the stop also if the client's thread was in the middle of a send, or had already
\* ended after a half-close of the client.
ThreadsEnd ==
  (stop_requested \/ \A d \in Directions : fin[d]) ~> (Joined \/ reset # {})

\* The abstract specification that the event-driven relay implements, too.  The server's
\* stop breaks a connection like a reset.
Abstract == INSTANCE StreamRelay WITH
  closed <- ended,
  broken <- reset # {} \/ stop_requested,
  over   <- Joined
ImplementsStreams == Abstract!Spec
=============================================================================

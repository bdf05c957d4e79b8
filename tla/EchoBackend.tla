---------------------------- MODULE EchoBackend ----------------------------
(***************************************************************************)
(* src/backend_main.cpp: one detached thread per connection, which sends   *)
(* back what it receives until the other side has finished.  A step is one *)
(* system call and what its thread does with the result.                   *)
(*                                                                         *)
(* Nothing sets SO_NOSIGPIPE, so a send() on a connection that the other   *)
(* side has left may end the whole process, as an exception of accept()    *)
(* does.                                                                   *)
(***************************************************************************)
EXTENDS Integers, Sequences

CONSTANTS Connections,  \* the connections that may be made
          BufferSize,   \* buffer_size, the most that one recv() asks for
          Capacity,     \* how many sent bytes fit between a thread and the other end
          AcceptErrors  \* whether accept() may fail: a Boolean; the others are positive

VARIABLES
  alive,       \* the process runs
  thread,      \* connection -> the next call of its thread
  buffer,      \* connection -> the bytes of the last recv()
  total_sent,  \* connection -> how many of them send_all has sent
  incoming,    \* connection -> bytes on their way to recv()
  outgoing     \* connection -> bytes that send() has accepted

processVars == <<alive, thread, buffer, total_sent>>
vars        == <<processVars, incoming, outgoing>>

Serving(c) == thread[c] \in {"recv", "send"}

\* How many bytes one call may move: any number that is wanted and possible.
Portion(wanted, possible) == {n \in 1 .. wanted : n <= possible}

Init ==
  /\ alive      = TRUE
  /\ thread     = [c \in Connections |-> "none"]
  /\ buffer     = [c \in Connections |-> <<>>]
  /\ total_sent = [c \in Connections |-> 0]
  /\ incoming   = [c \in Connections |-> <<>>]
  /\ outgoing   = [c \in Connections |-> <<>>]

Goto(c, call) == thread' = [thread EXCEPT ![c] = call]

Accept(c) ==
  /\ thread[c] = "none"
  /\ Goto(c, "recv")
  /\ UNCHANGED <<alive, buffer, total_sent, incoming, outgoing>>

\* The process ends, with every thread.
Dies ==
  /\ alive' = FALSE
  /\ thread' = [c \in Connections |-> IF Serving(c) THEN "over" ELSE thread[c]]
  /\ UNCHANGED <<buffer, total_sent, incoming, outgoing>>

AcceptThrows == AcceptErrors /\ Dies

\* recv() takes some of what is there, up to the size of the buffer.
Recv(c) ==
  /\ thread[c] = "recv"
  /\ \E n \in Portion(BufferSize, Len(incoming[c])) :
       /\ incoming' = [incoming EXCEPT ![c] = SubSeq(@, n + 1, Len(@))]
       /\ buffer' = [buffer EXCEPT ![c] = SubSeq(incoming[c], 1, n)]
  /\ total_sent' = [total_sent EXCEPT ![c] = 0]
  /\ Goto(c, "send")
  /\ UNCHANGED <<alive, outgoing>>

\* The thread ends, and its socket is closed: recv() has returned 0, or a call failed.
IgnoresEof(c) == FALSE
EndsByEof(c)  == thread[c] = "recv" /\ incoming[c] = <<>>
Leave(c) ==
  /\ Serving(c)
  /\ Goto(c, "over")
  /\ UNCHANGED <<alive, buffer, total_sent, incoming, outgoing>>

\* send_all: send() blocks while there is no room, and puts in some of what fits; after the
\* last byte the thread reads again.
Unsent(c)       == Len(buffer[c]) - total_sent[c]
SendsOnce(c, n) == "recv"
AfterSend(c, n) == IF n = Unsent(c) THEN "recv" ELSE "send"
Send(c) ==
  /\ thread[c] = "send"
  /\ \E n \in Portion(Unsent(c), Capacity - Len(outgoing[c])) :
       /\ outgoing' = [outgoing EXCEPT
            ![c] = @ \o SubSeq(buffer[c], total_sent[c] + 1, total_sent[c] + n)]
       /\ total_sent' = [total_sent EXCEPT ![c] = @ + n]
       /\ Goto(c, AfterSend(c, n))
  /\ UNCHANGED <<alive, buffer, incoming>>

\* send() on a connection that the other side has left: an error, or SIGPIPE.
SendFails(c) == thread[c] = "send" /\ (Leave(c) \/ Dies)
=============================================================================

---------------------------- MODULE RequestPath ----------------------------
(***************************************************************************)
(* What a request of the load generator is made of: send_all, recv_exact   *)
(* and the comparison of src/load_generator.cpp, the threads of            *)
(* src/backend_main.cpp that echo it, and a proxy in between.              *)
(*                                                                         *)
(* The proxy is what StreamRelay promises, seen from outside: it and the   *)
(* kernel's queues hold so many bytes each way, in order, and it may end   *)
(* a connection at any time.  Byte number k of a worker's stream is the    *)
(* number k; every request is the same message of MessageLength bytes.     *)
(***************************************************************************)
EXTENDS LoadGenerator

CONSTANTS MessageLength,  \* message.size()
          BufferSize,     \* buffer_size of the backend
          UpCapacity,     \* bytes that are held on the way to the backend
          DownCapacity,   \* bytes that are held on the way back
          AcceptErrors    \* whether the backend's accept() may fail

\* A worker sends a whole message before it reads: what does not fit into both
\* directions and one byte of the backend's buffer would block everyone.
ASSUME RequestPathAssumption ==
  /\ MessageLength \in Nat \ {0} /\ BufferSize \in Nat \ {0}
  /\ UpCapacity \in Nat \ {0} /\ DownCapacity \in Nat \ {0}
  /\ MessageLength <= UpCapacity + DownCapacity + 1
  /\ AcceptErrors \in BOOLEAN

VARIABLES
  sent,        \* worker -> bytes that send() has accepted so far
  response,    \* worker -> what recv_exact has received
  up, down,    \* worker -> bytes on the way to the backend, and back
  cut,         \* the workers whose connection the proxy has ended
  alive, thread, buffer, total_sent    \* the backend

Backend == INSTANCE EchoBackend
             WITH Connections <- Workers, Capacity <- DownCapacity, incoming <- up, outgoing <- down

backendVars == <<alive, thread, buffer, total_sent>>
pathVars    == <<sent, response, up, down, cut, backendVars>>
allVars     == <<vars, pathVars>>

PathInit ==
  /\ Init /\ Backend!Init
  /\ sent     = [w \in Workers |-> 0]
  /\ response = [w \in Workers |-> <<>>]
  /\ cut      = {}

\* Bytes of the stream before the current request, and up to its end.
Base(w)   == (warm[w] + completed[w]) * MessageLength
Target(w) == Base(w) + MessageLength

-----------------------------------------------------------------------------
(* perform_request.                                                        *)

\* send_all: send() blocks while there is no room, and puts in some of what fits.
SendSome(w) ==
  /\ InRequest(w) /\ w \notin cut
  /\ \E n \in Backend!Portion(Target(w) - sent[w], UpCapacity - Len(up[w])) :
       /\ up' = [up EXCEPT ![w] = @ \o [i \in 1 .. n |-> sent[w] + i]]
       /\ sent' = [sent EXCEPT ![w] = @ + n]
  /\ UNCHANGED <<vars, response, down, cut, backendVars>>

\* One turn of recv_exact: it asks for the rest of the response, and gets some of it.
SomeResponse(w)     == response[w] # <<>>
ResponseComplete(w) == Len(response[w]) = MessageLength
RecvSome(w) ==
  /\ InRequest(w) /\ sent[w] = Target(w) /\ ~ResponseComplete(w)
  /\ \E n \in Backend!Portion(MessageLength - Len(response[w]), Len(down[w])) :
       /\ response' = [response EXCEPT ![w] = @ \o SubSeq(down[w], 1, n)]
       /\ down' = [down EXCEPT ![w] = SubSeq(@, n + 1, Len(@))]
  /\ UNCHANGED <<vars, sent, up, cut, backendVars>>

\* std::equal sees the text of the message, which is the same in every request.
TextAt(k)          == (k - 1) % MessageLength
ResponseMatches(w) == \A i \in DOMAIN response[w] : TextAt(response[w][i]) = i - 1

Answered(w) ==
  /\ InRequest(w) /\ sent[w] = Target(w) /\ ResponseComplete(w) /\ ResponseMatches(w)
  /\ WarmUp(w) \/ Complete(w)
  /\ response' = [response EXCEPT ![w] = <<>>]
  /\ UNCHANGED <<sent, up, down, cut, backendVars>>

\* A call throws: send() after the proxy has ended the connection; recv() then, or when
\* the backend has closed its side and everything was read; or the response is wrong.
Ended(w)       == w \in cut \/ thread[w] = "over"
SendThrows(w)  == sent[w] < Target(w) /\ w \in cut
RecvLoops(w)   == FALSE
RecvThrows(w)  == sent[w] = Target(w) /\ ~ResponseComplete(w) /\ down[w] = <<>> /\ Ended(w)
EqualThrows(w) == sent[w] = Target(w) /\ ResponseComplete(w) /\ ~ResponseMatches(w)
RequestFails(w) ==
  /\ InRequest(w) /\ (SendThrows(w) \/ RecvThrows(w) \/ EqualThrows(w))
  /\ FailSetup(w) \/ FailRequest(w)
  /\ UNCHANGED pathVars

RaisesSigpipe(w) ==
  /\ InRequest(w) /\ SendThrows(w)
  /\ Killed(w)
  /\ UNCHANGED pathVars

\* The rest of run_worker.  connect_to_proxy may fail.
BetweenRequests(w) ==
  /\ \/ Connect(w) \/ Arrive(w) \/ Released(w) \/ Finish(w)
     \/ state[w] = "connecting" /\ FailSetup(w)
  /\ UNCHANGED pathVars

PathWorker(w) == \/ SendSome(w) \/ RecvSome(w) \/ Answered(w) \/ RequestFails(w)
                 \/ RaisesSigpipe(w) \/ BetweenRequests(w)

PathMain == Main /\ UNCHANGED pathVars

-----------------------------------------------------------------------------
(* The proxy and the backend.                                              *)

\* The worker's socket is closed: by run_worker, or with the process.
Closed(w) == state[w] = "finished" \/ ~Running

\* Both sides learn of it, and what was on the way is lost.
ProxyEnds(w) ==
  /\ state[w] # "connecting" /\ w \notin cut
  /\ cut' = cut \cup {w}
  /\ up' = [up EXCEPT ![w] = <<>>] /\ down' = [down EXCEPT ![w] = <<>>]
  /\ UNCHANGED <<vars, sent, response, backendVars>>

\* One side is gone, and the proxy has met an error on it, or its end of file.
OneSideGone(w) == ~alive \/ thread[w] = "over" \/ (Closed(w) /\ down[w] # <<>>)

BackendStep(w) ==
  /\ alive
  /\ \/ state[w] # "connecting" /\ w \notin cut /\ Backend!Accept(w)
     \/ Backend!Recv(w)
     \/ w \notin cut /\ Backend!Send(w)
     \/ w \in cut /\ Backend!SendFails(w)
     \/ w \in cut /\ thread[w] = "recv" /\ Backend!Leave(w)
     \/ Closed(w) /\ Backend!EndsByEof(w) /\ Backend!Leave(w)
  /\ UNCHANGED <<vars, sent, response, cut>>

BackendThrows == alive /\ Backend!AcceptThrows /\ UNCHANGED <<vars, sent, response, cut>>

-----------------------------------------------------------------------------

PathDone == main \in {"reported", "killed"} /\ UNCHANGED allVars

PathNext == \/ Running /\ \E w \in Workers : PathWorker(w)
            \/ Running /\ PathMain
            \/ \E w \in Workers : ProxyEnds(w) \/ BackendStep(w)
            \/ BackendThrows
            \/ PathDone

\* Threads run, and a proxy that finds one side gone ends the connection in the end.
PathSpec == /\ PathInit /\ [][PathNext]_allVars
            /\ WF_allVars(Running /\ PathMain)
            /\ \A w \in Workers : /\ WF_allVars(Running /\ PathWorker(w))
                                  /\ WF_allVars(BackendStep(w))
                                  /\ WF_allVars(OneSideGone(w) /\ ProxyEnds(w))

-----------------------------------------------------------------------------
(* Properties.                                                             *)

\* While a worker is in a request on a connection that stands, what it has received,
\* what is on the way in either direction and what the backend still has to send are,
\* in this order, exactly what it has sent of this request: no byte of an earlier
\* request is left over, none is lost or sent twice.
InFlight(w) ==
  response[w] \o down[w] \o SubSeq(buffer[w], total_sent[w] + 1, Len(buffer[w])) \o up[w]
ResponsesInStep ==
  \A w \in Workers :
    InRequest(w) /\ ~Ended(w) =>
      InFlight(w) = [i \in 1 .. sent[w] - Base(w) |-> Base(w) + i]

\* The worker and the backend's thread are never both blocked: not both in a send() that
\* has no room, and not one in recv() while the bytes it waits for are nowhere.
WorkerCanGo(w)  == IF sent[w] < Target(w) THEN Len(up[w]) < UpCapacity
                   ELSE ResponseComplete(w) \/ down[w] # <<>>
BackendCanGo(w) == IF thread[w] = "send" THEN Len(down[w]) < DownCapacity ELSE up[w] # <<>>
NobodyStuck ==
  \A w \in Workers :
    InRequest(w) /\ ~Ended(w) /\ Backend!Serving(w) => WorkerCanGo(w) \/ BackendCanGo(w)

\* A request does end, in one of the ways that LoadGenerator has for it: the load
\* generator with all its bytes implements the one with atomic requests, whose fairness
\* takes that for granted.
ImplementsLoadGenerator == FairSpec

\* A thread of the backend does not outlive its connection.
BackendThreadsEnd ==
  \A w \in Workers : (Closed(w) /\ Backend!Serving(w)) ~> ~Backend!Serving(w)
=============================================================================

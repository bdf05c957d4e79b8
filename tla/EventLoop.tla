----------------------------- MODULE EventLoop -----------------------------
(***************************************************************************)
(* run_kqueue_server of src/kqueue_server.cpp: accepting clients, trying   *)
(* the backend candidates of each one after the other, dispatching a batch *)
(* of notifications by file descriptor, retiring connections, connect and  *)
(* drain deadlines, and the shutdown signal.                               *)
(*                                                                         *)
(* The loop is one thread: pc says where it is, and each step runs up to   *)
(* the next point where the outside can matter (a check of the signal      *)
(* flag, a system call).  File descriptors are numbers that the kernel     *)
(* gives out again, lowest first; the socket behind one is told by the     *)
(* connection and the connect attempt it belongs to, so that a             *)
(* notification which reaches the wrong socket is seen.                    *)
(*                                                                         *)
(* Data transfer is module Relay's: here an event of an established        *)
(* connection may or may not end it, and any of its filters may fire.      *)
(* Clocks are abstracted to "the deadline has passed".                     *)
(***************************************************************************)
EXTENDS Backends, SocketOwnership, FiniteSets

CONSTANTS MaxClients,   \* how many clients will connect
          MaxFd,        \* descriptors 1 .. MaxFd exist for the sockets
          MaxEvents,    \* max_events: accepts per listener notification
          SetupErrors   \* whether local calls (socket, accept, kevent, ...) may fail

\* Every client, every attempt and the listener fit: running out of descriptors is
\* left out.
ASSUME EventLoopAssumption ==
  /\ MaxClients \in Nat /\ MaxEvents \in Nat \ {0}
  /\ MaxFd \in Nat /\ MaxFd >= 1 + MaxClients * (1 + NumBackends)
  /\ SetupErrors \in BOOLEAN

Client  == 1 .. MaxClients
Fd      == 1 .. MaxFd
Sockets == Client \X (0 .. NumBackends)   \* <<c, 0>>: c's own; <<c, k>>: k-th attempt
Closed   == <<0, 1>>
Listener == <<0, 0>>

VARIABLES
  at,                 \* where the loop is: a Position
  conn,               \* client -> its Connection
  connections,        \* the clients whose Connection the map connections holds
  fd_to_connection,   \* descriptor -> client
  retired,            \* descriptors that retired_connections and
                      \* retired_backend_sockets keep open up to the end of the batch
  listening_fd,       \* listening_socket.get(), or NoFd after reset()
  draining,
  events,             \* notifications of this batch not yet looked at
  healthy,            \* backends whose healthy flag is set
  next_backend_index,
  socket,             \* kernel: descriptor -> the socket it denotes
  watched,            \* kernel: descriptors with the EVFILT_WRITE of a connect
  arrived,            \* how many clients have connected to the listener so far
  accepted,           \* how many of them accept() has returned
  signalled,          \* shutdown_signal_received
  signal_pending,     \* kernel: EVFILT_SIGNAL has not been reported yet
  drain_over          \* drain_deadline has passed

connVars   == <<conn, connections, fd_to_connection, retired>>
healthVars == <<healthy, next_backend_index>>
worldVars  == <<arrived, accepted, signalled, signal_pending, drain_over>>
vars == <<at, connVars, listening_fd, draining, events, healthVars, socket, watched, worldVars>>

\* try_next_backend works on client cur and returns to back; accepts counts the
\* iterations of the accept loop; expired are the clients still to be expired.
Position ==
  [pc : {"start", "register", "top", "wait", "dispatch", "accept", "setup", "insert", "try", "expire", "stopped"},
   cur : {0} \cup Client, back : {"top", "dispatch", "accept", "expire"},
   accepts : 0 .. MaxEvents, expired : SUBSET Client]

\* connect is the kernel's outcome of the connect in progress, late whether
\* connect_deadline has passed.
ConnectionRecord ==
  [client_fd : {NoFd} \cup Fd, backend_fd : {NoFd} \cup Fd,
   state : {"none", "connecting", "established"},
   candidates : Seq(Backend), next_candidate : 0 .. NumBackends,
   connect : {"none", "pending", "ok", "error"}, late : BOOLEAN]

NoConnection == [client_fd |-> NoFd, backend_fd |-> NoFd, state |-> "none", candidates |-> <<>>,
                 next_candidate |-> 0, connect |-> "none", late |-> FALSE]

AnyState   == connections
Connecting == {c \in connections : conn[c].state = "connecting"}
Late       == {c \in Connecting : conn[c].late}
SocketsOf(c) == {conn[c].client_fd, conn[c].backend_fd} \ {NoFd}

\* unordered_map: emplace keeps an entry that is there.
Emplace(map, k, v) == [x \in (DOMAIN map) \cup {k} |-> IF x \in DOMAIN map THEN map[x] ELSE v]
EraseNone(map, ks) == map
Erase(map, ks)     == [x \in (DOMAIN map) \ ks |-> map[x]]

\* socket() and accept() return the lowest free descriptor.
NewFd      == CHOOSE f \in Fd : socket[f] = Closed /\ \A g \in 1 .. f - 1 : socket[g] # Closed
Close(fds) == [f \in Fd |-> IF f \in fds THEN Closed ELSE socket[f]]

Init ==
  /\ at = [pc |-> "start", cur |-> 0, back |-> "top", accepts |-> 0, expired |-> {}]
  /\ conn = [c \in Client |-> NoConnection]
  /\ connections = {} /\ fd_to_connection = <<>> /\ retired = {}
  /\ listening_fd = NoFd /\ draining = FALSE /\ events = {}
  /\ healthy = Backend /\ next_backend_index = 0
  /\ socket = [f \in Fd |-> Closed]
  /\ watched = {}
  /\ arrived = 0 /\ accepted = 0
  /\ signalled = FALSE /\ signal_pending = FALSE /\ drain_over = FALSE

-----------------------------------------------------------------------------
(* The outside: clients, backends, time and the shutdown signal.           *)

Arrive ==
  /\ arrived < MaxClients /\ listening_fd # NoFd
  /\ arrived' = arrived + 1
  /\ UNCHANGED <<at, connVars, listening_fd, draining, events, healthVars, socket, watched,
                 accepted, signalled, signal_pending, drain_over>>

\* Only where the loop can notice it next: elsewhere it may as well come later.
ConnectEnds(c) ==
  /\ at.pc \in {"wait", "dispatch"} /\ conn[c].connect = "pending"
  /\ \E r \in {"ok", "error"} : conn' = [conn EXCEPT ![c].connect = r]
  /\ UNCHANGED <<at, connections, fd_to_connection, retired, listening_fd, draining, events,
                 healthVars, socket, watched, worldVars>>

DeadlinePasses(c) ==
  /\ c \in Connecting \ Late /\ conn[c].backend_fd # NoFd
  /\ conn' = [conn EXCEPT ![c].late = TRUE]
  /\ UNCHANGED <<at, connections, fd_to_connection, retired, listening_fd, draining, events,
                 healthVars, socket, watched, worldVars>>

DrainDeadlinePasses ==
  /\ draining /\ ~drain_over
  /\ drain_over' = TRUE
  /\ UNCHANGED <<at, connVars, listening_fd, draining, events, healthVars, socket, watched,
                 arrived, accepted, signalled, signal_pending>>

\* The handler sets the flag, and kqueue notes the signal for EVFILT_SIGNAL once that is
\* registered; a thread that sleeps in kevent() may also get EINTR.
Signal ==
  /\ ~signalled
  /\ signalled' = TRUE
  /\ signal_pending' = (at.pc \notin {"start", "register", "stopped"})
  /\ at' \in {at} \cup {[at EXCEPT !.pc = p] : p \in {q \in {"top"} : at.pc = "wait"}}
  /\ UNCHANGED <<connVars, listening_fd, draining, events, healthVars, socket, watched,
                 arrived, accepted, drain_over>>

Outside ==
  \/ Arrive \/ DrainDeadlinePasses \/ Signal
  \/ \E c \in Client : ConnectEnds(c) \/ DeadlinePasses(c)

-----------------------------------------------------------------------------
(* Pieces of the loop.                                                     *)

Goto(p) == at' = [at EXCEPT !.pc = p]

\* observe_shutdown(): begin_draining() once the flag is set.  The accept loop goes on
\* only while it has not been.
observe_shutdown == draining \/ signalled
Observe          == draining' = observe_shutdown
AlwaysAdmits     == TRUE
AdmitsClient     == ~observe_shutdown

\* drain_expired(), after observe_shutdown(): a deadline that is set now is not over.
drain_expired == draining /\ drain_over

\* listening_socket.reset() if draining.
ResetListener ==
  IF observe_shutdown /\ valid(listening_fd)
  THEN listening_fd' = NoFd /\ socket' = Close(ClosedByReset(listening_fd, NoFd))
  ELSE UNCHANGED <<listening_fd, socket>>

\* The EVFILT_WRITE of a connect in progress; removing an absent filter is no error.
register_write_event(f) == watched' = watched \cup {f}
remove_write_event(f)   == watched' = watched \ {f}

\* The socket that accept() has returned, before a Connection owns it.
ClientSocket == {f \in Fd : at.pc = "setup" /\ socket[f] = <<at.cur, 0>>}

\* run_kqueue_server is left, at its end or by an exception: what its local objects own
\* is closed, and nothing else.
Owned == (UNION {SocketsOf(c) : c \in Client}) \cup retired \cup {listening_fd} \cup ClientSocket
Leave ==
  /\ at' = [at EXCEPT !.pc = "stopped", !.cur = 0, !.back = "top", !.accepts = 0, !.expired = {}]
  /\ conn' = [c \in Client |-> NoConnection]
  /\ connections' = {} /\ fd_to_connection' = <<>> /\ retired' = {}
  /\ listening_fd' = NoFd /\ events' = {} /\ watched' = {}
  /\ socket' = Close(UNION {ClosedByDestructor(f) : f \in Owned})

\* retire_connection: both descriptors leave the maps, the sockets stay open.
RetireKeepingBackend(c) ==
  /\ fd_to_connection' = Erase(fd_to_connection, {conn[c].client_fd})
  /\ connections' = connections \ {c}
  /\ retired' = retired \cup SocketsOf(c)
  /\ conn' = [conn EXCEPT ![c] = NoConnection]
RetireDroppingClient(c) ==
  /\ fd_to_connection' = Erase(fd_to_connection, SocketsOf(c))
  /\ connections' = connections \ {c}
  /\ retired' = retired \cup ({conn[c].backend_fd} \ {NoFd})
  /\ conn' = [conn EXCEPT ![c] = NoConnection]
retire_connection(c) ==
  /\ fd_to_connection' = Erase(fd_to_connection, SocketsOf(c))
  /\ connections' = connections \ {c}
  /\ retired' = retired \cup SocketsOf(c)
  /\ conn' = [conn EXCEPT ![c] = NoConnection]

-----------------------------------------------------------------------------
(* The start, and the loop from its top to a batch.                        *)

\* create_listening_socket, set_nonblocking, kqueue().
Listen ==
  /\ at.pc = "start"
  /\ listening_fd' = NewFd
  /\ socket' = [socket EXCEPT ![NewFd] = Listener]
  /\ Goto("register")
  /\ UNCHANGED <<connVars, draining, events, healthVars, watched, worldVars>>

\* register_read_event for the listener, register_signal_event for both signals.
Register ==
  /\ at.pc = "register"
  /\ Goto("top")
  /\ UNCHANGED <<connVars, listening_fd, draining, events, healthVars, socket, watched, worldVars>>

Top ==
  /\ at.pc = "top"
  /\ Observe
  /\ IF observe_shutdown /\ (connections = {} \/ drain_expired)
     THEN Leave
     ELSE ResetListener /\ Goto("wait") /\ UNCHANGED <<connVars, events, watched>>
  /\ UNCHANGED <<healthVars, worldVars>>

\* Every notification carries, for the properties, the socket it is about.
Notify(kind, fds) == {[kind |-> kind, fd |-> f, about |-> socket[f]] : f \in fds}

\* Due are the notifications the kernel owes: connects that ended, clients that wait,
\* the signal.  The sockets of an established connection may be ready or quiet.
Due ==
  LET ended == {f \in watched : conn[socket[f][1]].connect # "pending"}
      listener == {f \in {listening_fd} : valid(f) /\ ~draining /\ accepted < arrived}
      signal == {f \in {NoFd} : signal_pending}
  IN Notify("write", ended) \cup Notify("read", listener)
     \cup {[kind |-> "signal", fd |-> f, about |-> Closed] : f \in signal}

Ready ==
  LET relay == {f \in DOMAIN fd_to_connection :
                  conn[fd_to_connection[f]].state = "established"}
  IN Due \cup Notify("write", relay) \cup Notify("read", relay)

\* The timeout given to kevent() has run out: the earliest of all deadlines.
OnlyConnectDeadlines == Late # {}
OnlyDrainDeadline    == drain_expired
TimeoutDue           == drain_expired \/ Late # {}

\* kevent() returns some of the ready notifications, or none at the timeout.
KeventWait ==
  /\ at.pc = "wait"
  /\ \E batch \in SUBSET Ready :
       /\ batch # {} \/ TimeoutDue
       /\ events' = batch
       /\ signal_pending' = (signal_pending /\ \A e \in batch : e.kind # "signal")
  /\ Goto("dispatch")
  /\ UNCHANGED <<connVars, listening_fd, draining, healthVars, socket, watched,
                 arrived, accepted, signalled, drain_over>>

-----------------------------------------------------------------------------
(* One notification.                                                       *)

Skip == UNCHANGED <<at, connVars, healthy, watched>>

HandleSignal(e) ==
  /\ e.kind = "signal"
  /\ draining' = TRUE
  /\ Skip

HandleListener(e) ==
  /\ e.kind # "signal" /\ e.fd = listening_fd
  /\ Observe
  /\ IF observe_shutdown
     THEN Skip
     ELSE /\ at' = [at EXCEPT !.pc = "accept", !.accepts = 0]
          /\ UNCHANGED <<connVars, healthy, watched>>

\* An established connection: the relay goes on or ends (module Relay).
HandleRelay(c) ==
  /\ conn[c].state = "established"
  /\ \/ Skip
     \/ retire_connection(c) /\ UNCHANGED <<at, healthy, watched>>

\* connection.backend.
CurrentBackend(c) == conn[c].candidates[conn[c].next_candidate]

\* retry_backend returns false, and the caller retires the connection.
Abandon(c, to) ==
  /\ retire_connection(c)
  /\ at' = [at EXCEPT !.pc = to, !.expired = @ \ {c}]
  /\ UNCHANGED <<healthy, watched>>

\* retry_backend: the failed socket is put aside, and the next candidate is tried.  It
\* returns to the place named to; the loop over the expired clients goes on after c.
retry_backend(c, to) ==
  \/ /\ SetupErrors \/ drain_expired \/ conn[c].state # "connecting"
     /\ Abandon(c, to)
  \/ LET f == conn[c].backend_fd IN
     /\ ~drain_expired /\ conn[c].state = "connecting"
     /\ remove_write_event(f)
     /\ fd_to_connection' = Erase(fd_to_connection, {f})
     /\ retired' = retired \cup {f}
     /\ conn' = [conn EXCEPT ![c].backend_fd = MovedFrom(@), ![c].connect = "none",
                             ![c].late = FALSE]
     /\ healthy' = set_backend_health(healthy, CurrentBackend(c), FALSE)
     /\ at' = [at EXCEPT !.pc = "try", !.cur = c, !.back = to, !.expired = @ \ {c}]
     /\ UNCHANGED connections

\* The connect has succeeded: establish_connection, or a call fails and the connection
\* is retired.
HandleConnected(c) ==
  /\ remove_write_event(conn[c].backend_fd)
  /\ UNCHANGED at
  /\ \/ /\ conn' = [conn EXCEPT ![c].state = "established", ![c].connect = "none"]
        /\ healthy' = set_backend_health(healthy, CurrentBackend(c), TRUE)
        /\ UNCHANGED <<connections, fd_to_connection, retired>>
     \/ SetupErrors /\ retire_connection(c) /\ UNCHANGED healthy

\* get_socket_error() or the notification says why the connect failed.
effective_error(c) == conn[c].connect = "error"

\* A connecting connection: not its event, too late or failed, or connected.
HandleConnecting(e, c) ==
  /\ conn[c].state = "connecting"
  /\ IF e.fd # conn[c].backend_fd \/ e.kind # "write"
     THEN Skip
     ELSE IF conn[c].late \/ effective_error(c)
          THEN retry_backend(c, "dispatch")
          ELSE HandleConnected(c)

HandleSocket(e) ==
  /\ e.kind # "signal" /\ e.fd # listening_fd
  /\ Observe
  /\ IF e.fd \notin DOMAIN fd_to_connection
     THEN Skip
     ELSE LET c == fd_to_connection[e.fd] IN HandleRelay(c) \/ HandleConnecting(e, c)

HandleEvent ==
  /\ at.pc = "dispatch" /\ ~drain_expired
  /\ \E e \in events :
       /\ events' = events \ {e}
       /\ HandleSignal(e) \/ HandleListener(e) \/ HandleSocket(e)
  /\ UNCHANGED <<listening_fd, next_backend_index, socket, worldVars>>

-----------------------------------------------------------------------------
(* The accept loop.                                                        *)

StopAccepting == at' = [at EXCEPT !.pc = "dispatch", !.cur = 0, !.accepts = 0]

AcceptClient ==
  /\ at.pc = "accept" /\ at.accepts < MaxEvents /\ AdmitsClient /\ accepted < arrived
  /\ Observe
  /\ accepted' = accepted + 1
  /\ socket' = [socket EXCEPT ![NewFd] = <<accepted + 1, 0>>]
  /\ at' = [at EXCEPT !.pc = "setup", !.cur = accepted + 1, !.accepts = @ + 1]
  /\ UNCHANGED <<connVars, listening_fd, events, healthVars, watched, arrived, signalled,
                 signal_pending, drain_over>>

\* max_events were taken, the server drains, or accept() has no more.
AcceptEnds ==
  /\ at.pc = "accept"
  /\ \/ at.accepts = MaxEvents /\ UNCHANGED draining
     \/ at.accepts < MaxEvents /\ (~AdmitsClient \/ accepted = arrived) /\ Observe
  /\ StopAccepting
  /\ UNCHANGED <<connVars, listening_fd, events, healthVars, socket, watched, worldVars>>

\* The accepted client is dropped before it reaches the maps: the server drains, or
\* its setup throws, which ends this client only.
DropClient ==
  /\ \/ at.pc \in {"setup", "insert"} /\ ~AdmitsClient /\ StopAccepting
     \/ at.pc = "setup" /\ AdmitsClient /\ SetupErrors /\ at' = [at EXCEPT !.pc = "accept", !.cur = 0]
  /\ Observe
  /\ socket' = Close(UNION {ClosedByDestructor(f) : f \in ClientSocket \cup SocketsOf(at.cur)})
  /\ conn' = [conn EXCEPT ![at.cur] = NoConnection]
  /\ UNCHANGED <<connections, fd_to_connection, retired, listening_fd, events, healthVars,
                 watched, worldVars>>

SetupClient ==
  /\ at.pc = "setup" /\ AdmitsClient
  /\ Observe
  /\ conn' = [conn EXCEPT ![at.cur] =
       [NoConnection EXCEPT
          !.client_fd  = CHOOSE f \in ClientSocket : TRUE,
          !.state      = "connecting",
          !.candidates = backend_candidates(next_backend_index, healthy)]]
  /\ next_backend_index' = NextIndex(next_backend_index)
  /\ Goto("insert")
  /\ UNCHANGED <<connections, fd_to_connection, retired, listening_fd, events, healthy, socket,
                 watched, worldVars>>

InsertClient ==
  /\ at.pc = "insert" /\ AdmitsClient
  /\ Observe
  /\ connections' = connections \cup {at.cur}
  /\ fd_to_connection' = Emplace(fd_to_connection, conn[at.cur].client_fd, at.cur)
  /\ at' = [at EXCEPT !.pc = "try", !.back = "accept"]
  /\ UNCHANGED <<conn, retired, listening_fd, events, healthVars, socket, watched, worldVars>>

-----------------------------------------------------------------------------
(* try_next_backend.                                                       *)

NextCandidate(c) == conn[c].candidates[conn[c].next_candidate + 1]
Taken(c)         == [conn EXCEPT ![c].next_candidate = @ + 1]
Return           == at' = [at EXCEPT !.pc = at.back, !.cur = 0]

\* The result is false, and the caller retires the connection.
GiveUp(c) == retire_connection(c) /\ Return /\ UNCHANGED <<healthy, socket, watched>>

\* The outcomes of start_backend_connect: connect() fails at once; a local failure is
\* thrown instead, since it says nothing of the backend.
start_backend_connect ==
  {"connected", "in_progress", "refused"} \cup {r \in {"throws"} : SetupErrors}

\* report_connect_failure, and the loop goes on.
Refused(c) ==
  /\ conn' = Taken(c)
  /\ healthy' = set_backend_health(healthy, NextCandidate(c), FALSE)
  /\ UNCHANGED <<at, connections, fd_to_connection, retired, socket, watched>>

\* backend_socket = std::move(result.socket): the connection owns the new descriptor.
BackendSocketMoved(c) ==
  [Close(ClosedByAssignment(conn[c].backend_fd)) EXCEPT
     ![NewFd] = <<c, conn[c].next_candidate + 1>>]

Started(c, connection) ==
  /\ socket' = BackendSocketMoved(c)
  /\ conn' = [conn EXCEPT ![c] = [connection EXCEPT !.backend_fd = NewFd]]
  /\ fd_to_connection' = Emplace(fd_to_connection, NewFd, c)
  /\ Return
  /\ UNCHANGED <<connections, retired>>

\* establish_connection.
Connected(c) ==
  /\ Started(c, [Taken(c)[c] EXCEPT !.state = "established"])
  /\ healthy' = set_backend_health(healthy, NextCandidate(c), TRUE)
  /\ UNCHANGED watched

Unwatched(c) ==
  /\ Started(c, [Taken(c)[c] EXCEPT !.connect = "pending"])
  /\ UNCHANGED <<watched, healthy>>
InProgress(c) ==
  /\ Started(c, [Taken(c)[c] EXCEPT !.connect = "pending"])
  /\ register_write_event(NewFd)
  /\ UNCHANGED healthy

\* The socket is stored, but kevent() refuses its filter: both sockets are retired.
NoFilter(c) ==
  /\ socket' = BackendSocketMoved(c)
  /\ fd_to_connection' = Erase(fd_to_connection, {conn[c].client_fd})
  /\ connections' = connections \ {c}
  /\ retired' = retired \cup {conn[c].client_fd, NewFd}
  /\ conn' = [conn EXCEPT ![c] = NoConnection]
  /\ Return
  /\ UNCHANGED <<watched, healthy>>

\* One candidate.
TryCandidate(c, result) ==
  \/ result = "refused"     /\ Refused(c)
  \/ result = "connected"   /\ Connected(c)
  \/ result = "in_progress" /\ InProgress(c)
  \/ result = "throws"      /\ GiveUp(c)
  \/ result \in {"connected", "in_progress"} /\ SetupErrors /\ NoFilter(c)

TryNextBackend ==
  LET c == at.cur IN
  /\ at.pc = "try"
  /\ \/ /\ conn[c].next_candidate = Len(conn[c].candidates)
        /\ GiveUp(c) /\ UNCHANGED draining
     \/ /\ conn[c].next_candidate < Len(conn[c].candidates)
        /\ Observe
        /\ IF drain_expired
           THEN GiveUp(c)
           ELSE \E result \in start_backend_connect : TryCandidate(c, result)
  /\ UNCHANGED <<listening_fd, events, next_backend_index, worldVars>>

-----------------------------------------------------------------------------
(* The end of a batch.                                                     *)

\* No notification is left, or the drain deadline ended the batch early.
EndBatch ==
  /\ at.pc = "dispatch" /\ (events = {} \/ drain_expired)
  /\ Observe
  /\ ResetListener
  /\ events' = {}
  /\ at' = [at EXCEPT !.pc = "expire", !.expired = Late]
  /\ UNCHANGED <<connVars, healthVars, watched, worldVars>>

Expire ==
  /\ at.pc = "expire" /\ ~drain_expired
  /\ Observe
  /\ \E c \in at.expired : retry_backend(c, "expire")
  /\ UNCHANGED <<listening_fd, events, next_backend_index, socket, worldVars>>

\* retired_connections.clear() and retired_backend_sockets.clear().
ReleaseRetired ==
  /\ at.pc = "expire" /\ (at.expired = {} \/ drain_expired)
  /\ socket' = Close(retired)
  /\ watched' = watched \ retired
  /\ retired' = {}
  /\ at' = [at EXCEPT !.pc = "top", !.expired = {}]
  /\ UNCHANGED <<conn, connections, fd_to_connection, draining, listening_fd, events,
                 healthVars, worldVars>>

-----------------------------------------------------------------------------

\* An exception outside of the try blocks leaves run_kqueue_server, and the process ends:
\* the start, accept(), kevent(), a filter of the relay, or begin_draining failed.
ThrowsAt ==
  \/ at.pc \in {"start", "register", "wait"}
  \/ at.pc = "accept" /\ AdmitsClient
  \/ at.pc = "dispatch" /\ \E e \in events :
       \/ e.fd = listening_fd
       \/ /\ e.fd \in DOMAIN fd_to_connection
          /\ conn[fd_to_connection[e.fd]].state = "established"
  \/ at.pc \in {"top", "dispatch", "accept", "setup", "insert", "expire"} /\ observe_shutdown # draining

Throws ==
  /\ SetupErrors /\ ThrowsAt
  /\ Observe
  /\ Leave
  /\ UNCHANGED <<healthVars, worldVars>>

Server == \/ Listen \/ Register \/ Top \/ KeventWait \/ HandleEvent \/ AcceptClient \/ AcceptEnds \/ DropClient
          \/ SetupClient \/ InsertClient \/ TryNextBackend \/ EndBatch \/ Expire
          \/ ReleaseRetired \/ Throws

Stopped == at.pc = "stopped" /\ UNCHANGED vars

Next == Outside \/ Server \/ Stopped

(***************************************************************************)
(* Fairness.  The thread runs, and kevent() returns when a notification is *)
(* due or its timeout has run out.  Time passes, so deadlines do.  Nothing *)
(* is assumed of clients and backends: established connections may stay    *)
(* quiet for ever.                                                         *)
(***************************************************************************)
Running == at.pc = "wait" => Due # {} \/ TimeoutDue

Fairness == /\ WF_vars(Running /\ Server)
            /\ WF_vars(DrainDeadlinePasses)
            /\ \A c \in Client : WF_vars(DeadlinePasses(c))

Spec     == Init /\ [][Next]_vars
FairSpec == Spec /\ Fairness

-----------------------------------------------------------------------------
(* Properties.                                                             *)

\* The variables have their types.
TypeOK ==
  /\ at \in Position
  /\ conn \in [Client -> ConnectionRecord]
  /\ connections \subseteq Client
  /\ DOMAIN fd_to_connection \subseteq Fd
  /\ \A f \in DOMAIN fd_to_connection : fd_to_connection[f] \in Client
  /\ retired \subseteq Fd /\ listening_fd \in {NoFd, 1} /\ draining \in BOOLEAN
  /\ events \subseteq [kind : {"read", "write", "signal"}, fd : {NoFd} \cup Fd,
                       about : Sockets \cup {Closed, Listener}]
  /\ healthy \subseteq Backend /\ next_backend_index \in Backend
  /\ socket \in [Fd -> Sockets \cup {Closed, Listener}] /\ watched \subseteq Fd
  /\ arrived \in 0 .. MaxClients /\ accepted \in 0 .. arrived
  /\ signalled \in BOOLEAN /\ signal_pending \in BOOLEAN /\ drain_over \in BOOLEAN

\* The two maps agree with the connections and with the kernel: every descriptor of a
\* live connection, and no other, leads to it, and denotes a socket of it.
MapsExact ==
  /\ DOMAIN fd_to_connection = UNION {SocketsOf(c) : c \in connections}
  /\ \A f \in DOMAIN fd_to_connection :
       LET c == fd_to_connection[f] IN
       c \in connections /\ f \in SocketsOf(c) /\ socket[f][1] = c

\* "Keep retired fds open until no stale events from this batch remain": whatever was
\* retired, retried, closed and opened since kevent() returned, an event that still
\* finds a connection finds the one it is about, at the socket it is about; and a
\* listener event never meets a descriptor that the kernel has given out again.
NoStaleDispatch ==
  \A e \in events :
    /\ e.kind # "signal" /\ e.fd \in DOMAIN fd_to_connection =>
         e.about = socket[e.fd] /\ e.about[1] = fd_to_connection[e.fd]
    /\ e.kind # "signal" /\ e.fd = listening_fd => e.about = Listener

\* When the loop goes to sleep, every open socket belongs to a live connection or is
\* the listener: nothing that was dropped, retried or retired is still open.  When
\* run_kqueue_server has been left, at whatever point, none is.
NoDescriptorLeak ==
  at.pc \in {"wait", "stopped"} =>
    {f \in Fd : socket[f] # Closed} =
      (DOMAIN fd_to_connection) \cup {f \in {listening_fd} : valid(f)}

\* When the loop goes to sleep, a connecting connection can wake it: its connect is
\* watched, and it was not left between two attempts.
ConnectIsWatched ==
  at.pc = "wait" =>
    \A c \in Connecting :
      /\ conn[c].backend_fd \in watched
      /\ conn[c].connect # "none"

\* While draining no connection is added, also not by an accept() that had returned
\* before the signal was observed.
DrainAdmitsNobody == [][draining => connections' \subseteq connections]_vars

\* Where local calls do not fail, a client loses its connection before it is established
\* only when every candidate was tried or the drain deadline has passed.  With SetupErrors
\* nothing is claimed: a local failure ends one client, or all of them, at any candidate.
EveryCandidateTried ==
  [][\A c \in Connecting : c \notin connections' =>
       \/ SetupErrors \/ drain_expired
       \/ conn[c].next_candidate = Len(conn[c].candidates)]_vars

\* While the server goes on, an established connection ends only by an event of one of
\* its own two sockets: not by a connect deadline, and not by an event of a descriptor's
\* former owner.
EndsByOwnEvent ==
  [][\A c \in connections : conn[c].state = "established" /\ c \notin connections' =>
       at'.pc = "stopped" \/ \E e \in events \ events' : e.about[1] = c]_vars

\* A signal ends the server, whatever the clients and backends do.
SignalStops == signalled ~> at.pc = "stopped"

\* A connecting connection does not stay so: each attempt ends or times out.
ConnectResolves ==
  \A c \in Client : (c \in Connecting) ~> (c \notin Connecting \/ at.pc = "stopped")
=============================================================================

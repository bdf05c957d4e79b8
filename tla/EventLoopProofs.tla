-------------------------- MODULE EventLoopProofs --------------------------
(***************************************************************************)
(* Safety of EventLoop for every number of clients, backends, descriptors  *)
(* and events: its types, that its maps, its sockets and the kernel agree, *)
(* that no notification reaches a descriptor's next owner, that nothing is *)
(* left open or unwatched when the loop sleeps, and what may end a         *)
(* connection.                                                             *)
(***************************************************************************)
EXTENDS EventLoop, BackendsProofs

-----------------------------------------------------------------------------
(* The inductive invariant.                                                *)

Held(c) == conn[c] # NoConnection

\* Clients whose socket the server has got hold of.
InHand(c) == Held(c) \/ (at.pc = "setup" /\ c = at.cur)

\* The kernel's side: a socket has one descriptor, sockets are those of clients that were
\* accepted and of attempts that were made, and the listener is the one socket that
\* listening_fd stands for.
OneDescriptorEach ==
  \A f, g \in Fd : socket[f] = socket[g] /\ socket[f] # Closed => f = g
SocketsAreKnown ==
  \A f \in Fd, c \in Client, k \in 0 .. NumBackends : socket[f] = <<c, k>> =>
    /\ c <= accepted
    /\ InHand(c) => k <= conn[c].next_candidate
ListenerIsKnown ==
  /\ valid(listening_fd) => listening_fd \in Fd /\ socket[listening_fd] = Listener
  /\ \A f \in Fd : socket[f] = Listener => f = listening_fd

\* Every open descriptor is owned by something in the loop, and what is put aside is no
\* listener and is still open.
HasOwner(f) ==
  f = listening_fd \/ f \in retired \/ f \in ClientSocket \/ \E c \in Client : f \in SocketsOf(c)
OpenIsOwned == \A f \in Fd : socket[f] # Closed => HasOwner(f)
RetiredIsOpen == \A f \in retired : socket[f] \in Sockets

\* Only the sockets of backends have a write filter, and only as long as they are open.
WatchedIsOpen == \A f \in watched : socket[f] \in Sockets /\ socket[f][2] # 0

\* A Connection: where it may be, its two sockets, its place among the candidates, and, for
\* one that waits for its backend, the filter that will report it.
BetweenAttempts(c) == at.pc \in {"insert", "try"} /\ at.cur = c
ConnectionIsSound(c) ==
  LET k == conn[c] IN
  Held(c) =>
    /\ c \in connections \/ (at.pc = "insert" /\ c = at.cur)
    /\ k.state \in {"connecting", "established"}
    /\ k.client_fd \in Fd /\ socket[k.client_fd] = <<c, 0>>
    /\ valid(k.backend_fd) => /\ socket[k.backend_fd] = <<c, k.next_candidate>>
                              /\ k.next_candidate # 0
    /\ k.client_fd \notin retired /\ k.backend_fd \notin retired
    /\ Len(k.candidates) = NumBackends /\ k.next_candidate <= NumBackends
    /\ k.state = "connecting" /\ ~BetweenAttempts(c) =>
         k.backend_fd \in watched /\ k.connect # "none"

\* MapsExact, descriptor by descriptor.
MapsAgree ==
  /\ \A c \in connections : SocketsOf(c) \subseteq DOMAIN fd_to_connection
  /\ \A f \in DOMAIN fd_to_connection : \E c \in connections :
       fd_to_connection[f] = c /\ f \in SocketsOf(c) /\ socket[f][1] = c

\* A notification of the batch is about the socket that its descriptor still denotes, and
\* not about the client that is just being accepted.
EventsAreFresh ==
  \A e \in events : e.kind # "signal" =>
    /\ e.fd \in Fd /\ e.about = socket[e.fd] /\ e.about # Closed
    /\ at.pc \in {"setup", "insert"} => e.about # <<at.cur, 0>>

\* What is the case at each place of the loop.
Asleep == {"start", "register", "top", "wait", "stopped"}
PlaceInLoop ==
  /\ at.pc \in {"start", "stopped"} => connections = {} /\ ~valid(listening_fd)
  /\ at.pc \in Asleep => retired = {}
  /\ at.pc \in Asleep \cup {"expire"} \/ (at.pc = "try" /\ at.back = "expire") => events = {}
  /\ at.pc = "setup" => /\ at.cur \in Client /\ ~Held(at.cur)
                        /\ \E f \in Fd \ retired : socket[f] = <<at.cur, 0>>
  /\ at.pc = "insert" => /\ at.cur \in Client \ connections /\ Held(at.cur)
                         /\ conn[at.cur].state = "connecting"
                         /\ ~valid(conn[at.cur].backend_fd)
  /\ at.pc = "try" => /\ at.cur \in connections /\ at.back # "top"
                      /\ conn[at.cur].state = "connecting"
                      /\ ~valid(conn[at.cur].backend_fd) /\ at.cur \notin at.expired
  /\ at.expired # {} => at.pc = "expire" \/ (at.pc = "try" /\ at.back = "expire")
  /\ \A c \in at.expired : c \in connections /\ conn[c].state = "connecting"
  /\ \A c \in connections : Held(c)

EventLoopInv ==
  /\ TypeOK
  /\ OneDescriptorEach /\ SocketsAreKnown /\ ListenerIsKnown
  /\ OpenIsOwned /\ RetiredIsOpen /\ WatchedIsOpen
  /\ \A c \in Client : ConnectionIsSound(c)
  /\ MapsAgree
  /\ EventsAreFresh
  /\ PlaceInLoop

-----------------------------------------------------------------------------
(* Types.                                                                  *)

LEMMA Constants ==
  /\ NumBackends \in Nat \ {0} /\ MaxClients \in Nat /\ MaxEvents \in Nat \ {0} /\ MaxFd \in Nat
  /\ NoFd \notin Fd /\ 0 \notin Client
  /\ Closed \notin Sockets /\ Listener \notin Sockets /\ Closed # Listener
  /\ \A c \in Client, k \in 0 .. NumBackends : <<c, k>> \in Sockets
  /\ \A c \in Client : <<c, 0>> \in Sockets
BY NumBackendsAssumption, EventLoopAssumption DEF Fd, NoFd, Client, Sockets, Closed, Listener

LEMMA AtTypes ==
  ASSUME at \in Position
  PROVE  /\ at.pc \in {"start", "register", "top", "wait", "dispatch", "accept", "setup",
                       "insert", "try", "expire", "stopped"}
         /\ at.cur \in {0} \cup Client /\ at.back \in {"top", "dispatch", "accept", "expire"}
         /\ at.accepts \in 0 .. MaxEvents /\ at.expired \subseteq Client
BY DEF Position

\* Position has the fields that the loop changes.
LEMMA AtMoves ==
  ASSUME at \in Position,
         NEW p \in {"start", "register", "top", "wait", "dispatch", "accept", "setup",
                    "insert", "try", "expire", "stopped"}
  PROVE  /\ [at EXCEPT !.pc = p] \in Position
         /\ [at EXCEPT !.pc = p].pc = p /\ [at EXCEPT !.pc = p].cur = at.cur
         /\ [at EXCEPT !.pc = p].back = at.back
         /\ [at EXCEPT !.pc = p].accepts = at.accepts
         /\ [at EXCEPT !.pc = p].expired = at.expired
BY DEF Position

LEMMA ConnTypes ==
  ASSUME conn \in [Client -> ConnectionRecord], NEW c \in Client
  PROVE  /\ conn[c] \in ConnectionRecord
         /\ conn[c].client_fd \in {NoFd} \cup Fd /\ conn[c].backend_fd \in {NoFd} \cup Fd
         /\ conn[c].state \in {"none", "connecting", "established"}
         /\ conn[c].candidates \in Seq(Backend) /\ conn[c].next_candidate \in 0 .. NumBackends
         /\ conn[c].connect \in {"none", "pending", "ok", "error"} /\ conn[c].late \in BOOLEAN
BY DEF ConnectionRecord

LEMMA NoConnectionFacts ==
  /\ NoConnection \in ConnectionRecord
  /\ NoConnection.client_fd = NoFd /\ NoConnection.backend_fd = NoFd
  /\ NoConnection.state = "none" /\ NoConnection.connect = "none"
  /\ NoConnection.next_candidate = 0 /\ NoConnection.late = FALSE
BY NumBackendsAssumption DEF NoConnection, ConnectionRecord

-----------------------------------------------------------------------------
(* Steps that leave sockets, maps and connections alone.                   *)

LEMMA QuietStep ==
  ASSUME EventLoopInv, TypeOK', EventsAreFresh', PlaceInLoop',
         UNCHANGED <<connVars, listening_fd, socket, watched, accepted>>,
         \/ at' = at
         \/ {at.pc, at.pc'} \cap {"setup", "insert", "try"} = {}
  PROVE  EventLoopInv'
<1>1. /\ UNCHANGED <<conn, connections, fd_to_connection, retired, listening_fd, socket,
                     watched, accepted>>
      /\ \/ at' = at
         \/ at.pc \notin {"setup", "insert", "try"} /\ at.pc' \notin {"setup", "insert", "try"}
  BY DEF connVars
<1>2. OneDescriptorEach' /\ ListenerIsKnown' /\ RetiredIsOpen' /\ WatchedIsOpen' /\ MapsAgree'
  BY <1>1 DEF EventLoopInv, OneDescriptorEach, ListenerIsKnown, RetiredIsOpen, WatchedIsOpen,
              MapsAgree, SocketsOf
<1>3. SocketsAreKnown'
  BY <1>1 DEF EventLoopInv, SocketsAreKnown, InHand, Held
<1>4. OpenIsOwned'
  BY <1>1 DEF EventLoopInv, OpenIsOwned, HasOwner, ClientSocket, SocketsOf
<1>5. ASSUME NEW c \in Client
      PROVE  ConnectionIsSound(c)'
  BY <1>1 DEF EventLoopInv, ConnectionIsSound, BetweenAttempts, Held
<1> QED BY <1>2, <1>3, <1>4, <1>5 DEF EventLoopInv

LEMMA TheOutsideKeepsInv ==
  ASSUME EventLoopInv, Arrive \/ DrainDeadlinePasses \/ Signal
  PROVE  EventLoopInv'
<1>1. /\ UNCHANGED <<connVars, listening_fd, socket, watched, accepted, events>>
      /\ \/ at' = at
         \/ at.pc = "wait" /\ at' = [at EXCEPT !.pc = "top"]
  BY DEF Arrive, DrainDeadlinePasses, Signal
<1>2. TypeOK
  BY DEF EventLoopInv
<1>3. at' \in Position
  BY <1>1, <1>2, AtMoves DEF TypeOK
<1>4. /\ arrived' \in 0 .. MaxClients /\ accepted' \in 0 .. arrived'
      /\ signalled' \in BOOLEAN /\ signal_pending' \in BOOLEAN /\ drain_over' \in BOOLEAN
      /\ UNCHANGED <<draining, healthVars>>
  <2>1. /\ arrived \in 0 .. MaxClients /\ accepted \in 0 .. arrived /\ MaxClients \in Nat
        /\ signalled \in BOOLEAN /\ signal_pending \in BOOLEAN /\ drain_over \in BOOLEAN
    BY <1>2, EventLoopAssumption DEF TypeOK
  <2>2. CASE Arrive
    BY <2>1, <2>2 DEF Arrive
  <2>3. CASE DrainDeadlinePasses
    BY <2>1, <2>3 DEF DrainDeadlinePasses
  <2>4. CASE Signal
    BY <2>1, <2>4 DEF Signal
  <2> QED BY <2>2, <2>3, <2>4
<1>5. TypeOK'
  BY <1>1, <1>2, <1>3, <1>4 DEF TypeOK, connVars, healthVars
<1>6. \/ at' = at
      \/ /\ at.pc = "wait" /\ at'.pc = "top" /\ at'.cur = at.cur /\ at'.back = at.back
         /\ at'.expired = at.expired
  BY <1>1, <1>2 DEF TypeOK, Position
<1>7. EventsAreFresh'
  BY <1>1, <1>6 DEF EventLoopInv, EventsAreFresh
<1>8. PlaceInLoop'
  BY <1>1, <1>6 DEF EventLoopInv, PlaceInLoop, Asleep, Held, connVars
<1> QED BY <1>1, <1>5, <1>6, <1>7, <1>8, QuietStep

\* The kernel's verdict on a connect, and the passing of its deadline.
LEMMA ConnectingGoesOn ==
  ASSUME EventLoopInv, NEW c \in Client, ConnectEnds(c) \/ DeadlinePasses(c)
  PROVE  EventLoopInv'
<1>1. UNCHANGED <<at, connections, fd_to_connection, retired, listening_fd, draining, events,
                  healthVars, socket, watched, worldVars>>
  BY DEF ConnectEnds, DeadlinePasses
<1>2. TypeOK
  BY DEF EventLoopInv
<1>3. PICK r \in {"ok", "error"} :
        \/ conn' = [conn EXCEPT ![c].connect = r] /\ conn[c].connect = "pending"
        \/ conn' = [conn EXCEPT ![c].late = TRUE] /\ conn[c].state = "connecting"
  BY DEF ConnectEnds, DeadlinePasses, Connecting
<1>4. /\ conn' \in [Client -> ConnectionRecord]
      /\ \A d \in Client :
           /\ conn'[d].client_fd = conn[d].client_fd /\ conn'[d].backend_fd = conn[d].backend_fd
           /\ conn'[d].state = conn[d].state /\ conn'[d].candidates = conn[d].candidates
           /\ conn'[d].next_candidate = conn[d].next_candidate
           /\ conn[d].connect # "none" => conn'[d].connect # "none"
  <2>1. conn \in [Client -> ConnectionRecord]
    BY <1>2 DEF TypeOK
  <2>2. /\ conn'[c] \in ConnectionRecord
        /\ conn'[c].client_fd = conn[c].client_fd /\ conn'[c].backend_fd = conn[c].backend_fd
        /\ conn'[c].state = conn[c].state /\ conn'[c].candidates = conn[c].candidates
        /\ conn'[c].next_candidate = conn[c].next_candidate
        /\ conn[c].connect # "none" => conn'[c].connect # "none"
    <3>1. conn[c] \in ConnectionRecord
      BY <2>1
    <3>2. conn'[c] = [conn[c] EXCEPT !.connect = r] \/ conn'[c] = [conn[c] EXCEPT !.late = TRUE]
      BY <1>3, <2>1
    <3> QED BY <3>1, <3>2 DEF ConnectionRecord
  <2>3. \A d \in Client : d # c => conn'[d] = conn[d]
    BY <1>3, <2>1
  <2>4. conn' \in [Client -> ConnectionRecord]
    BY <1>3, <2>1, <2>2
  <2> QED BY <2>2, <2>3, <2>4
<1>5. \A d \in Client : (d \in connections => Held(d)) /\ (Held(d)' <=> Held(d))
  <2>1. c \in Client /\ Held(c) /\ Held(c)'
    BY <1>2, <1>3, <1>4, NoConnectionFacts DEF Held, TypeOK, ConnectionRecord
  <2>2. \A d \in Client : d # c => conn'[d] = conn[d]
    BY <1>2, <1>3 DEF TypeOK
  <2>3. \A d \in connections : Held(d)
    BY DEF EventLoopInv, PlaceInLoop
  <2> QED BY <2>1, <2>2, <2>3 DEF Held
<1>6. \A d \in Client : SocketsOf(d)' = SocketsOf(d)
  BY <1>4 DEF SocketsOf
<1>7. TypeOK'
  BY <1>1, <1>2, <1>4 DEF TypeOK, healthVars, worldVars
<1>8. OneDescriptorEach' /\ ListenerIsKnown' /\ RetiredIsOpen' /\ WatchedIsOpen' /\ EventsAreFresh'
  BY <1>1 DEF EventLoopInv, OneDescriptorEach, ListenerIsKnown, RetiredIsOpen, WatchedIsOpen,
              EventsAreFresh
<1>9. MapsAgree'
  <2>1. connections \subseteq Client
    BY <1>2 DEF TypeOK
  <2> QED BY <1>1, <1>6, <2>1 DEF EventLoopInv, MapsAgree
<1>10. SocketsAreKnown'
  <2>1. \A f \in Fd : socket[f] \in Sockets => socket[f][1] \in Client
    BY DEF Sockets
  <2>2. accepted' = accepted
    BY <1>1 DEF worldVars
  <2> QED BY <1>1, <1>4, <1>5, <2>1, <2>2 DEF EventLoopInv, SocketsAreKnown, InHand
<1>11. OpenIsOwned'
  BY <1>1, <1>6 DEF EventLoopInv, OpenIsOwned, HasOwner, ClientSocket
<1>12. \A d \in Client : ConnectionIsSound(d)'
  <2>1. SUFFICES ASSUME NEW d \in Client
                 PROVE  ConnectionIsSound(d)'
    OBVIOUS
  <2>2. ConnectionIsSound(d)
    BY DEF EventLoopInv
  <2> QED BY <1>1, <1>4, <1>5, <2>2 DEF ConnectionIsSound, BetweenAttempts
<1>13. PlaceInLoop'
  <2>1. at.expired \subseteq Client /\ connections \subseteq Client
    BY <1>2, AtTypes DEF TypeOK
  <2> QED BY <1>1, <1>4, <1>5, <2>1 DEF EventLoopInv, PlaceInLoop, Asleep
<1> QED BY <1>7, <1>8, <1>9, <1>10, <1>11, <1>12, <1>13 DEF EventLoopInv

-----------------------------------------------------------------------------
(* Leaving the loop.                                                       *)

\* Whatever is open is owned by a local object of run_kqueue_server, and so it is closed.
LEMMA LeaveClosesAll ==
  ASSUME EventLoopInv, Leave
  PROVE  socket' = [f \in Fd |-> Closed]
<1>1. \A f \in Fd : socket[f] # Closed => f \in Owned
  <2>1. \A f : HasOwner(f) => f \in Owned
    BY DEF HasOwner, Owned
  <2> QED BY <2>1 DEF EventLoopInv, OpenIsOwned
<1> DEFINE closed == UNION {ClosedByDestructor(f) : f \in Owned}
<1>2. \A f \in Fd : f \in Owned => f \in closed
  BY Constants DEF ClosedByDestructor, ClosedByReset, valid
<1>3. socket' = [f \in Fd |-> IF f \in closed THEN Closed ELSE socket[f]]
  BY DEF Leave, Close
<1> HIDE DEF closed
<1> QED BY <1>1, <1>2, <1>3

LEMMA LeaveKeepsInv ==
  ASSUME EventLoopInv, Leave, draining' \in BOOLEAN, UNCHANGED <<healthVars, worldVars>>
  PROVE  EventLoopInv'
<1>1. TypeOK
  BY DEF EventLoopInv
<1>2. socket' = [f \in Fd |-> Closed]
  BY LeaveClosesAll
<1>3. /\ conn' = [c \in Client |-> NoConnection] /\ connections' = {}
      /\ fd_to_connection' = <<>> /\ retired' = {} /\ listening_fd' = NoFd
      /\ events' = {} /\ watched' = {}
      /\ at' = [at EXCEPT !.pc = "stopped", !.cur = 0, !.back = "top", !.accepts = 0,
                          !.expired = {}]
  BY DEF Leave
<1>4. /\ at' \in Position /\ at'.pc = "stopped" /\ at'.expired = {}
  <2>1. at \in Position /\ 0 \in 0 .. MaxEvents
    BY <1>1, Constants DEF TypeOK
  <2> QED BY <1>3, <2>1 DEF Position
<1>5. DOMAIN fd_to_connection' = {}
  BY <1>3
<1>6. TypeOK'
  <2>1. conn' \in [Client -> ConnectionRecord]
    BY <1>3, NoConnectionFacts
  <2>2. socket' \in [Fd -> Sockets \cup {Closed, Listener}]
    BY <1>2
  <2>3. /\ arrived' \in 0 .. MaxClients /\ accepted' \in 0 .. arrived'
        /\ signalled' \in BOOLEAN /\ signal_pending' \in BOOLEAN /\ drain_over' \in BOOLEAN
        /\ healthy' \subseteq Backend /\ next_backend_index' \in Backend
    BY <1>1 DEF TypeOK, healthVars, worldVars
  <2> QED BY <1>3, <1>4, <1>5, <2>1, <2>2, <2>3 DEF TypeOK
<1>7. \A f \in Fd : socket'[f] = Closed
  BY <1>2
<1>8. OneDescriptorEach' /\ OpenIsOwned'
  BY <1>7 DEF OneDescriptorEach, OpenIsOwned
<1>9. SocketsAreKnown' /\ ListenerIsKnown' /\ RetiredIsOpen' /\ WatchedIsOpen' /\ EventsAreFresh'
  BY <1>3, <1>7, Constants DEF SocketsAreKnown, ListenerIsKnown, RetiredIsOpen, WatchedIsOpen,
                               EventsAreFresh, valid
<1>10. \A c \in Client : ConnectionIsSound(c)'
  BY <1>3 DEF ConnectionIsSound, Held
<1>11. MapsAgree'
  BY <1>3, <1>5 DEF MapsAgree
<1>12. PlaceInLoop'
  BY <1>3, <1>4 DEF PlaceInLoop, valid
<1> QED BY <1>6, <1>8, <1>9, <1>10, <1>11, <1>12 DEF EventLoopInv

-----------------------------------------------------------------------------
(* The start, and the loop from its top to a batch.                        *)

LEMMA InitInv ==
  ASSUME Init
  PROVE  EventLoopInv
<1>1. /\ at.pc = "start" /\ at.expired = {} /\ at \in Position
  BY Constants DEF Init, Position
<1>2. /\ conn = [c \in Client |-> NoConnection] /\ connections = {} /\ fd_to_connection = <<>>
      /\ retired = {} /\ listening_fd = NoFd /\ events = {} /\ watched = {}
      /\ socket = [f \in Fd |-> Closed]
  BY DEF Init
<1>3. DOMAIN fd_to_connection = {}
  BY <1>2
<1>4. TypeOK
  <2>1. conn \in [Client -> ConnectionRecord]
    BY <1>2, NoConnectionFacts
  <2>2. socket \in [Fd -> Sockets \cup {Closed, Listener}]
    BY <1>2
  <2>3. /\ healthy = Backend /\ next_backend_index = 0 /\ 0 \in Backend
        /\ arrived = 0 /\ accepted = 0 /\ draining = FALSE
        /\ signalled = FALSE /\ signal_pending = FALSE /\ drain_over = FALSE
    BY Constants DEF Init, Backend
  <2>4. arrived \in 0 .. MaxClients /\ accepted \in 0 .. arrived
    BY <2>3, Constants
  <2> QED BY <1>1, <1>2, <1>3, <2>1, <2>2, <2>3, <2>4 DEF TypeOK
<1>5. \A f \in Fd : socket[f] = Closed
  BY <1>2
<1>6. OneDescriptorEach /\ OpenIsOwned
  BY <1>5 DEF OneDescriptorEach, OpenIsOwned
<1>7. SocketsAreKnown /\ ListenerIsKnown /\ RetiredIsOpen /\ WatchedIsOpen /\ EventsAreFresh
  BY <1>2, <1>5, Constants DEF SocketsAreKnown, ListenerIsKnown, RetiredIsOpen, WatchedIsOpen,
                               EventsAreFresh, valid
<1>8. \A c \in Client : ConnectionIsSound(c)
  BY <1>2 DEF ConnectionIsSound, Held
<1>9. MapsAgree
  BY <1>2, <1>3 DEF MapsAgree
<1>10. PlaceInLoop
  BY <1>1, <1>2 DEF PlaceInLoop, valid
<1> QED BY <1>4, <1>6, <1>7, <1>8, <1>9, <1>10 DEF EventLoopInv

\* There are descriptors for the listener and for all sockets.
LEMMA SocketCount ==
  /\ IsFiniteSet(Sockets) /\ Cardinality(Sockets) \in Nat
  /\ Cardinality(Sockets) + 1 <= MaxFd
  /\ 1 <= MaxFd /\ MaxFd \in Nat
<1>1. /\ MaxClients \in Nat /\ NumBackends \in Nat /\ MaxFd \in Nat
      /\ MaxFd >= 1 + MaxClients * (1 + NumBackends)
  BY EventLoopAssumption, NumBackendsAssumption
<1>2. IsFiniteSet(Client) /\ Cardinality(Client) = MaxClients
  <2>1. IsFiniteSet(1 .. MaxClients)
        /\ Cardinality(1 .. MaxClients) = IF 1 > MaxClients THEN 0 ELSE MaxClients - 1 + 1
    BY <1>1, FS_Interval
  <2> QED BY <1>1, <2>1 DEF Client
<1>3. IsFiniteSet(0 .. NumBackends) /\ Cardinality(0 .. NumBackends) = 1 + NumBackends
  <2>1. IsFiniteSet(0 .. NumBackends)
        /\ Cardinality(0 .. NumBackends) = IF 0 > NumBackends THEN 0 ELSE NumBackends - 0 + 1
    BY <1>1, FS_Interval
  <2> QED BY <1>1, <2>1
<1>4. /\ IsFiniteSet(Client \X (0 .. NumBackends))
      /\ Cardinality(Client \X (0 .. NumBackends)) = MaxClients * (1 + NumBackends)
  BY <1>2, <1>3, FS_Product
<1> DEFINE sockets == Cardinality(Sockets)
<1>5. IsFiniteSet(Sockets) /\ sockets \in Nat /\ sockets = MaxClients * (1 + NumBackends)
  BY <1>4, FS_CardinalityType DEF Sockets
<1>6. MaxFd >= 1 + sockets
  BY <1>1, <1>5
<1> HIDE DEF sockets
<1>7. sockets + 1 <= MaxFd /\ 1 <= MaxFd
  BY <1>1, <1>5, <1>6
<1> QED BY <1>1, <1>5, <1>7 DEF sockets

\* The first descriptor is the listener's.
LEMMA ListenKeepsInv ==
  ASSUME EventLoopInv, Listen
  PROVE  EventLoopInv'
<1>1. TypeOK
  BY DEF EventLoopInv
<1>2. /\ at.pc = "start" /\ connections = {} /\ listening_fd = NoFd /\ retired = {} /\ events = {}
  BY DEF Listen, EventLoopInv, PlaceInLoop, Asleep, valid
<1>3. \A c \in Client : ~Held(c)
  BY <1>2 DEF EventLoopInv, ConnectionIsSound
<1>4. \A f \in Fd : socket[f] = Closed
  <2>1. \A c \in Client : SocketsOf(c) = {}
    BY <1>3, NoConnectionFacts DEF SocketsOf, Held
  <2>2. \A f \in Fd : ~HasOwner(f)
    BY <1>2, <2>1, Constants DEF HasOwner, ClientSocket
  <2> QED BY <2>2 DEF EventLoopInv, OpenIsOwned
<1>5. 1 \in Fd
  BY SocketCount DEF Fd
<1>6. NewFd = 1
  <2>1. \A g \in 1 .. 1 - 1 : FALSE
    OBVIOUS
  <2>2. \A f \in Fd : f # 1 => 1 \in 1 .. f - 1
    BY DEF Fd
  <2> QED BY <1>4, <1>5, <2>1, <2>2 DEF NewFd
<1>7. /\ UNCHANGED <<conn, connections, fd_to_connection, retired, draining, events, healthy,
                     next_backend_index, watched, arrived, accepted, signalled, signal_pending,
                     drain_over>>
      /\ at' = [at EXCEPT !.pc = "register"] /\ listening_fd' = 1
      /\ socket' = [socket EXCEPT ![1] = Listener]
  BY <1>6 DEF Listen, connVars, healthVars, worldVars, Goto
<1>8. /\ at' \in Position /\ at'.pc = "register" /\ at'.cur = at.cur /\ at'.back = at.back
      /\ at'.expired = at.expired
  BY <1>1, <1>7 DEF TypeOK, Position
<1>9. /\ socket' \in [Fd -> Sockets \cup {Closed, Listener}]
      /\ socket'[1] = Listener /\ \A f \in Fd : f # 1 => socket'[f] = Closed
  BY <1>1, <1>4, <1>5, <1>7 DEF TypeOK
<1>10. TypeOK'
  BY <1>1, <1>7, <1>8, <1>9 DEF TypeOK
<1>11. OneDescriptorEach' /\ OpenIsOwned' /\ SocketsAreKnown' /\ ListenerIsKnown'
  <2>1. OneDescriptorEach'
    BY <1>9 DEF OneDescriptorEach
  <2>2. OpenIsOwned'
    BY <1>7, <1>9 DEF OpenIsOwned, HasOwner
  <2>3. SocketsAreKnown'
    BY <1>9, Constants DEF SocketsAreKnown
  <2>4. ListenerIsKnown'
    BY <1>5, <1>7, <1>9, Constants DEF ListenerIsKnown
  <2> QED BY <2>1, <2>2, <2>3, <2>4
<1>12. watched = {} /\ RetiredIsOpen' /\ WatchedIsOpen' /\ EventsAreFresh'
  BY <1>1, <1>2, <1>4, <1>7, Constants DEF EventLoopInv, WatchedIsOpen, RetiredIsOpen,
                                           EventsAreFresh, TypeOK
<1>13. \A c \in Client : ConnectionIsSound(c)'
  BY <1>3, <1>7 DEF ConnectionIsSound, Held
<1>14. MapsAgree'
  <2>1. DOMAIN fd_to_connection = {}
    BY <1>2 DEF EventLoopInv, MapsAgree
  <2> QED BY <1>2, <1>7, <2>1 DEF MapsAgree
<1>15. PlaceInLoop'
  BY <1>2, <1>7, <1>8 DEF EventLoopInv, PlaceInLoop, Asleep
<1> QED BY <1>10, <1>11, <1>12, <1>13, <1>14, <1>15 DEF EventLoopInv

LEMMA RegisterKeepsInv ==
  ASSUME EventLoopInv, Register
  PROVE  EventLoopInv'
<1>1. TypeOK
  BY DEF EventLoopInv
<1>2. /\ UNCHANGED <<connVars, listening_fd, draining, events, healthVars, socket, watched,
                     worldVars>>
      /\ at.pc = "register" /\ at' = [at EXCEPT !.pc = "top"]
  BY DEF Register, Goto
<1>3. /\ at' \in Position /\ at'.pc = "top" /\ at'.cur = at.cur /\ at'.back = at.back
      /\ at'.expired = at.expired
  BY <1>1, <1>2 DEF TypeOK, Position
<1>4. TypeOK'
  BY <1>1, <1>2, <1>3 DEF TypeOK, connVars, healthVars, worldVars
<1>5. EventsAreFresh'
  BY <1>2, <1>3 DEF EventLoopInv, EventsAreFresh
<1>6. PlaceInLoop'
  BY <1>2, <1>3 DEF EventLoopInv, PlaceInLoop, Asleep, Held, connVars
<1> QED BY <1>2, <1>3, <1>4, <1>5, <1>6, QuietStep DEF worldVars

\* The listener is closed while no connection is in between and no notification waits.
LEMMA ResetKeepsInv ==
  ASSUME EventLoopInv, ResetListener, events' = {},
         UNCHANGED <<connVars, healthVars, watched, worldVars>>, draining' \in BOOLEAN,
         at.pc \in {"top", "dispatch"}, at'.pc \in {"wait", "expire"},
         at' \in Position, PlaceInLoop'
  PROVE  EventLoopInv'
<1>1. TypeOK
  BY DEF EventLoopInv
<1>2. /\ UNCHANGED <<conn, connections, fd_to_connection, retired, healthy, next_backend_index,
                     watched, arrived, accepted, signalled, signal_pending, drain_over>>
  BY DEF connVars, healthVars, worldVars
<1>3. EventsAreFresh'
  BY DEF EventsAreFresh
<1>4. CASE UNCHANGED <<listening_fd, socket>>
  <2>1. TypeOK'
    BY <1>1, <1>2, <1>4 DEF TypeOK
  <2> QED BY <1>2, <1>3, <1>4, <2>1, QuietStep DEF connVars
<1>5. CASE /\ valid(listening_fd) /\ listening_fd' = NoFd
           /\ socket' = Close(ClosedByReset(listening_fd, NoFd))
  <2>1. listening_fd \in Fd /\ listening_fd # NoFd /\ socket[listening_fd] = Listener
    BY <1>5 DEF EventLoopInv, ListenerIsKnown, valid
  <2>2. ClosedByReset(listening_fd, NoFd) = {listening_fd}
    BY <2>1 DEF ClosedByReset, valid
  <2>3. /\ socket' \in [Fd -> Sockets \cup {Closed, Listener}]
        /\ socket'[listening_fd] = Closed
        /\ \A f \in Fd : f # listening_fd => socket'[f] = socket[f]
    BY <1>1, <1>5, <2>1, <2>2 DEF TypeOK, Close
  <2>4. TypeOK'
    BY <1>1, <1>2, <1>5, <2>3 DEF TypeOK
  <2>5. OneDescriptorEach'
    BY <2>1, <2>3 DEF EventLoopInv, OneDescriptorEach
  <2>6. \A f \in Fd : socket[f] \in Sockets => f # listening_fd
    BY <2>1, Constants
  <2>7. SocketsAreKnown' /\ ListenerIsKnown' /\ RetiredIsOpen' /\ WatchedIsOpen'
    <3>1. SocketsAreKnown'
      <4>1. \A c \in Client, k \in 0 .. NumBackends : <<c, k>> # Closed
        BY Constants
      <4>2. ASSUME NEW f \in Fd, NEW c \in Client, NEW k \in 0 .. NumBackends,
                   socket'[f] = <<c, k>>
            PROVE  socket[f] = <<c, k>>
        BY <2>3, <4>1, <4>2
      <4>3. \A c \in Client : InHand(c)' => InHand(c)
        BY <1>2 DEF InHand, Held
      <4>4. SocketsAreKnown
        BY DEF EventLoopInv
      <4> QED BY <1>2, <4>2, <4>3, <4>4 DEF SocketsAreKnown
    <3>2. ListenerIsKnown'
      BY <1>5, <2>1, <2>3, Constants DEF EventLoopInv, ListenerIsKnown, valid
    <3>3. RetiredIsOpen' /\ WatchedIsOpen'
      BY <1>1, <1>2, <2>3, <2>6 DEF EventLoopInv, RetiredIsOpen, WatchedIsOpen, TypeOK
    <3> QED BY <3>1, <3>2, <3>3
  <2>8. OpenIsOwned'
    <3>1. \A f : HasOwner(f) => HasOwner(f)' \/ f = listening_fd
      BY <1>2 DEF HasOwner, ClientSocket, SocketsOf
    <3> QED BY <2>1, <2>3, <3>1 DEF EventLoopInv, OpenIsOwned
  <2>9. ASSUME NEW c \in Client
        PROVE  ConnectionIsSound(c)'
    <3>1. /\ conn[c].client_fd \in {NoFd} \cup Fd /\ conn[c].backend_fd \in {NoFd} \cup Fd
          /\ conn[c].next_candidate \in 0 .. NumBackends
      BY <1>1, ConnTypes DEF TypeOK
    <3>2. ConnectionIsSound(c)
      BY DEF EventLoopInv
    <3>3. Held(c) => conn[c].client_fd # listening_fd
      BY <2>6, <3>2, Constants DEF ConnectionIsSound
    <3>4. Held(c) /\ valid(conn[c].backend_fd) => conn[c].backend_fd # listening_fd
      BY <2>6, <3>1, <3>2, Constants DEF ConnectionIsSound, valid
    <3> QED BY <1>2, <2>3, <3>1, <3>2, <3>3, <3>4
            DEF ConnectionIsSound, BetweenAttempts, Held, valid
  <2>10. MapsAgree'
    <3>1. \A f \in DOMAIN fd_to_connection : f \in Fd /\ f # listening_fd
      BY <1>1, <2>1, Constants DEF EventLoopInv, MapsAgree, TypeOK, Listener
    <3> QED BY <1>2, <2>3, <3>1 DEF EventLoopInv, MapsAgree, SocketsOf
  <2> QED BY <1>3, <2>4, <2>5, <2>7, <2>8, <2>9, <2>10 DEF EventLoopInv
<1> QED BY <1>4, <1>5 DEF ResetListener

LEMMA TopKeepsInv ==
  ASSUME EventLoopInv, Top
  PROVE  EventLoopInv'
<1>1. TypeOK /\ at.pc = "top" /\ draining' \in BOOLEAN
  BY DEF EventLoopInv, Top, TypeOK, Observe, observe_shutdown
<1>2. CASE Leave
  BY <1>1, <1>2, LeaveKeepsInv DEF Top
<1>3. CASE ResetListener /\ Goto("wait") /\ UNCHANGED <<connVars, events, watched>>
  <2>1. /\ at' \in Position /\ at'.pc = "wait" /\ at'.cur = at.cur /\ at'.back = at.back
        /\ at'.expired = at.expired
    BY <1>1, <1>3 DEF TypeOK, Position, Goto
  <2>2. events = {} /\ retired = {} /\ events' = {} /\ retired' = {}
    BY <1>1, <1>3 DEF EventLoopInv, PlaceInLoop, Asleep, connVars
  <2>3. PlaceInLoop'
    BY <1>1, <1>3, <2>1, <2>2 DEF EventLoopInv, PlaceInLoop, Held, connVars
  <2> QED BY <1>1, <1>3, <2>1, <2>2, <2>3, ResetKeepsInv DEF Top
<1> QED BY <1>2, <1>3 DEF Top

\* What kevent() reports names a descriptor that is open, and the socket it denotes.
Reported == [kind : {"read", "write", "signal"}, fd : {NoFd} \cup Fd,
             about : Sockets \cup {Closed, Listener}]

LEMMA ReadyFacts ==
  ASSUME EventLoopInv, NEW e \in Ready
  PROVE  /\ e \in Reported
         /\ e.kind # "signal" => e.fd \in Fd /\ e.about = socket[e.fd] /\ e.about # Closed
<1>1. /\ watched \subseteq Fd /\ (DOMAIN fd_to_connection) \subseteq Fd
      /\ \A f \in DOMAIN fd_to_connection : fd_to_connection[f] \in Client
      /\ socket \in [Fd -> Sockets \cup {Closed, Listener}]
  BY DEF EventLoopInv, TypeOK
<1>2. \A f \in watched : socket[f] # Closed
  BY <1>1, Constants DEF EventLoopInv, WatchedIsOpen
<1>3. valid(listening_fd) => listening_fd \in Fd /\ socket[listening_fd] # Closed
  BY Constants DEF EventLoopInv, ListenerIsKnown
<1>4. \A f \in DOMAIN fd_to_connection : socket[f] # Closed
  <2>1. \A f \in DOMAIN fd_to_connection : socket[f][1] = fd_to_connection[f]
    BY DEF EventLoopInv, MapsAgree
  <2>2. Closed[1] = 0
    BY DEF Closed
  <2> QED BY <1>1, <2>1, <2>2, Constants
<1>5. CASE \E f \in watched : e = [kind |-> "write", fd |-> f, about |-> socket[f]]
  BY <1>1, <1>2, <1>5 DEF Reported
<1>6. CASE valid(listening_fd) /\ e = [kind |-> "read", fd |-> listening_fd,
                                       about |-> socket[listening_fd]]
  BY <1>1, <1>3, <1>6 DEF Reported
<1>7. CASE e = [kind |-> "signal", fd |-> NoFd, about |-> Closed]
  BY <1>7 DEF Reported
<1>8. CASE \E f \in DOMAIN fd_to_connection, kind \in {"read", "write"} :
             e = [kind |-> kind, fd |-> f, about |-> socket[f]]
  BY <1>1, <1>4, <1>8 DEF Reported
<1>9. \/ \E f \in watched : e = [kind |-> "write", fd |-> f, about |-> socket[f]]
      \/ valid(listening_fd) /\ e = [kind |-> "read", fd |-> listening_fd,
                                     about |-> socket[listening_fd]]
      \/ e = [kind |-> "signal", fd |-> NoFd, about |-> Closed]
      \/ \E f \in DOMAIN fd_to_connection, kind \in {"read", "write"} :
             e = [kind |-> kind, fd |-> f, about |-> socket[f]]
  BY DEF Ready, Due, Notify
<1> QED BY <1>5, <1>6, <1>7, <1>8, <1>9

LEMMA KeventWaitKeepsInv ==
  ASSUME EventLoopInv, KeventWait
  PROVE  EventLoopInv'
<1>1. TypeOK
  BY DEF EventLoopInv
<1>2. /\ UNCHANGED <<connVars, listening_fd, draining, healthVars, socket, watched, arrived,
                     accepted, signalled, drain_over>>
      /\ at.pc = "wait" /\ at' = [at EXCEPT !.pc = "dispatch"] /\ events' \subseteq Ready
      /\ signal_pending' \in BOOLEAN
  BY DEF KeventWait, Goto
<1>3. /\ at' \in Position /\ at'.pc = "dispatch" /\ at'.cur = at.cur /\ at'.back = at.back
      /\ at'.expired = at.expired
  BY <1>1, <1>2 DEF TypeOK, Position
<1>4. TypeOK'
  <2>1. events' \subseteq Reported
    BY <1>2, ReadyFacts
  <2> QED BY <1>1, <1>2, <1>3, <2>1 DEF TypeOK, connVars, healthVars, Reported
<1>5. EventsAreFresh'
  BY <1>2, <1>3, ReadyFacts DEF EventsAreFresh
<1>6. PlaceInLoop'
  BY <1>2, <1>3 DEF EventLoopInv, PlaceInLoop, Asleep, Held, connVars
<1> QED BY <1>2, <1>3, <1>4, <1>5, <1>6, QuietStep

-----------------------------------------------------------------------------
(* A connection is retired.                                                *)

\* Its sockets are different from those of all others.
LEMMA SocketsDiffer ==
  ASSUME EventLoopInv, NEW c \in Client, NEW d \in Client, c # d
  PROVE  SocketsOf(c) \cap SocketsOf(d) = {}
<1>1. SUFFICES ASSUME NEW f \in SocketsOf(c), f \in SocketsOf(d)
               PROVE  FALSE
  OBVIOUS
<1>2. Held(c) /\ Held(d)
  BY <1>1, NoConnectionFacts DEF Held, SocketsOf
<1>3. ConnectionIsSound(c) /\ ConnectionIsSound(d)
  BY DEF EventLoopInv
<1>4. socket[f][1] = c
  BY <1>1, <1>2, <1>3 DEF ConnectionIsSound, SocketsOf, valid
<1>5. socket[f][1] = d
  BY <1>1, <1>2, <1>3 DEF ConnectionIsSound, SocketsOf, valid
<1> QED BY <1>4, <1>5

LEMMA SocketsAreTheirs ==
  ASSUME EventLoopInv, NEW c \in Client, NEW f \in SocketsOf(c)
  PROVE  /\ Held(c) /\ f \in Fd /\ f # NoFd /\ socket[f] \in Sockets /\ socket[f][1] = c
         /\ f \notin retired /\ f # listening_fd
<1>1. Held(c)
  BY NoConnectionFacts DEF Held, SocketsOf
<1>2. /\ ConnectionIsSound(c) /\ conn[c].client_fd \in {NoFd} \cup Fd
      /\ conn[c].backend_fd \in {NoFd} \cup Fd /\ conn[c].next_candidate \in 0 .. NumBackends
  BY ConnTypes DEF EventLoopInv, TypeOK
<1>3. f \in Fd /\ f # NoFd /\ f \notin retired
  BY <1>1, <1>2 DEF ConnectionIsSound, SocketsOf
<1>4. socket[f] = <<c, 0>> \/ socket[f] = <<c, conn[c].next_candidate>>
  BY <1>1, <1>2 DEF ConnectionIsSound, SocketsOf, valid
<1>5. socket[f] \in Sockets /\ socket[f][1] = c
  BY <1>2, <1>4, Constants
<1>6. f # listening_fd
  BY <1>3, <1>5, Constants DEF EventLoopInv, ListenerIsKnown, valid
<1> QED BY <1>1, <1>3, <1>5, <1>6

\* retire_connection and what may go with it.  The place in the loop is left to the caller.
LEMMA RetireStep ==
  ASSUME EventLoopInv, NEW c \in connections, retire_connection(c), TypeOK', PlaceInLoop',
         UNCHANGED <<socket, listening_fd, accepted>>, events' \subseteq events,
         watched \ SocketsOf(c) \subseteq watched', watched' \subseteq watched,
         at.pc \in {"dispatch", "try", "expire"}, at'.pc \in {"dispatch", "accept", "expire"},
         at.pc = "try" => at.cur = c
  PROVE  EventLoopInv'
<1>1. TypeOK /\ c \in Client
  BY DEF EventLoopInv, TypeOK
<1>2. /\ connections' = connections \ {c} /\ retired' = retired \cup SocketsOf(c)
      /\ fd_to_connection' = Erase(fd_to_connection, SocketsOf(c))
      /\ conn'[c] = NoConnection /\ \A d \in Client : d # c => conn'[d] = conn[d]
      /\ SocketsOf(c)' = {} /\ \A d \in Client : d # c => SocketsOf(d)' = SocketsOf(d)
      /\ socket' = socket /\ listening_fd' = listening_fd /\ accepted' = accepted
  BY <1>1, NoConnectionFacts DEF retire_connection, TypeOK, SocketsOf
<1>3. OneDescriptorEach' /\ ListenerIsKnown'
  BY <1>2 DEF EventLoopInv, OneDescriptorEach, ListenerIsKnown
<1>4. SocketsAreKnown'
  <2>1. \A f \in Fd : socket[f] \in Sockets => socket[f][1] \in Client
    BY DEF Sockets
  <2>2. \A d \in Client : InHand(d)' => d # c /\ InHand(d)
    BY <1>2 DEF InHand, Held
  <2> QED BY <1>2, <2>1, <2>2 DEF EventLoopInv, SocketsAreKnown
<1>5. OpenIsOwned'
  BY <1>1, <1>2 DEF EventLoopInv, OpenIsOwned, HasOwner, ClientSocket
<1>6. RetiredIsOpen' /\ WatchedIsOpen'
  BY <1>1, <1>2, SocketsAreTheirs DEF EventLoopInv, RetiredIsOpen, WatchedIsOpen
<1>7. ASSUME NEW d \in Client
      PROVE  ConnectionIsSound(d)'
  <2>1. CASE d = c
    BY <1>2, <2>1 DEF ConnectionIsSound, Held
  <2>2. CASE d # c
    <3>1. /\ conn'[d] = conn[d] /\ (d \in connections' <=> d \in connections)
          /\ (Held(d)' <=> Held(d))
      BY <1>2, <2>2 DEF Held
    <3>2. Held(d) => conn[d].client_fd \notin retired' /\ conn[d].backend_fd \notin retired'
      <4>1. ASSUME Held(d)
            PROVE  conn[d].client_fd \in SocketsOf(d) /\
                   (conn[d].backend_fd \in SocketsOf(d) \/ conn[d].backend_fd = NoFd)
        BY <4>1, Constants DEF EventLoopInv, ConnectionIsSound, SocketsOf
      <4>2. NoFd \notin SocketsOf(c)
        BY DEF SocketsOf
      <4>3. Held(d) => conn[d].client_fd \notin retired /\ conn[d].backend_fd \notin retired
        BY DEF EventLoopInv, ConnectionIsSound
      <4> QED BY <1>1, <1>2, <2>2, <4>1, <4>2, <4>3, SocketsDiffer
    <3>3. Held(d) /\ conn[d].backend_fd \in watched => conn[d].backend_fd \in watched'
      <4>1. ASSUME Held(d), conn[d].backend_fd \in watched
            PROVE  conn[d].backend_fd \in SocketsOf(d)
        BY <1>1, <4>1, Constants DEF TypeOK, SocketsOf
      <4> QED BY <1>1, <2>2, <4>1, SocketsDiffer
    <3>4. ConnectionIsSound(d) /\ ~BetweenAttempts(d)
      BY <2>2 DEF EventLoopInv, BetweenAttempts
    <3>5. ~(at.pc = "insert" /\ d = at.cur)
      OBVIOUS
    <3> QED BY <1>2, <3>1, <3>2, <3>3, <3>4, <3>5 DEF ConnectionIsSound
  <2> QED BY <2>1, <2>2
<1>8. MapsAgree'
  <2>1. /\ DOMAIN fd_to_connection' = (DOMAIN fd_to_connection) \ SocketsOf(c)
        /\ \A f \in DOMAIN fd_to_connection' : fd_to_connection'[f] = fd_to_connection[f]
    BY <1>2 DEF Erase
  <2>2. connections \subseteq Client /\ MapsAgree
    BY <1>1 DEF EventLoopInv, TypeOK
  <2>3. ASSUME NEW d \in connections', NEW f \in SocketsOf(d)'
        PROVE  f \in DOMAIN fd_to_connection'
    <3>1. d # c /\ d \in connections /\ f \in SocketsOf(d)
      BY <1>2, <2>2
    <3>2. f \notin SocketsOf(c)
      BY <1>1, <2>2, <3>1, SocketsDiffer
    <3> QED BY <2>1, <2>2, <3>1, <3>2 DEF MapsAgree
  <2>4. ASSUME NEW f \in DOMAIN fd_to_connection'
        PROVE  \E d \in connections' :
                 fd_to_connection'[f] = d /\ f \in SocketsOf(d)' /\ socket'[f][1] = d
    <3>1. PICK d \in connections :
            fd_to_connection[f] = d /\ f \in SocketsOf(d) /\ socket[f][1] = d
      BY <2>1, <2>2 DEF MapsAgree
    <3>2. d # c /\ d \in Client
      BY <2>1, <2>2, <3>1
    <3> QED BY <1>2, <2>1, <3>1, <3>2
  <2> QED BY <2>3, <2>4 DEF MapsAgree
<1>9. EventsAreFresh'
  BY <1>2 DEF EventLoopInv, EventsAreFresh
<1> QED BY <1>3, <1>4, <1>5, <1>6, <1>7, <1>8, <1>9 DEF EventLoopInv

-----------------------------------------------------------------------------
(* One notification.                                                       *)

\* A connection that a step leaves alone.
LEMMA OtherIsSound ==
  ASSUME EventLoopInv, NEW d \in Client, conn'[d] = conn[d],
         d \in connections => d \in connections', at.pc # "insert", ~BetweenAttempts(d),
         \A f \in SocketsOf(d) : /\ socket'[f] = socket[f] /\ f \notin retired'
                                 /\ f \in watched => f \in watched',
         NoFd \notin retired'
  PROVE  ConnectionIsSound(d)'
<1>1. ConnectionIsSound(d) /\ (Held(d)' <=> Held(d))
  BY DEF EventLoopInv, Held
<1>2. SUFFICES ASSUME Held(d)
               PROVE  ConnectionIsSound(d)'
  BY <1>1 DEF ConnectionIsSound
<1>3. /\ conn[d].client_fd \in SocketsOf(d)
      /\ valid(conn[d].backend_fd) => conn[d].backend_fd \in SocketsOf(d)
      /\ conn[d].backend_fd = NoFd \/ valid(conn[d].backend_fd)
      /\ NoFd \notin watched
  BY <1>1, <1>2, Constants DEF ConnectionIsSound, SocketsOf, valid, EventLoopInv, TypeOK
<1> QED BY <1>1, <1>2, <1>3 DEF ConnectionIsSound, valid

\* The two sockets of a connection that waits for its backend.
LEMMA WaitingFacts ==
  ASSUME EventLoopInv, NEW c \in connections, conn[c].state = "connecting", ~BetweenAttempts(c)
  PROVE  LET f == conn[c].backend_fd  g == conn[c].client_fd IN
         /\ c \in Client /\ Held(c) /\ f \in Fd /\ g \in Fd /\ f # g
         /\ f \in watched /\ socket[f] \in Sockets /\ SocketsOf(c) = {f, g}
         /\ f \notin retired /\ g \notin retired
         /\ conn[c].next_candidate \in 1 .. NumBackends /\ CurrentBackend(c) \in Backend
<1>1. c \in Client /\ Held(c) /\ ConnectionIsSound(c) /\ watched \subseteq Fd
  BY DEF EventLoopInv, TypeOK, PlaceInLoop
<1>2. /\ conn[c].candidates \in Seq(Backend) /\ conn[c].next_candidate \in 0 .. NumBackends
      /\ Len(conn[c].candidates) = NumBackends
  BY <1>1, ConnTypes DEF EventLoopInv, TypeOK, ConnectionIsSound
<1> DEFINE f == conn[c].backend_fd
           g == conn[c].client_fd
           n == conn[c].next_candidate
<1>3. f \in watched /\ f \in Fd /\ g \in Fd /\ f \notin retired /\ g \notin retired
  BY <1>1 DEF ConnectionIsSound
<1>4. socket[f] = <<c, n>> /\ n # 0 /\ socket[g] = <<c, 0>>
  BY <1>1, <1>3, Constants DEF ConnectionIsSound, valid
<1>5. SocketsOf(c) = {f, g}
  BY <1>3, Constants DEF SocketsOf
<1>6. f # g /\ socket[f] \in Sockets
  BY <1>1, <1>2, <1>4, Constants
<1>7. n \in 1 .. NumBackends /\ CurrentBackend(c) \in Backend
  BY <1>2, <1>4, Constants DEF CurrentBackend
<1> QED BY <1>1, <1>3, <1>5, <1>6, <1>7

\* A connection waits no more for the backend it had: the filter is gone, and its socket
\* stays or is put aside.
LEMMA WaitEnds ==
  ASSUME EventLoopInv, NEW c \in connections, conn[c].state = "connecting", ~BetweenAttempts(c),
         TypeOK', PlaceInLoop',
         UNCHANGED <<connections, listening_fd, socket, accepted>>, events' \subseteq events,
         \A d \in Client : d # c => conn'[d] = conn[d],
         conn'[c].client_fd = conn[c].client_fd, conn'[c].candidates = conn[c].candidates,
         conn'[c].next_candidate = conn[c].next_candidate,
         at.pc \in {"dispatch", "expire"}, at'.pc \in {"dispatch", "try"},
         watched' = watched \ {conn[c].backend_fd},
         \/ /\ conn'[c].backend_fd = conn[c].backend_fd /\ conn'[c].state = "established"
            /\ UNCHANGED <<fd_to_connection, retired>>
         \/ /\ conn'[c].backend_fd = NoFd /\ conn'[c].state = "connecting"
            /\ fd_to_connection' = Erase(fd_to_connection, {conn[c].backend_fd})
            /\ retired' = retired \cup {conn[c].backend_fd} /\ BetweenAttempts(c)'
  PROVE  EventLoopInv'
<1> DEFINE f == conn[c].backend_fd
           g == conn[c].client_fd
<1>1. /\ c \in Client /\ Held(c) /\ f \in Fd /\ g \in Fd /\ f # g
      /\ f \in watched /\ socket[f] \in Sockets /\ SocketsOf(c) = {f, g}
      /\ f \notin retired /\ g \notin retired
  BY WaitingFacts
<1>2. /\ Held(c)' /\ SocketsOf(c)' = SocketsOf(c) \ retired'
      /\ \A d \in Client : (d # c => SocketsOf(d)' = SocketsOf(d)) /\ (Held(d)' <=> Held(d))
      /\ f \notin retired' => SocketsOf(c)' = {f, g}
      /\ f \in retired' => SocketsOf(c)' = {g} /\ retired' = retired \cup {f}
  <2>1. Held(c)'
    BY <1>1, NoConnectionFacts, Constants DEF Held
  <2>2. \A d \in Client : (d # c => SocketsOf(d)' = SocketsOf(d)) /\ (Held(d)' <=> Held(d))
    BY <1>1, <2>1 DEF Held, SocketsOf
  <2>3. g # NoFd /\ f # NoFd
    BY <1>1, Constants
  <2> QED BY <1>1, <2>1, <2>2, <2>3 DEF SocketsOf
<1>3. /\ connections' = connections /\ socket' = socket /\ listening_fd' = listening_fd
      /\ accepted' = accepted /\ connections \subseteq Client
      /\ at.pc \notin {"setup", "insert", "try"} /\ at'.pc \notin {"setup", "insert"}
  BY DEF EventLoopInv, TypeOK
<1>4. OneDescriptorEach' /\ ListenerIsKnown'
  BY <1>3 DEF EventLoopInv, OneDescriptorEach, ListenerIsKnown
<1>5. SocketsAreKnown'
  <2>1. \A x \in Fd : socket[x] \in Sockets => socket[x][1] \in Client
    BY DEF Sockets
  <2>2. \A d \in Client : /\ InHand(d)' <=> InHand(d)
                          /\ conn'[d].next_candidate = conn[d].next_candidate
    BY <1>1, <1>2, <1>3 DEF InHand
  <2> QED BY <1>3, <2>1, <2>2 DEF EventLoopInv, SocketsAreKnown
<1>6. OpenIsOwned'
  BY <1>1, <1>2, <1>3 DEF EventLoopInv, OpenIsOwned, HasOwner, ClientSocket
<1>7. RetiredIsOpen' /\ WatchedIsOpen'
  BY <1>1, <1>3 DEF EventLoopInv, RetiredIsOpen, WatchedIsOpen
<1>8. NoFd \notin retired' /\ g \notin retired'
  BY <1>1, Constants DEF EventLoopInv, TypeOK
<1>9. ConnectionIsSound(c)'
  <2>1. ConnectionIsSound(c)
    BY <1>1 DEF EventLoopInv
  <2> QED BY <1>1, <1>2, <1>3, <1>8, <2>1 DEF ConnectionIsSound, valid
<1>10. ASSUME NEW d \in Client, d # c
       PROVE  ConnectionIsSound(d)'
  <2>1. \A x \in SocketsOf(d) : x # f /\ x \notin retired
    BY <1>1, <1>10, SocketsDiffer, SocketsAreTheirs
  <2>2. \A x \in SocketsOf(d) : x \notin retired' /\ (x \in watched => x \in watched')
    BY <2>1
  <2>3. ~BetweenAttempts(d)
    BY <1>3 DEF BetweenAttempts
  <2>4. conn'[d] = conn[d]
    BY <1>10
  <2> QED BY <1>3, <1>8, <2>2, <2>3, <2>4, OtherIsSound
<1>11. MapsAgree'
  <2>1. /\ DOMAIN fd_to_connection' = (DOMAIN fd_to_connection) \ (retired' \ retired)
        /\ \A x \in DOMAIN fd_to_connection' : fd_to_connection'[x] = fd_to_connection[x]
    BY <1>1 DEF Erase
  <2>2. MapsAgree
    BY DEF EventLoopInv
  <2>3. ASSUME NEW d \in connections', NEW x \in SocketsOf(d)'
        PROVE  x \in DOMAIN fd_to_connection'
    <3>1. d \in connections /\ d \in Client /\ x \in SocketsOf(d)
      BY <1>1, <1>2, <1>3
    <3>2. x \notin retired' \ retired
      BY <1>1, <1>2, <3>1, SocketsDiffer
    <3> QED BY <2>1, <2>2, <3>1, <3>2 DEF MapsAgree
  <2>4. ASSUME NEW x \in DOMAIN fd_to_connection'
        PROVE  \E d \in connections' :
                 fd_to_connection'[x] = d /\ x \in SocketsOf(d)' /\ socket'[x][1] = d
    <3>1. PICK d \in connections :
            fd_to_connection[x] = d /\ x \in SocketsOf(d) /\ socket[x][1] = d
      BY <2>1, <2>2 DEF MapsAgree
    <3>2. x \in SocketsOf(d)'
      BY <1>1, <1>2, <1>3, <2>1, <3>1
    <3> QED BY <1>3, <2>1, <3>1, <3>2
  <2> QED BY <2>3, <2>4 DEF MapsAgree
<1>12. EventsAreFresh'
  BY <1>3 DEF EventLoopInv, EventsAreFresh
<1> QED BY <1>4, <1>5, <1>6, <1>7, <1>9, <1>10, <1>11, <1>12 DEF EventLoopInv

\* Giving a connection up, from the batch or from the loop over the expired clients.
LEMMA AbandonKeepsInv ==
  ASSUME EventLoopInv, NEW c \in connections, NEW to \in {"dispatch", "expire"}, at.pc = to,
         Abandon(c, to), events' \subseteq events, draining' \in BOOLEAN,
         UNCHANGED <<listening_fd, next_backend_index, socket, worldVars>>
  PROVE  EventLoopInv'
<1>1. TypeOK /\ c \in Client
  BY DEF EventLoopInv, TypeOK
<1>2. /\ connections' = connections \ {c} /\ retired' = retired \cup SocketsOf(c)
      /\ fd_to_connection' = Erase(fd_to_connection, SocketsOf(c))
      /\ conn' = [conn EXCEPT ![c] = NoConnection]
      /\ UNCHANGED <<healthy, watched, arrived, accepted, signalled, signal_pending, drain_over>>
      /\ at' = [at EXCEPT !.pc = to, !.expired = @ \ {c}]
  BY DEF Abandon, retire_connection, worldVars
<1>3. /\ at' \in Position /\ at'.pc = to /\ at'.cur = at.cur /\ at'.back = at.back
      /\ at'.expired = at.expired \ {c}
  BY <1>1, <1>2 DEF TypeOK, Position
<1>4. TypeOK'
  <2>1. conn' \in [Client -> ConnectionRecord]
    BY <1>1, <1>2, NoConnectionFacts DEF TypeOK
  <2>2. SocketsOf(c) \subseteq Fd
    BY <1>1, SocketsAreTheirs
  <2>3. /\ DOMAIN fd_to_connection' \subseteq DOMAIN fd_to_connection
        /\ \A f \in DOMAIN fd_to_connection' : fd_to_connection'[f] = fd_to_connection[f]
    BY <1>2 DEF Erase
  <2> QED BY <1>1, <1>2, <1>3, <2>1, <2>2, <2>3 DEF TypeOK
<1>5. PlaceInLoop'
  <2>1. \A d \in connections' : d # c /\ d \in Client /\ conn'[d] = conn[d] /\ Held(d)'
    BY <1>1, <1>2 DEF TypeOK, EventLoopInv, PlaceInLoop, Held
  <2>2. \A d \in at'.expired : d \in connections' /\ conn'[d].state = "connecting"
    BY <1>2, <1>3, <2>1 DEF EventLoopInv, PlaceInLoop
  <2>3. /\ to = "expire" => events' = {}
        /\ at'.expired # {} => to = "expire"
    BY <1>3 DEF EventLoopInv, PlaceInLoop
  <2> QED BY <1>3, <2>1, <2>2, <2>3 DEF PlaceInLoop, Asleep
<1>6. at.pc \in {"dispatch", "try", "expire"} /\ at'.pc \in {"dispatch", "accept", "expire"}
  BY <1>3
<1>7. retire_connection(c) /\ UNCHANGED <<socket, listening_fd, accepted>>
  BY DEF Abandon, worldVars
<1> QED BY <1>2, <1>4, <1>5, <1>6, <1>7, RetireStep

LEMMA RetryKeepsInv ==
  ASSUME EventLoopInv, NEW c \in connections, NEW to \in {"dispatch", "expire"}, at.pc = to,
         conn[c].state = "connecting", retry_backend(c, to),
         events' \subseteq events, draining' \in BOOLEAN,
         UNCHANGED <<listening_fd, next_backend_index, socket, worldVars>>
  PROVE  EventLoopInv'
<1>1. CASE Abandon(c, to)
  BY <1>1, AbandonKeepsInv
<1> DEFINE f == conn[c].backend_fd
<1>2. CASE /\ watched' = watched \ {f} /\ fd_to_connection' = Erase(fd_to_connection, {f})
           /\ retired' = retired \cup {f}
           /\ conn' = [conn EXCEPT ![c].backend_fd = NoFd, ![c].connect = "none",
                                   ![c].late = FALSE]
           /\ healthy' = set_backend_health(healthy, CurrentBackend(c), FALSE)
           /\ at' = [at EXCEPT !.pc = "try", !.cur = c, !.back = to, !.expired = @ \ {c}]
           /\ UNCHANGED connections
  <2>1. /\ TypeOK /\ ~BetweenAttempts(c)
        /\ UNCHANGED <<arrived, accepted, signalled, signal_pending, drain_over>>
    BY DEF EventLoopInv, BetweenAttempts, worldVars
  <2>2. c \in Client /\ f \in Fd
    BY <2>1, WaitingFacts
  <2>3. /\ at' \in Position /\ at'.pc = "try" /\ at'.cur = c /\ at'.back = to
        /\ at'.expired = at.expired \ {c}
    BY <1>2, <2>1, <2>2 DEF TypeOK, Position
  <2>4. /\ conn'[c] \in ConnectionRecord
        /\ conn'[c].client_fd = conn[c].client_fd /\ conn'[c].candidates = conn[c].candidates
        /\ conn'[c].next_candidate = conn[c].next_candidate /\ conn'[c].state = "connecting"
        /\ conn'[c].backend_fd = NoFd
    <3>1. /\ conn[c] \in ConnectionRecord
          /\ conn'[c] = [conn[c] EXCEPT !.backend_fd = NoFd, !.connect = "none", !.late = FALSE]
      BY <1>2, <2>1, <2>2 DEF TypeOK
    <3> QED BY <3>1 DEF ConnectionRecord
  <2>5. conn' \in [Client -> ConnectionRecord] /\ \A d \in Client : d # c => conn'[d] = conn[d]
    BY <1>2, <2>1, <2>4 DEF TypeOK
  <2>6. TypeOK'
    <3>1. /\ DOMAIN fd_to_connection' \subseteq DOMAIN fd_to_connection
          /\ \A x \in DOMAIN fd_to_connection' : fd_to_connection'[x] = fd_to_connection[x]
      BY <1>2 DEF Erase
    <3>2. healthy' \subseteq Backend
      BY <1>2, <2>1 DEF TypeOK, set_backend_health
    <3> QED BY <1>2, <2>1, <2>2, <2>3, <2>5, <3>1, <3>2 DEF TypeOK
  <2>7. PlaceInLoop'
    <3>1. \A d \in connections' : d \in Client /\ Held(d)'
      <4>1. Held(c)'
        BY <2>4, NoConnectionFacts DEF Held
      <4> QED BY <1>2, <2>1, <2>5, <4>1 DEF TypeOK, EventLoopInv, PlaceInLoop, Held
    <3>2. \A d \in at'.expired : d \in connections' /\ conn'[d].state = "connecting"
      BY <1>2, <2>1, <2>3, <2>5 DEF EventLoopInv, PlaceInLoop, TypeOK
    <3>3. to = "expire" => events' = {}
      BY DEF EventLoopInv, PlaceInLoop
    <3>4. at'.expired # {} => to = "expire"
      BY <2>3 DEF EventLoopInv, PlaceInLoop
    <3>5. /\ at'.cur \in connections' /\ at'.back # "top" /\ at'.cur \notin at'.expired
          /\ conn'[at'.cur].state = "connecting" /\ ~valid(conn'[at'.cur].backend_fd)
      BY <1>2, <2>3, <2>4 DEF valid
    <3> QED BY <2>3, <3>1, <3>2, <3>3, <3>4, <3>5 DEF PlaceInLoop, Asleep
  <2>8. BetweenAttempts(c)'
    BY <2>3 DEF BetweenAttempts
  <2> QED BY <1>2, <2>1, <2>3, <2>4, <2>5, <2>6, <2>7, <2>8, WaitEnds
<1> QED BY <1>1, <1>2 DEF retry_backend, remove_write_event, MovedFrom

LEMMA HandleConnectedKeepsInv ==
  ASSUME EventLoopInv, NEW c \in connections, at.pc = "dispatch",
         conn[c].state = "connecting", HandleConnected(c),
         events' \subseteq events, draining' \in BOOLEAN,
         UNCHANGED <<listening_fd, next_backend_index, socket, worldVars>>
  PROVE  EventLoopInv'
<1> DEFINE f == conn[c].backend_fd
<1>1. /\ TypeOK /\ ~BetweenAttempts(c)
      /\ UNCHANGED <<arrived, accepted, signalled, signal_pending, drain_over>>
  BY DEF EventLoopInv, BetweenAttempts, worldVars
<1>2. c \in Client /\ f \in Fd /\ f \in SocketsOf(c) /\ CurrentBackend(c) \in Backend
  BY <1>1, WaitingFacts
<1>3. watched' = watched \ {f} /\ at' = at
  BY DEF HandleConnected, remove_write_event
<1>4. CASE /\ conn' = [conn EXCEPT ![c].state = "established", ![c].connect = "none"]
           /\ healthy' = set_backend_health(healthy, CurrentBackend(c), TRUE)
           /\ UNCHANGED <<connections, fd_to_connection, retired>>
  <2>1. /\ conn'[c] \in ConnectionRecord
        /\ conn'[c].client_fd = conn[c].client_fd /\ conn'[c].candidates = conn[c].candidates
        /\ conn'[c].next_candidate = conn[c].next_candidate /\ conn'[c].state = "established"
        /\ conn'[c].backend_fd = conn[c].backend_fd
    <3>1. /\ conn[c] \in ConnectionRecord
          /\ conn'[c] = [conn[c] EXCEPT !.state = "established", !.connect = "none"]
      BY <1>1, <1>2, <1>4 DEF TypeOK
    <3> QED BY <3>1 DEF ConnectionRecord
  <2>2. conn' \in [Client -> ConnectionRecord] /\ \A d \in Client : d # c => conn'[d] = conn[d]
    BY <1>1, <1>4, <2>1 DEF TypeOK
  <2>3. TypeOK'
    <3>1. healthy' \subseteq Backend
      BY <1>1, <1>2, <1>4 DEF TypeOK, set_backend_health
    <3> QED BY <1>1, <1>3, <1>4, <2>2, <3>1 DEF TypeOK
  <2>4. PlaceInLoop'
    <3>1. \A d \in connections' : d \in Client /\ Held(d)'
      <4>1. Held(c)'
        BY <2>1, NoConnectionFacts DEF Held
      <4> QED BY <1>1, <1>4, <2>2, <4>1 DEF TypeOK, EventLoopInv, PlaceInLoop, Held
    <3> QED BY <1>3, <1>4, <3>1 DEF EventLoopInv, PlaceInLoop, Asleep
  <2> QED BY <1>1, <1>3, <1>4, <2>1, <2>2, <2>3, <2>4, WaitEnds
<1>5. CASE retire_connection(c) /\ UNCHANGED healthy
  <2>1. TypeOK'
    <3>1. conn' \in [Client -> ConnectionRecord]
      BY <1>1, <1>5, NoConnectionFacts DEF TypeOK, retire_connection
    <3>2. SocketsOf(c) \subseteq Fd
      BY <1>2, SocketsAreTheirs
    <3>3. /\ DOMAIN fd_to_connection' \subseteq DOMAIN fd_to_connection
          /\ \A x \in DOMAIN fd_to_connection' : fd_to_connection'[x] = fd_to_connection[x]
      BY <1>5 DEF Erase, retire_connection
    <3> QED BY <1>1, <1>3, <1>5, <3>1, <3>2, <3>3 DEF TypeOK, retire_connection
  <2>2. PlaceInLoop'
    <3>1. \A d \in connections' : d # c /\ d \in Client /\ conn'[d] = conn[d] /\ Held(d)'
      BY <1>1, <1>2, <1>5 DEF TypeOK, EventLoopInv, PlaceInLoop, Held, retire_connection
    <3> QED BY <1>3, <3>1 DEF EventLoopInv, PlaceInLoop, Asleep
  <2> QED BY <1>1, <1>2, <1>3, <1>5, <2>1, <2>2, RetireStep
<1> QED BY <1>4, <1>5 DEF HandleConnected

\* The relay ends.
LEMMA RelayEndKeepsInv ==
  ASSUME EventLoopInv, NEW c \in connections, at.pc = "dispatch",
         retire_connection(c), UNCHANGED <<at, healthy, watched>>,
         events' \subseteq events, draining' \in BOOLEAN,
         UNCHANGED <<listening_fd, next_backend_index, socket, worldVars>>
  PROVE  EventLoopInv'
<1>1. TypeOK /\ c \in Client
  BY DEF EventLoopInv, TypeOK
<1>2. TypeOK'
  <2>1. conn' \in [Client -> ConnectionRecord]
    BY <1>1, NoConnectionFacts DEF TypeOK, retire_connection
  <2>2. SocketsOf(c) \subseteq Fd
    BY <1>1, SocketsAreTheirs
  <2>3. /\ DOMAIN fd_to_connection' \subseteq DOMAIN fd_to_connection
        /\ \A x \in DOMAIN fd_to_connection' : fd_to_connection'[x] = fd_to_connection[x]
    BY DEF Erase, retire_connection
  <2> QED BY <1>1, <2>1, <2>2, <2>3 DEF TypeOK, retire_connection, worldVars
<1>3. PlaceInLoop'
  <2>1. \A d \in connections' : d # c /\ d \in Client /\ conn'[d] = conn[d] /\ Held(d)'
    BY <1>1 DEF TypeOK, EventLoopInv, PlaceInLoop, Held, retire_connection
  <2> QED BY <2>1 DEF EventLoopInv, PlaceInLoop, Asleep
<1> QED BY <1>2, <1>3, RetireStep DEF worldVars

\* A notification that changes no connection.
LEMMA IdleEventKeepsInv ==
  ASSUME EventLoopInv, at.pc = "dispatch", UNCHANGED <<connVars, healthy, watched>>,
         at' = at \/ at' = [at EXCEPT !.pc = "accept", !.accepts = 0],
         events' \subseteq events, draining' \in BOOLEAN,
         UNCHANGED <<listening_fd, next_backend_index, socket, worldVars>>
  PROVE  EventLoopInv'
<1>1. TypeOK
  BY DEF EventLoopInv
<1>2. /\ at' \in Position /\ at'.pc \in {"dispatch", "accept"} /\ at'.cur = at.cur
      /\ at'.back = at.back /\ at'.expired = at.expired
  <2>1. at \in Position /\ 0 \in 0 .. MaxEvents
    BY <1>1, Constants DEF TypeOK
  <2>2. CASE at' = at
    BY <2>1, <2>2
  <2>3. CASE at' = [at EXCEPT !.pc = "accept", !.accepts = 0]
    BY <2>1, <2>3 DEF Position
  <2> QED BY <2>2, <2>3
<1>3. TypeOK'
  BY <1>1, <1>2 DEF TypeOK, connVars, worldVars
<1>4. EventsAreFresh'
  BY <1>2 DEF EventLoopInv, EventsAreFresh
<1>5. PlaceInLoop'
  BY <1>2 DEF EventLoopInv, PlaceInLoop, Asleep, Held, connVars
<1> QED BY <1>2, <1>3, <1>4, <1>5, QuietStep DEF worldVars

LEMMA HandleEventKeepsInv ==
  ASSUME EventLoopInv, HandleEvent
  PROVE  EventLoopInv'
<1>1. PICK e \in events : /\ events' = events \ {e}
                          /\ HandleSignal(e) \/ HandleListener(e) \/ HandleSocket(e)
  BY DEF HandleEvent
<1>2. /\ at.pc = "dispatch" /\ UNCHANGED <<listening_fd, next_backend_index, socket, worldVars>>
      /\ events' \subseteq events /\ TypeOK
  BY <1>1 DEF HandleEvent, EventLoopInv
<1>3. draining' \in BOOLEAN
  BY <1>1, <1>2 DEF HandleSignal, HandleListener, HandleSocket, Observe, observe_shutdown, TypeOK
<1>4. CASE HandleSignal(e)
  BY <1>2, <1>3, <1>4, IdleEventKeepsInv DEF HandleSignal, Skip
<1>5. CASE HandleListener(e)
  BY <1>2, <1>3, <1>5, IdleEventKeepsInv DEF HandleListener, Skip
<1>6. CASE HandleSocket(e)
  <2>1. CASE Skip
    BY <1>2, <1>3, <2>1, IdleEventKeepsInv DEF Skip
  <2>2. CASE ~Skip
    <3>1. PICK c : /\ e.fd \in DOMAIN fd_to_connection /\ c = fd_to_connection[e.fd]
                   /\ HandleRelay(c) \/ HandleConnecting(e, c)
      BY <1>6, <2>2 DEF HandleSocket
    <3>2. c \in connections
      BY <3>1 DEF EventLoopInv, MapsAgree
    <3>3. CASE HandleRelay(c)
      BY <1>2, <1>3, <2>2, <3>2, <3>3, RelayEndKeepsInv DEF HandleRelay
    <3>4. CASE HandleConnecting(e, c)
      <4>1. conn[c].state = "connecting" /\ (retry_backend(c, "dispatch") \/ HandleConnected(c))
        BY <2>2, <3>4 DEF HandleConnecting
      <4>2. CASE retry_backend(c, "dispatch")
        BY <1>2, <1>3, <3>2, <4>1, <4>2, RetryKeepsInv
      <4>3. CASE HandleConnected(c)
        BY <1>2, <1>3, <3>2, <4>1, <4>3, HandleConnectedKeepsInv
      <4> QED BY <4>1, <4>2, <4>3
    <3> QED BY <3>1, <3>3, <3>4
  <2> QED BY <2>1, <2>2
<1> QED BY <1>1, <1>4, <1>5, <1>6

-----------------------------------------------------------------------------
(* The end of a batch.                                                     *)

LEMMA EndBatchKeepsInv ==
  ASSUME EventLoopInv, EndBatch
  PROVE  EventLoopInv'
<1>1. /\ TypeOK /\ at.pc = "dispatch" /\ draining' \in BOOLEAN /\ ResetListener /\ events' = {}
      /\ UNCHANGED <<connVars, healthVars, watched, worldVars>>
      /\ at' = [at EXCEPT !.pc = "expire", !.expired = Late]
  BY DEF EventLoopInv, EndBatch, Observe, observe_shutdown, TypeOK
<1>2. Late \subseteq Client /\ \A c \in Late : c \in connections /\ conn[c].state = "connecting"
  BY <1>1 DEF Late, Connecting, TypeOK
<1>3. /\ at' \in Position /\ at'.pc = "expire" /\ at'.cur = at.cur /\ at'.back = at.back
      /\ at'.expired = Late
  BY <1>1, <1>2 DEF TypeOK, Position
<1>4. PlaceInLoop'
  BY <1>1, <1>2, <1>3 DEF EventLoopInv, PlaceInLoop, Asleep, Held, connVars
<1> QED BY <1>1, <1>3, <1>4, ResetKeepsInv

LEMMA ExpireKeepsInv ==
  ASSUME EventLoopInv, Expire
  PROVE  EventLoopInv'
<1>1. /\ at.pc = "expire" /\ draining' \in BOOLEAN /\ events' \subseteq events
      /\ UNCHANGED <<listening_fd, next_backend_index, socket, worldVars>>
  BY DEF Expire, EventLoopInv, Observe, observe_shutdown, TypeOK
<1>2. PICK c \in at.expired : retry_backend(c, "expire")
  BY DEF Expire
<1>3. c \in connections /\ conn[c].state = "connecting"
  BY <1>2 DEF EventLoopInv, PlaceInLoop
<1> QED BY <1>1, <1>2, <1>3, RetryKeepsInv

\* What was put aside belongs to no connection, and no notification waits.
LEMMA ReleaseKeepsInv ==
  ASSUME EventLoopInv, ReleaseRetired
  PROVE  EventLoopInv'
<1>1. /\ TypeOK /\ at.pc = "expire" /\ events = {} /\ connections \subseteq Client
      /\ socket' = Close(retired) /\ watched' = watched \ retired /\ retired' = {}
      /\ at' = [at EXCEPT !.pc = "top", !.expired = {}]
      /\ UNCHANGED <<conn, connections, fd_to_connection, draining, listening_fd, events,
                     healthy, next_backend_index, arrived, accepted, signalled, signal_pending,
                     drain_over>>
  BY DEF EventLoopInv, ReleaseRetired, PlaceInLoop, Asleep, TypeOK, healthVars, worldVars
<1>2. /\ at' \in Position /\ at'.pc = "top" /\ at'.cur = at.cur /\ at'.back = at.back
      /\ at'.expired = {}
  BY <1>1 DEF TypeOK, Position
<1>3. /\ socket' \in [Fd -> Sockets \cup {Closed, Listener}]
      /\ \A f \in Fd : f \in retired => socket'[f] = Closed
      /\ \A f \in Fd : f \notin retired => socket'[f] = socket[f]
  BY <1>1 DEF TypeOK, Close
<1>4. TypeOK'
  BY <1>1, <1>2, <1>3 DEF TypeOK
<1>5. OneDescriptorEach' /\ SocketsAreKnown'
  <2>1. OneDescriptorEach'
    BY <1>3 DEF EventLoopInv, OneDescriptorEach
  <2>2. \A c \in Client : InHand(c)' => InHand(c)
    BY <1>1, <1>2 DEF InHand, Held
  <2>3. \A f \in Fd : socket[f] \in Sockets => socket[f][1] \in Client
    BY DEF Sockets
  <2>4. SocketsAreKnown'
    BY <1>1, <1>3, <2>2, <2>3, Constants DEF EventLoopInv, SocketsAreKnown
  <2> QED BY <2>1, <2>4
<1>6. ListenerIsKnown'
  BY <1>1, <1>3, Constants DEF EventLoopInv, ListenerIsKnown, RetiredIsOpen
<1>7. OpenIsOwned'
  BY <1>1, <1>2, <1>3 DEF EventLoopInv, OpenIsOwned, HasOwner, ClientSocket, SocketsOf
<1>8. RetiredIsOpen' /\ WatchedIsOpen'
  BY <1>1, <1>3 DEF EventLoopInv, RetiredIsOpen, WatchedIsOpen, TypeOK
<1>9. ASSUME NEW c \in Client
      PROVE  ConnectionIsSound(c)'
  <2>1. \A f \in SocketsOf(c) : f \in Fd /\ f \notin retired
    BY SocketsAreTheirs
  <2>2. ~BetweenAttempts(c)
    BY <1>1 DEF BetweenAttempts
  <2> QED BY <1>1, <1>3, <2>1, <2>2, OtherIsSound
<1>10. MapsAgree'
  <2>1. \A c \in Client : \A f \in SocketsOf(c) : f \in Fd /\ f \notin retired
    BY SocketsAreTheirs
  <2> QED BY <1>1, <1>3, <2>1 DEF EventLoopInv, MapsAgree, SocketsOf
<1>11. EventsAreFresh'
  BY <1>1 DEF EventsAreFresh
<1>12. PlaceInLoop'
  BY <1>1, <1>2 DEF EventLoopInv, PlaceInLoop, Asleep, Held
<1> QED BY <1>4, <1>5, <1>6, <1>7, <1>8, <1>9, <1>10, <1>11, <1>12 DEF EventLoopInv

-----------------------------------------------------------------------------
(* The accept loop.                                                        *)

\* There are at least as many descriptors as sockets: when one socket is not open, the
\* kernel still has a descriptor for it.
LEMMA ADescriptorIsFree ==
  ASSUME EventLoopInv, NEW new \in Sockets, \A f \in Fd : socket[f] # new
  PROVE  NewFd \in Fd /\ socket[NewFd] = Closed
<1>1. \E f \in Fd : socket[f] = Closed
  <2>1. SUFFICES ASSUME \A f \in Fd : socket[f] # Closed
                 PROVE  FALSE
    OBVIOUS
  <2> DEFINE others == (Sockets \ {new}) \cup {Listener}
  <2>2. IsFiniteSet(others) /\ Cardinality(others) = Cardinality(Sockets)
    <3>1. IsFiniteSet(Sockets) /\ Cardinality(Sockets) \in Nat /\ new \in Sockets
      BY SocketCount
    <3>2. IsFiniteSet(Sockets \ {new}) /\ Cardinality(Sockets \ {new}) = Cardinality(Sockets) - 1
      BY <3>1, FS_RemoveElement
    <3>3. Listener \notin Sockets \ {new}
      BY Constants
    <3>4. /\ IsFiniteSet((Sockets \ {new}) \cup {Listener})
          /\ Cardinality((Sockets \ {new}) \cup {Listener}) = Cardinality(Sockets \ {new}) + 1
      BY <3>2, <3>3, FS_AddElement
    <3> QED BY <3>1, <3>2, <3>4
  <2>3. socket \in Injection(Fd, others)
    <3>1. socket \in [Fd -> others]
      BY <2>1 DEF EventLoopInv, TypeOK
    <3>2. \A f, g \in Fd : socket[f] = socket[g] => f = g
      BY <2>1 DEF EventLoopInv, OneDescriptorEach
    <3> HIDE DEF others
    <3> QED BY <3>1, <3>2 DEF Injection, IsInjective
  <2> HIDE DEF others
  <2>4. Cardinality(Fd) <= Cardinality(others)
    BY <2>2, <2>3, FS_Injection
  <2>5. Cardinality(Fd) = MaxFd
    <3>1. MaxFd \in Nat /\ 1 <= MaxFd
      BY SocketCount
    <3>2. Cardinality(1 .. MaxFd) = IF 1 > MaxFd THEN 0 ELSE MaxFd - 1 + 1
      BY <3>1, FS_Interval
    <3> QED BY <3>1, <3>2 DEF Fd
  <2> QED BY <2>2, <2>4, <2>5, SocketCount
<1> DEFINE free == {f \in Fd : socket[f] = Closed}
<1>2. free \in SUBSET Nat /\ free # {}
  BY <1>1 DEF Fd
<1>3. PICK f \in free : \A g \in free : f <= g
  BY <1>2, LeastElement
<1>4. f \in Fd /\ socket[f] = Closed /\ \A g \in 1 .. f - 1 : socket[g] # Closed
  <2>1. ASSUME NEW g \in 1 .. f - 1
        PROVE  g \in Fd /\ ~(f <= g)
    <3>1. f \in Fd /\ MaxFd \in Nat
      BY SocketCount
    <3> HIDE DEF free
    <3> QED BY <3>1 DEF Fd
  <2> QED BY <1>3, <2>1
<1> QED BY <1>4 DEF NewFd

LEMMA AcceptEndsKeepsInv ==
  ASSUME EventLoopInv, AcceptEnds
  PROVE  EventLoopInv'
<1>1. /\ TypeOK /\ at.pc = "accept" /\ draining' \in BOOLEAN
      /\ UNCHANGED <<connVars, listening_fd, events, healthVars, socket, watched, worldVars>>
      /\ at' = [at EXCEPT !.pc = "dispatch", !.cur = 0, !.accepts = 0]
  BY DEF EventLoopInv, AcceptEnds, Observe, observe_shutdown, TypeOK, StopAccepting
<1>2. /\ at' \in Position /\ at'.pc = "dispatch" /\ at'.back = at.back /\ at'.expired = at.expired
  <2>1. at \in Position /\ 0 \in 0 .. MaxEvents
    BY <1>1, Constants DEF TypeOK
  <2> QED BY <1>1, <2>1 DEF Position
<1>3. TypeOK'
  BY <1>1, <1>2 DEF TypeOK, connVars, healthVars, worldVars
<1>4. EventsAreFresh'
  BY <1>1, <1>2 DEF EventLoopInv, EventsAreFresh
<1>5. PlaceInLoop'
  BY <1>1, <1>2 DEF EventLoopInv, PlaceInLoop, Asleep, Held, connVars
<1> QED BY <1>1, <1>2, <1>3, <1>4, <1>5, QuietStep DEF worldVars

LEMMA AcceptClientKeepsInv ==
  ASSUME EventLoopInv, AcceptClient
  PROVE  EventLoopInv'
<1>1. PICK c : c = accepted + 1
  OBVIOUS
<1>2. PICK n : n = NewFd
  OBVIOUS
<1>3. /\ TypeOK /\ at.pc = "accept" /\ draining' \in BOOLEAN /\ accepted < arrived
      /\ at.accepts < MaxEvents /\ accepted' = c
      /\ socket' = [socket EXCEPT ![n] = <<c, 0>>]
      /\ at' = [at EXCEPT !.pc = "setup", !.cur = c, !.accepts = @ + 1]
      /\ UNCHANGED <<conn, connections, fd_to_connection, retired, listening_fd, events, healthy,
                     next_backend_index, watched, arrived, signalled, signal_pending, drain_over>>
  BY <1>1, <1>2 DEF EventLoopInv, AcceptClient, Observe, observe_shutdown, TypeOK, connVars,
                    healthVars
<1>4. c \in Client /\ accepted' \in 0 .. arrived /\ accepted \in Nat /\ c > accepted
  BY <1>1, <1>3, Constants DEF TypeOK, Client
<1>5. 0 \in 0 .. NumBackends /\ \A f \in Fd, k \in 0 .. NumBackends : socket[f] # <<c, k>>
  BY <1>3, <1>4, Constants DEF EventLoopInv, SocketsAreKnown
<1>6. <<c, 0>> \in Sockets /\ \A f \in Fd : socket[f] # <<c, 0>>
  BY <1>4, <1>5, Constants
<1>7. n \in Fd /\ socket[n] = Closed
  BY <1>2, <1>6, ADescriptorIsFree
<1>8. ~Held(c)
  <2>1. Held(c) => conn[c].client_fd \in Fd /\ socket[conn[c].client_fd] = <<c, 0>>
    BY <1>4 DEF EventLoopInv, ConnectionIsSound
  <2> QED BY <1>6, <2>1
<1>9. /\ at' \in Position /\ at'.pc = "setup" /\ at'.cur = c /\ at'.back = at.back
      /\ at'.expired = at.expired
  <2>1. at \in Position /\ at.accepts + 1 \in 0 .. MaxEvents
    BY <1>3, Constants, AtTypes DEF TypeOK
  <2> QED BY <1>3, <1>4, <2>1 DEF Position
<1>10. /\ socket' \in [Fd -> Sockets \cup {Closed, Listener}]
      /\ socket'[n] = <<c, 0>> /\ \A f \in Fd : f # n => socket'[f] = socket[f]
  BY <1>3, <1>6, <1>7 DEF TypeOK
<1>11. TypeOK'
  BY <1>3, <1>4, <1>9, <1>10 DEF TypeOK
<1>12. OneDescriptorEach'
  BY <1>6, <1>10 DEF EventLoopInv, OneDescriptorEach
<1>13. SocketsAreKnown'
  <2>1. ASSUME NEW f \in Fd, NEW d \in Client, NEW k \in 0 .. NumBackends, socket'[f] = <<d, k>>
        PROVE  d <= accepted' /\ (InHand(d)' => k <= conn'[d].next_candidate)
    <3>1. CASE f = n
      <4>1. d = c /\ k = 0 /\ c <= accepted'
        BY <1>3, <1>4, <1>10, <2>1, <3>1
      <4>2. conn'[c].next_candidate = 0
        BY <1>3, <1>8, NoConnectionFacts DEF Held
      <4> QED BY <4>1, <4>2
    <3>2. CASE f # n
      <4>1. socket[f] = <<d, k>> /\ d # c
        BY <1>5, <1>10, <2>1, <3>2
      <4>2. d <= accepted /\ (InHand(d) => k <= conn[d].next_candidate)
        BY <4>1 DEF EventLoopInv, SocketsAreKnown
      <4>3. d <= accepted'
        BY <1>1, <1>3, <1>4, <4>2 DEF Client
      <4>4. InHand(d)' => InHand(d)
        BY <1>3, <1>9, <4>1 DEF InHand, Held
      <4> QED BY <1>3, <4>2, <4>3, <4>4
    <3> QED BY <3>1, <3>2
  <2> QED BY <2>1 DEF SocketsAreKnown
<1>14. ListenerIsKnown'
  BY <1>3, <1>4, <1>6, <1>7, <1>10, Constants DEF EventLoopInv, ListenerIsKnown
<1>15. OpenIsOwned'
  BY <1>3, <1>9, <1>10 DEF EventLoopInv, OpenIsOwned, HasOwner, ClientSocket, SocketsOf
<1>16. n \notin retired /\ n \notin watched
  BY <1>7, Constants DEF EventLoopInv, RetiredIsOpen, WatchedIsOpen
<1>17. RetiredIsOpen' /\ WatchedIsOpen'
  BY <1>3, <1>10, <1>16 DEF EventLoopInv, RetiredIsOpen, WatchedIsOpen, TypeOK
<1>18. \A d \in Client : \A f \in SocketsOf(d) : f \in Fd /\ f # n
  BY <1>7, SocketsAreTheirs, Constants
<1>19. ASSUME NEW d \in Client
       PROVE  ConnectionIsSound(d)'
  <2>1. ~BetweenAttempts(d)
    BY <1>3 DEF BetweenAttempts
  <2>2. \A f \in SocketsOf(d) : /\ socket'[f] = socket[f] /\ f \notin retired'
                                /\ f \in watched => f \in watched'
    BY <1>3, <1>10, <1>18, SocketsAreTheirs
  <2> QED BY <1>3, <2>1, <2>2, Constants, OtherIsSound DEF EventLoopInv, TypeOK
<1>20. MapsAgree'
  <2>1. connections \subseteq Client
    BY <1>3 DEF TypeOK
  <2> QED BY <1>3, <1>10, <1>18, <2>1 DEF EventLoopInv, MapsAgree, SocketsOf
<1>21. EventsAreFresh'
  BY <1>3, <1>6, <1>7, <1>9, <1>10 DEF EventLoopInv, EventsAreFresh
<1>22. PlaceInLoop'
  <2>1. ~Held(c)' /\ n \in Fd \ retired' /\ socket'[n] = <<c, 0>>
    BY <1>3, <1>7, <1>8, <1>10, <1>16 DEF Held
  <2> QED BY <1>3, <1>4, <1>9, <2>1 DEF EventLoopInv, PlaceInLoop, Asleep, Held
<1> QED BY <1>11, <1>12, <1>13, <1>14, <1>15, <1>17, <1>19, <1>20, <1>21, <1>22 DEF EventLoopInv

\* The one socket of the client that is being accepted.
LEMMA AcceptedSocket ==
  ASSUME EventLoopInv, at.pc \in {"setup", "insert"}
  PROVE  /\ at.cur \in Client \ connections /\ \A d \in Client : d # at.cur => ~BetweenAttempts(d)
         /\ \E g \in Fd \ retired : /\ socket[g] = <<at.cur, 0>> /\ socket[g] \in Sockets
                                    /\ ClientSocket \cup SocketsOf(at.cur) = {g}
                                    /\ at.pc = "setup" => ClientSocket = {g}
                                    /\ at.pc = "insert" => conn[at.cur].client_fd = g
<1>1. TypeOK /\ PlaceInLoop /\ OneDescriptorEach
  BY DEF EventLoopInv
<1>2. CASE at.pc = "setup"
  <2>1. /\ at.cur \in Client /\ ~Held(at.cur) /\ \A d \in connections : Held(d)
        /\ \E g \in Fd \ retired : socket[g] = <<at.cur, 0>>
    BY <1>1, <1>2 DEF PlaceInLoop
  <2>2. PICK g \in Fd \ retired : socket[g] = <<at.cur, 0>>
    BY <2>1
  <2>3. socket[g] # Closed /\ socket[g] \in Sockets
    BY <2>1, <2>2, Constants
  <2>4. ClientSocket = {g}
    BY <1>1, <1>2, <2>2, <2>3 DEF ClientSocket, OneDescriptorEach
  <2>5. SocketsOf(at.cur) = {}
    BY <2>1, NoConnectionFacts DEF Held, SocketsOf
  <2> QED BY <1>2, <2>1, <2>2, <2>3, <2>4, <2>5 DEF BetweenAttempts
<1>3. CASE at.pc = "insert"
  <2>1. /\ at.cur \in Client \ connections /\ Held(at.cur) /\ conn[at.cur].backend_fd = NoFd
    BY <1>1, <1>3 DEF PlaceInLoop, valid
  <2> DEFINE g == conn[at.cur].client_fd
  <2>2. g \in Fd /\ g \notin retired /\ socket[g] = <<at.cur, 0>>
    BY <2>1 DEF EventLoopInv, ConnectionIsSound
  <2>3. ClientSocket = {} /\ SocketsOf(at.cur) = {g} /\ socket[g] \in Sockets
    BY <1>3, <2>1, <2>2, Constants DEF ClientSocket, SocketsOf
  <2> QED BY <1>3, <2>1, <2>2, <2>3 DEF BetweenAttempts
<1> QED BY <1>2, <1>3

LEMMA DropClientKeepsInv ==
  ASSUME EventLoopInv, DropClient
  PROVE  EventLoopInv'
<1>1. PICK c : c = at.cur
  OBVIOUS
<1>2. /\ TypeOK /\ at.pc \in {"setup", "insert"} /\ draining' \in BOOLEAN
      /\ socket' = Close(UNION {ClosedByDestructor(f) : f \in ClientSocket \cup SocketsOf(c)})
      /\ conn' = [conn EXCEPT ![c] = NoConnection]
      /\ \/ at' = [at EXCEPT !.pc = "dispatch", !.cur = 0, !.accepts = 0]
         \/ at' = [at EXCEPT !.pc = "accept", !.cur = 0]
      /\ UNCHANGED <<connections, fd_to_connection, retired, listening_fd, events, healthy,
                     next_backend_index, watched, arrived, accepted, signalled, signal_pending,
                     drain_over>>
  BY <1>1 DEF EventLoopInv, DropClient, Observe, observe_shutdown, TypeOK, healthVars, worldVars,
              StopAccepting
<1>3. c \in Client \ connections /\ \A d \in Client : d # c => ~BetweenAttempts(d)
  BY <1>1, <1>2, AcceptedSocket
<1>4. PICK g \in Fd \ retired : /\ socket[g] = <<c, 0>> /\ socket[g] \in Sockets
                                /\ ClientSocket \cup SocketsOf(c) = {g}
  BY <1>1, <1>2, AcceptedSocket
<1>5. /\ at' \in Position /\ at'.pc \in {"dispatch", "accept"} /\ at'.back = at.back
      /\ at'.expired = at.expired
  <2>1. at \in Position /\ 0 \in 0 .. MaxEvents
    BY <1>2, Constants DEF TypeOK
  <2> QED BY <1>2, <2>1 DEF Position
<1>6. /\ socket' \in [Fd -> Sockets \cup {Closed, Listener}]
      /\ socket'[g] = Closed /\ \A f \in Fd : f # g => socket'[f] = socket[f]
  <2>1. ClosedByDestructor(g) = {g}
    BY <1>4, Constants DEF ClosedByDestructor, ClosedByReset, valid
  <2>2. UNION {ClosedByDestructor(f) : f \in {g}} = {g}
    BY <2>1
  <2> QED BY <1>2, <1>4, <2>2 DEF TypeOK, Close
<1>7. /\ conn' \in [Client -> ConnectionRecord] /\ conn'[c] = NoConnection /\ ~Held(c)'
      /\ \A d \in Client : d # c => conn'[d] = conn[d]
  BY <1>2, <1>3, NoConnectionFacts DEF TypeOK, Held
<1>8. TypeOK'
  BY <1>2, <1>5, <1>6, <1>7 DEF TypeOK
<1>9. OneDescriptorEach'
  BY <1>6 DEF EventLoopInv, OneDescriptorEach
<1>10. SocketsAreKnown'
  <2>1. \A d \in Client : InHand(d)' => InHand(d) /\ conn'[d] = conn[d]
    BY <1>5, <1>7 DEF InHand, Held
  <2>2. ASSUME NEW f \in Fd, NEW d \in Client, NEW k \in 0 .. NumBackends, socket'[f] = <<d, k>>
        PROVE  d <= accepted' /\ (InHand(d)' => k <= conn'[d].next_candidate)
    <3>1. f # g
      BY <1>6, <2>2, Constants
    <3>2. socket[f] = <<d, k>>
      BY <1>6, <2>2, <3>1
    <3>3. d <= accepted /\ (InHand(d) => k <= conn[d].next_candidate)
      BY <3>2 DEF EventLoopInv, SocketsAreKnown
    <3> QED BY <1>2, <2>1, <3>3
  <2> QED BY <2>2 DEF SocketsAreKnown
<1>11. ListenerIsKnown'
  BY <1>2, <1>4, <1>6, Constants DEF EventLoopInv, ListenerIsKnown
<1>12. OpenIsOwned'
  <2>1. \A d \in Client : d # c => SocketsOf(d)' = SocketsOf(d)
    BY <1>7 DEF SocketsOf
  <2> QED BY <1>2, <1>4, <1>6, <2>1 DEF EventLoopInv, OpenIsOwned, HasOwner
<1>13. g \notin watched
  BY <1>4 DEF EventLoopInv, WatchedIsOpen
<1>14. RetiredIsOpen' /\ WatchedIsOpen'
  BY <1>2, <1>4, <1>6, <1>13 DEF EventLoopInv, RetiredIsOpen, WatchedIsOpen, TypeOK
<1>15. \A d \in Client : d # c => \A f \in SocketsOf(d) : f \in Fd /\ f # g /\ f \notin retired
  BY <1>4, SocketsAreTheirs
<1>16. ASSUME NEW d \in Client
       PROVE  ConnectionIsSound(d)'
  <2>1. CASE d = c
    BY <1>7, <2>1 DEF ConnectionIsSound, Held
  <2>2. CASE d # c
    <3>1. ConnectionIsSound(d) /\ ~BetweenAttempts(d) /\ (Held(d)' <=> Held(d)) /\ conn'[d] = conn[d]
      BY <1>3, <1>7, <2>2 DEF EventLoopInv, Held
    <3>2. Held(d) => /\ conn[d].client_fd \in SocketsOf(d)
                     /\ valid(conn[d].backend_fd) => conn[d].backend_fd \in SocketsOf(d)
      BY <3>1, Constants DEF ConnectionIsSound, SocketsOf, valid
    <3>3. ~(at.pc = "insert" /\ d = at.cur)
      BY <1>1, <2>2
    <3> QED BY <1>2, <1>6, <1>15, <2>2, <3>1, <3>2, <3>3 DEF ConnectionIsSound
  <2> QED BY <2>1, <2>2
<1>17. MapsAgree'
  <2>1. \A d \in connections : d \in Client /\ d # c /\ SocketsOf(d)' = SocketsOf(d)
    BY <1>2, <1>3, <1>7 DEF TypeOK, SocketsOf
  <2> QED BY <1>2, <1>6, <1>15, <2>1 DEF EventLoopInv, MapsAgree
<1>18. EventsAreFresh'
  <2>1. \A e \in events : e.kind # "signal" => e.fd # g
    BY <1>1, <1>2, <1>4 DEF EventLoopInv, EventsAreFresh
  <2> QED BY <1>2, <1>5, <1>6, <2>1 DEF EventLoopInv, EventsAreFresh
<1>19. PlaceInLoop'
  <2>1. at.expired = {} /\ \A d \in connections : d \in Client /\ d # c /\ (Held(d)' <=> Held(d))
    BY <1>2, <1>3, <1>7 DEF TypeOK, Held, EventLoopInv, PlaceInLoop
  <2> QED BY <1>2, <1>5, <2>1 DEF EventLoopInv, PlaceInLoop, Asleep
<1> QED BY <1>8, <1>9, <1>10, <1>11, <1>12, <1>14, <1>16, <1>17, <1>18, <1>19 DEF EventLoopInv

LEMMA SetupClientKeepsInv ==
  ASSUME EventLoopInv, SetupClient
  PROVE  EventLoopInv'
<1>1. PICK c : c = at.cur
  OBVIOUS
<1>2. /\ TypeOK /\ at.pc = "setup" /\ draining' \in BOOLEAN /\ at' = [at EXCEPT !.pc = "insert"]
      /\ next_backend_index' = NextIndex(next_backend_index)
      /\ UNCHANGED <<connections, fd_to_connection, retired, listening_fd, events, healthy, socket,
                     watched, arrived, accepted, signalled, signal_pending, drain_over>>
  BY DEF EventLoopInv, SetupClient, Observe, observe_shutdown, TypeOK, worldVars, Goto
<1>3. c \in Client \ connections /\ ~Held(c)
  BY <1>1, <1>2, AcceptedSocket DEF EventLoopInv, PlaceInLoop
<1>4. PICK g \in Fd \ retired : socket[g] = <<c, 0>> /\ ClientSocket = {g}
  BY <1>1, <1>2, AcceptedSocket
<1>5. PICK order : order = backend_candidates(next_backend_index, healthy)
  OBVIOUS
<1>6. order \in Seq(Backend) /\ Len(order) = NumBackends
  BY <1>2, <1>5, EveryBackendIsACandidate DEF TypeOK
<1>7. conn' = [conn EXCEPT ![c] = [NoConnection EXCEPT !.client_fd = g, !.state = "connecting",
                                                       !.candidates = order]]
  <2>1. (CHOOSE f \in ClientSocket : TRUE) = g
    BY <1>4
  <2> QED BY <1>1, <1>5, <2>1 DEF SetupClient
<1>8. /\ conn'[c] \in ConnectionRecord /\ conn'[c].client_fd = g /\ conn'[c].backend_fd = NoFd
      /\ conn'[c].state = "connecting" /\ conn'[c].candidates = order
      /\ conn'[c].next_candidate = 0
  <2>1. conn'[c] = [NoConnection EXCEPT !.client_fd = g, !.state = "connecting",
                                        !.candidates = order]
    BY <1>2, <1>3, <1>7 DEF TypeOK
  <2>2. conn'[c] = [client_fd |-> g, backend_fd |-> NoFd, state |-> "connecting",
                    candidates |-> order, next_candidate |-> 0, connect |-> "none",
                    late |-> FALSE]
    BY <2>1 DEF NoConnection
  <2>3. 0 \in 0 .. NumBackends /\ g \in Fd
    BY <1>4, Constants
  <2>4. conn'[c] \in ConnectionRecord
    BY <1>6, <2>2, <2>3 DEF ConnectionRecord
  <2> QED BY <2>2, <2>4
<1>9. /\ conn' \in [Client -> ConnectionRecord] /\ \A d \in Client : d # c => conn'[d] = conn[d]
      /\ Held(c)' /\ SocketsOf(c)' = {g} /\ \A d \in Client : d # c => SocketsOf(d)' = SocketsOf(d)
  <2>1. conn' \in [Client -> ConnectionRecord] /\ \A d \in Client : d # c => conn'[d] = conn[d]
    BY <1>2, <1>3, <1>7, <1>8 DEF TypeOK
  <2>2. g # NoFd
    BY <1>4, Constants
  <2> QED BY <1>8, <2>1, <2>2, NoConnectionFacts DEF Held, SocketsOf
<1>10. /\ at' \in Position /\ at'.pc = "insert" /\ at'.cur = c /\ at'.back = at.back
       /\ at'.expired = at.expired
  BY <1>1, <1>2 DEF TypeOK, Position
<1>11. TypeOK'
  <2>1. next_backend_index' \in Backend
    BY <1>2, NextIndexFacts DEF TypeOK
  <2> QED BY <1>2, <1>9, <1>10, <2>1 DEF TypeOK
<1>12. OneDescriptorEach' /\ ListenerIsKnown' /\ RetiredIsOpen' /\ WatchedIsOpen'
  BY <1>2 DEF EventLoopInv, OneDescriptorEach, ListenerIsKnown, RetiredIsOpen, WatchedIsOpen
<1>13. SocketsAreKnown'
  <2>1. \A d \in Client : d # c => (InHand(d)' <=> InHand(d)) /\ conn'[d] = conn[d]
    BY <1>1, <1>2, <1>9, <1>10 DEF InHand, Held
  <2>2. InHand(c) /\ conn[c].next_candidate = 0 /\ conn'[c].next_candidate = 0
    BY <1>1, <1>2, <1>3, <1>8, NoConnectionFacts DEF InHand, Held
  <2> QED BY <1>2, <2>1, <2>2 DEF EventLoopInv, SocketsAreKnown
<1>14. OpenIsOwned'
  <2>1. SocketsOf(c) = {} /\ ClientSocket = {g}
    BY <1>3, <1>4, NoConnectionFacts DEF Held, SocketsOf
  <2> QED BY <1>2, <1>3, <1>9, <2>1 DEF EventLoopInv, OpenIsOwned, HasOwner
<1>15. ASSUME NEW d \in Client
       PROVE  ConnectionIsSound(d)'
  <2>1. CASE d = c
    <3>1. BetweenAttempts(c)' /\ NoFd \notin retired /\ NumBackends \in Nat
      BY <1>2, <1>10, Constants DEF BetweenAttempts, TypeOK
    <3> QED BY <1>2, <1>4, <1>6, <1>8, <1>10, <2>1, <3>1 DEF ConnectionIsSound, valid
  <2>2. CASE d # c
    <3>1. ~BetweenAttempts(d)
      BY <1>2 DEF BetweenAttempts
    <3>2. \A f \in SocketsOf(d) : f \notin retired'
      BY <1>2, SocketsAreTheirs
    <3>3. NoFd \notin retired'
      BY <1>2, Constants DEF TypeOK
    <3> QED BY <1>2, <1>9, <2>2, <3>1, <3>2, <3>3, OtherIsSound
  <2> QED BY <2>1, <2>2
<1>16. MapsAgree'
  <2>1. \A d \in connections : d \in Client /\ d # c
    BY <1>2, <1>3 DEF TypeOK
  <2> QED BY <1>2, <1>9, <2>1 DEF EventLoopInv, MapsAgree
<1>17. EventsAreFresh'
  BY <1>1, <1>2, <1>10 DEF EventLoopInv, EventsAreFresh
<1>18. PlaceInLoop'
  <2>1. at.expired = {} /\ \A d \in connections : d \in Client /\ d # c /\ (Held(d)' <=> Held(d))
    BY <1>2, <1>3, <1>9 DEF TypeOK, Held, EventLoopInv, PlaceInLoop
  <2>2. /\ at'.cur \in Client \ connections' /\ conn'[at'.cur].state = "connecting"
        /\ ~valid(conn'[at'.cur].backend_fd)
    BY <1>2, <1>3, <1>8, <1>10 DEF valid
  <2>3. Held(at.cur)'
    BY <1>9, <1>10 DEF Held
  <2>4. \A d \in connections' : Held(d)'
    BY <1>2, <2>1 DEF EventLoopInv, PlaceInLoop
  <2> QED BY <1>10, <2>1, <2>2, <2>3, <2>4 DEF PlaceInLoop, Asleep
<1> QED BY <1>11, <1>12, <1>13, <1>14, <1>15, <1>16, <1>17, <1>18 DEF EventLoopInv

LEMMA InsertClientKeepsInv ==
  ASSUME EventLoopInv, InsertClient
  PROVE  EventLoopInv'
<1>1. PICK c : c = at.cur
  OBVIOUS
<1>2. /\ TypeOK /\ at.pc = "insert" /\ draining' \in BOOLEAN
      /\ connections' = connections \cup {c}
      /\ fd_to_connection' = Emplace(fd_to_connection, conn[c].client_fd, c)
      /\ at' = [at EXCEPT !.pc = "try", !.back = "accept"]
      /\ UNCHANGED <<conn, retired, listening_fd, events, healthy, next_backend_index, socket,
                     watched, arrived, accepted, signalled, signal_pending, drain_over>>
  BY <1>1 DEF EventLoopInv, InsertClient, Observe, observe_shutdown, TypeOK, worldVars, healthVars
<1>3. /\ c \in Client \ connections /\ Held(c) /\ conn[c].state = "connecting"
      /\ conn[c].backend_fd = NoFd /\ at.expired = {}
  BY <1>1, <1>2 DEF EventLoopInv, PlaceInLoop, valid
<1>4. PICK g \in Fd \ retired : socket[g] = <<c, 0>> /\ conn[c].client_fd = g
  BY <1>1, <1>2, AcceptedSocket
<1>5. /\ at' \in Position /\ at'.pc = "try" /\ at'.cur = c /\ at'.back = "accept"
      /\ at'.expired = {}
  BY <1>1, <1>2, <1>3 DEF TypeOK, Position
<1>6. g \notin DOMAIN fd_to_connection /\ SocketsOf(c) = {g}
  <2>1. g # NoFd
    BY <1>4, Constants
  <2>2. \A d \in connections : d \in Client /\ d # c
    BY <1>2, <1>3 DEF TypeOK
  <2>3. g \in SocketsOf(c)
    BY <1>4, <2>1 DEF SocketsOf
  <2>4. \A d \in connections : g \notin SocketsOf(d)
    BY <1>3, <2>2, <2>3, SocketsDiffer
  <2> QED BY <1>3, <1>4, <2>1, <2>4 DEF EventLoopInv, MapsAgree, SocketsOf
<1>7. /\ DOMAIN fd_to_connection' = (DOMAIN fd_to_connection) \cup {g} /\ fd_to_connection'[g] = c
      /\ \A f \in DOMAIN fd_to_connection : fd_to_connection'[f] = fd_to_connection[f]
  BY <1>2, <1>4, <1>6 DEF Emplace
<1>8. TypeOK'
  BY <1>2, <1>3, <1>4, <1>5, <1>7 DEF TypeOK
<1>9. OneDescriptorEach' /\ ListenerIsKnown' /\ RetiredIsOpen' /\ WatchedIsOpen'
  BY <1>2 DEF EventLoopInv, OneDescriptorEach, ListenerIsKnown, RetiredIsOpen, WatchedIsOpen
<1>10. SocketsAreKnown' /\ OpenIsOwned'
  BY <1>2, <1>5 DEF EventLoopInv, SocketsAreKnown, InHand, Held, OpenIsOwned, HasOwner,
                    ClientSocket, SocketsOf
<1>11. ASSUME NEW d \in Client
       PROVE  ConnectionIsSound(d)'
  BY <1>1, <1>2, <1>5 DEF EventLoopInv, ConnectionIsSound, BetweenAttempts, Held
<1>12. MapsAgree'
  <2>1. \A d \in Client : SocketsOf(d)' = SocketsOf(d)
    BY <1>2 DEF SocketsOf
  <2>2. connections \subseteq Client /\ socket[g][1] = c
    BY <1>2, <1>4 DEF TypeOK
  <2> QED BY <1>2, <1>3, <1>6, <1>7, <2>1, <2>2 DEF EventLoopInv, MapsAgree
<1>13. EventsAreFresh'
  BY <1>2, <1>5 DEF EventLoopInv, EventsAreFresh
<1>14. PlaceInLoop'
  <2>1. \A d \in connections' : Held(d)'
    BY <1>2, <1>3 DEF EventLoopInv, PlaceInLoop, Held
  <2> QED BY <1>2, <1>3, <1>5, <2>1 DEF PlaceInLoop, Asleep, valid
<1> QED BY <1>8, <1>9, <1>10, <1>11, <1>12, <1>13, <1>14 DEF EventLoopInv

-----------------------------------------------------------------------------
(* try_next_backend.                                                       *)

\* A connection between two attempts has its client's socket only.
LEMMA TryFacts ==
  ASSUME EventLoopInv, at.pc = "try", NEW c, c = at.cur
  PROVE  /\ c \in connections /\ c \in Client /\ Held(c) /\ conn[c] \in ConnectionRecord
         /\ conn[c].state = "connecting" /\ conn[c].backend_fd = NoFd
         /\ conn[c].client_fd \in Fd \ retired /\ socket[conn[c].client_fd] = <<c, 0>>
         /\ SocketsOf(c) = {conn[c].client_fd}
         /\ Len(conn[c].candidates) = NumBackends
         /\ at.back \in {"dispatch", "accept", "expire"} /\ c \notin at.expired
         /\ \A d \in Client : d # c => ~BetweenAttempts(d)
<1>1. /\ TypeOK /\ c \in connections /\ conn[c].state = "connecting" /\ conn[c].backend_fd = NoFd
      /\ at.back # "top" /\ c \notin at.expired /\ Held(c)
  BY DEF EventLoopInv, PlaceInLoop, valid
<1>2. c \in Client /\ conn[c] \in ConnectionRecord /\ at.back \in {"dispatch", "accept", "expire"}
  BY <1>1, AtTypes DEF TypeOK
<1>3. ConnectionIsSound(c)
  BY <1>2 DEF EventLoopInv
<1>4. /\ conn[c].client_fd \in Fd \ retired /\ socket[conn[c].client_fd] = <<c, 0>>
      /\ Len(conn[c].candidates) = NumBackends
  BY <1>1, <1>3 DEF ConnectionIsSound
<1>5. SocketsOf(c) = {conn[c].client_fd}
  BY <1>1, <1>4, Constants DEF SocketsOf
<1>6. \A d \in Client : d # c => ~BetweenAttempts(d)
  BY DEF BetweenAttempts
<1> QED BY <1>1, <1>2, <1>4, <1>5, <1>6

\* The next candidate is a backend.
LEMMA NextCandidateFacts ==
  ASSUME EventLoopInv, at.pc = "try", NEW c, c = at.cur,
         conn[c].next_candidate < Len(conn[c].candidates)
  PROVE  /\ NextCandidate(c) \in Backend
         /\ conn[c].next_candidate \in Nat /\ conn[c].next_candidate + 1 \in 1 .. NumBackends
<1>1. conn[c] \in ConnectionRecord /\ Len(conn[c].candidates) = NumBackends
  BY TryFacts
<1>2. conn[c].candidates \in Seq(Backend) /\ conn[c].next_candidate \in 0 .. NumBackends
  BY <1>1 DEF ConnectionRecord
<1>3. PICK i, q : i = conn[c].next_candidate /\ q = conn[c].candidates
  OBVIOUS
<1>4. /\ q \in Seq(Backend) /\ i \in Nat /\ i < Len(q) /\ Len(q) = NumBackends
      /\ i + 1 \in 1 .. NumBackends
  BY <1>1, <1>2, <1>3, Constants
<1>5. q[i + 1] \in Backend
  BY <1>4
<1> QED BY <1>3, <1>4, <1>5 DEF NextCandidate

LEMMA ReturnFacts ==
  ASSUME EventLoopInv, at.pc = "try", Return
  PROVE  /\ at' \in Position /\ at'.pc = at.back /\ at'.cur = 0 /\ at'.back = at.back
         /\ at'.expired = at.expired
         /\ at'.pc \in {"dispatch", "accept", "expire"}
         /\ at'.pc = "expire" => events = {}
         /\ at'.expired # {} => at'.pc = "expire"
<1>1. at \in Position /\ at.back \in {"dispatch", "accept", "expire"}
  BY TryFacts DEF EventLoopInv, TypeOK
<1>2. /\ at' \in Position /\ at'.pc = at.back /\ at'.cur = 0 /\ at'.back = at.back
      /\ at'.expired = at.expired
  BY <1>1 DEF Return, Position
<1> QED BY <1>1, <1>2 DEF EventLoopInv, PlaceInLoop

LEMMA GiveUpKeepsInv ==
  ASSUME EventLoopInv, at.pc = "try", NEW c, c = at.cur, GiveUp(c), draining' \in BOOLEAN,
         UNCHANGED <<listening_fd, events, next_backend_index, worldVars>>
  PROVE  EventLoopInv'
<1>1. /\ TypeOK /\ c \in connections /\ c \in Client /\ SocketsOf(c) \subseteq Fd
      /\ c \notin at.expired
  BY TryFacts DEF EventLoopInv
<1>2. /\ at' \in Position /\ at'.pc \in {"dispatch", "accept", "expire"}
      /\ at'.expired = at.expired
      /\ at'.pc = "expire" => events = {}
      /\ at'.expired # {} => at'.pc = "expire"
  BY ReturnFacts DEF GiveUp
<1>3. /\ connections' = connections \ {c} /\ retired' = retired \cup SocketsOf(c)
      /\ conn' = [conn EXCEPT ![c] = NoConnection]
      /\ fd_to_connection' = Erase(fd_to_connection, SocketsOf(c))
      /\ UNCHANGED <<healthy, socket, watched, arrived, accepted, signalled, signal_pending,
                     drain_over>>
  BY DEF GiveUp, retire_connection, worldVars
<1>4. TypeOK'
  <2>1. conn' \in [Client -> ConnectionRecord]
    BY <1>1, <1>3, NoConnectionFacts DEF TypeOK
  <2>2. /\ DOMAIN fd_to_connection' \subseteq DOMAIN fd_to_connection
        /\ \A f \in DOMAIN fd_to_connection' : fd_to_connection'[f] = fd_to_connection[f]
    BY <1>3 DEF Erase
  <2> QED BY <1>1, <1>2, <1>3, <2>1, <2>2 DEF TypeOK
<1>5. PlaceInLoop'
  <2>1. \A d \in connections' : d # c /\ conn'[d] = conn[d] /\ Held(d)'
    BY <1>1, <1>3 DEF TypeOK, EventLoopInv, PlaceInLoop, Held
  <2>2. \A d \in at'.expired : d \in connections' /\ conn'[d].state = "connecting"
    BY <1>1, <1>2, <1>3, <2>1 DEF EventLoopInv, PlaceInLoop
  <2> QED BY <1>2, <2>1, <2>2 DEF PlaceInLoop, Asleep
<1>6. retire_connection(c)
  BY DEF GiveUp
<1> QED BY <1>1, <1>2, <1>3, <1>4, <1>5, <1>6, RetireStep

\* The candidate's index is passed, and its socket, if one was opened, is closed again.
LEMMA RefusedKeepsInv ==
  ASSUME EventLoopInv, at.pc = "try", NEW c, c = at.cur, Refused(c), draining' \in BOOLEAN,
         conn[c].next_candidate < Len(conn[c].candidates),
         UNCHANGED <<listening_fd, events, next_backend_index, worldVars>>
  PROVE  EventLoopInv'
<1>1. /\ TypeOK /\ c \in connections /\ c \in Client /\ Held(c) /\ conn[c] \in ConnectionRecord
      /\ conn[c].state = "connecting" /\ conn[c].backend_fd = NoFd
      /\ \A d \in Client : d # c => ~BetweenAttempts(d)
  BY TryFacts DEF EventLoopInv
<1>2. PICK k : k = conn[c].next_candidate + 1
  OBVIOUS
<1>3. /\ k \in 1 .. NumBackends /\ conn[c].next_candidate \in Nat /\ NextCandidate(c) \in Backend
  BY <1>2, NextCandidateFacts
<1>4. /\ conn' = [conn EXCEPT ![c].next_candidate = k]
      /\ healthy' = set_backend_health(healthy, NextCandidate(c), FALSE)
      /\ UNCHANGED <<at, connections, fd_to_connection, retired, socket, watched, arrived,
                     accepted, signalled, signal_pending, drain_over>>
  BY <1>2 DEF Refused, Taken, worldVars
<1>5. conn'[c] = [conn[c] EXCEPT !.next_candidate = k]
  BY <1>1, <1>4 DEF TypeOK
<1>6. /\ conn'[c] \in ConnectionRecord /\ conn'[c].next_candidate = k
      /\ conn'[c].client_fd = conn[c].client_fd /\ conn'[c].backend_fd = conn[c].backend_fd
      /\ conn'[c].state = conn[c].state /\ conn'[c].candidates = conn[c].candidates
  <2>1. k \in 0 .. NumBackends
    BY <1>3
  <2> QED BY <1>1, <1>5, <2>1 DEF ConnectionRecord
<1>7. conn' \in [Client -> ConnectionRecord] /\ \A d \in Client : d # c => conn'[d] = conn[d]
  BY <1>1, <1>4, <1>6 DEF TypeOK
<1>8. Held(c)' /\ \A d \in Client : (Held(d)' <=> Held(d)) /\ SocketsOf(d)' = SocketsOf(d)
  <2>1. Held(c)'
    BY <1>1, <1>6, NoConnectionFacts DEF Held
  <2> QED BY <1>1, <1>6, <1>7, <2>1 DEF Held, SocketsOf
<1>9. TypeOK'
  <2>1. healthy' \subseteq Backend
    BY <1>1, <1>3, <1>4 DEF TypeOK, set_backend_health
  <2> QED BY <1>1, <1>4, <1>7, <2>1 DEF TypeOK
<1>10. OneDescriptorEach' /\ ListenerIsKnown' /\ RetiredIsOpen' /\ WatchedIsOpen' /\ EventsAreFresh'
  BY <1>4 DEF EventLoopInv, OneDescriptorEach, ListenerIsKnown, RetiredIsOpen, WatchedIsOpen,
              EventsAreFresh
<1>11. SocketsAreKnown'
  <2>1. ASSUME NEW f \in Fd, NEW d \in Client, NEW j \in 0 .. NumBackends, socket[f] = <<d, j>>,
               InHand(d)'
        PROVE  j <= conn'[d].next_candidate
    <3>1. InHand(d)
      BY <1>4, <1>8, <2>1 DEF InHand
    <3>2. j <= conn[d].next_candidate
      BY <2>1, <3>1 DEF EventLoopInv, SocketsAreKnown
    <3> QED BY <1>2, <1>3, <1>6, <1>7, <3>2
  <2> QED BY <1>4, <2>1 DEF EventLoopInv, SocketsAreKnown
<1>12. OpenIsOwned'
  BY <1>4, <1>8 DEF EventLoopInv, OpenIsOwned, HasOwner, ClientSocket
<1>13. ASSUME NEW d \in Client
       PROVE  ConnectionIsSound(d)'
  <2>1. CASE d = c
    <3>1. BetweenAttempts(c)' /\ ConnectionIsSound(c)
      BY <1>1, <1>4 DEF BetweenAttempts, EventLoopInv
    <3>2. k <= NumBackends
      BY <1>3, Constants
    <3> QED BY <1>1, <1>4, <1>6, <2>1, <3>1, <3>2 DEF ConnectionIsSound, valid
  <2>2. CASE d # c
    <3>1. conn'[d] = conn[d] /\ ~BetweenAttempts(d) /\ NoFd \notin retired'
      BY <1>1, <1>4, <1>7, <2>2, Constants DEF TypeOK
    <3>2. \A f \in SocketsOf(d) : f \notin retired'
      BY <1>4, SocketsAreTheirs
    <3> QED BY <1>4, <3>1, <3>2, OtherIsSound
  <2> QED BY <2>1, <2>2
<1>14. MapsAgree'
  BY <1>1, <1>4, <1>8 DEF EventLoopInv, MapsAgree, TypeOK
<1>15. PlaceInLoop'
  <2>1. connections \subseteq Client /\ at.expired \subseteq Client
    BY <1>1, AtTypes DEF TypeOK
  <2>2. \A d \in Client : conn'[d].state = conn[d].state /\ conn'[d].backend_fd = conn[d].backend_fd
    BY <1>6, <1>7
  <2> QED BY <1>1, <1>4, <1>8, <2>1, <2>2 DEF EventLoopInv, PlaceInLoop, Asleep
<1> QED BY <1>9, <1>10, <1>11, <1>12, <1>13, <1>14, <1>15 DEF EventLoopInv

\* The new socket of an attempt: a free descriptor denotes a socket that was never open.
LEMMA AttemptSocket ==
  ASSUME EventLoopInv, at.pc = "try", NEW c, c = at.cur, socket' = BackendSocketMoved(c),
         conn[c].next_candidate < Len(conn[c].candidates),
         NEW k, k = conn[c].next_candidate + 1, NEW n, n = NewFd
  PROVE  /\ n \in Fd /\ socket[n] = Closed /\ n \notin retired /\ n \notin watched
         /\ n # listening_fd /\ n \notin DOMAIN fd_to_connection
         /\ k \in 1 .. NumBackends /\ conn[c].next_candidate \in Nat
         /\ <<c, k>> \in Sockets /\ \A f \in Fd : socket[f] # <<c, k>>
         /\ socket' \in [Fd -> Sockets \cup {Closed, Listener}]
         /\ socket'[n] = <<c, k>> /\ \A f \in Fd : f # n => socket'[f] = socket[f]
         /\ \A d \in Client : n \notin SocketsOf(d)
         /\ OneDescriptorEach' /\ (listening_fd' = listening_fd => ListenerIsKnown')
         /\ \A e \in events : e.kind # "signal" => e.fd # n
<1>1. TypeOK /\ c \in Client /\ Held(c) /\ conn[c].backend_fd = NoFd
  BY TryFacts DEF EventLoopInv
<1>2. k \in 1 .. NumBackends /\ conn[c].next_candidate \in Nat
  BY NextCandidateFacts
<1>3. <<c, k>> \in Sockets /\ k \in 0 .. NumBackends
  BY <1>1, <1>2, Constants
<1>4. \A f \in Fd : socket[f] # <<c, k>>
  <2>1. \A f \in Fd : socket[f] = <<c, k>> => k <= conn[c].next_candidate
    BY <1>1, <1>3 DEF EventLoopInv, SocketsAreKnown, InHand
  <2> QED BY <1>2, <2>1
<1>5. n \in Fd /\ socket[n] = Closed
  BY <1>3, <1>4, ADescriptorIsFree
<1>6. n \notin retired /\ n \notin watched /\ n # listening_fd
  <2>1. n # listening_fd
    BY <1>5, Constants DEF EventLoopInv, ListenerIsKnown, valid
  <2> QED BY <1>5, <2>1, Constants DEF EventLoopInv, RetiredIsOpen, WatchedIsOpen
<1>7. \A d \in Client : n \notin SocketsOf(d)
  BY <1>5, SocketsAreTheirs, Constants
<1>8. n \notin DOMAIN fd_to_connection
  BY <1>1, <1>7 DEF EventLoopInv, MapsAgree, TypeOK
<1>9. socket' = [socket EXCEPT ![n] = <<c, k>>]
  <2>1. ClosedByAssignment(conn[c].backend_fd) = {}
    BY <1>1 DEF ClosedByAssignment, ClosedByReset, valid
  <2>2. Close({}) = socket
    BY <1>1 DEF Close, TypeOK
  <2> QED BY <2>1, <2>2 DEF BackendSocketMoved
<1>10. /\ socket' \in [Fd -> Sockets \cup {Closed, Listener}]
       /\ socket'[n] = <<c, k>> /\ \A f \in Fd : f # n => socket'[f] = socket[f]
  BY <1>1, <1>3, <1>5, <1>9 DEF TypeOK
<1>11. OneDescriptorEach'
  BY <1>4, <1>10 DEF EventLoopInv, OneDescriptorEach
<1>12. listening_fd' = listening_fd => ListenerIsKnown'
  BY <1>3, <1>5, <1>6, <1>10, Constants DEF EventLoopInv, ListenerIsKnown
<1>13. \A e \in events : e.kind # "signal" => e.fd # n
  BY <1>5 DEF EventLoopInv, EventsAreFresh
<1> QED BY <1>2, <1>3, <1>4, <1>5, <1>6, <1>7, <1>8, <1>10, <1>11, <1>12, <1>13

\* The attempt is under way, or has succeeded at once: the connection owns the new socket.
LEMMA StartedKeepsInv ==
  ASSUME EventLoopInv, at.pc = "try", NEW c, c = at.cur, NEW connection \in ConnectionRecord,
         Started(c, connection), draining' \in BOOLEAN, healthy' \subseteq Backend,
         conn[c].next_candidate < Len(conn[c].candidates),
         connection.client_fd = conn[c].client_fd, connection.candidates = conn[c].candidates,
         connection.next_candidate = conn[c].next_candidate + 1,
         \/ connection.state = "established" /\ watched' = watched
         \/ /\ connection.state = "connecting" /\ connection.connect = "pending"
            /\ watched' = watched \cup {NewFd},
         UNCHANGED <<listening_fd, events, next_backend_index, worldVars>>
  PROVE  EventLoopInv'
<1>1. /\ TypeOK /\ c \in connections /\ c \in Client /\ Held(c) /\ conn[c] \in ConnectionRecord
      /\ conn[c].client_fd \in Fd \ retired /\ socket[conn[c].client_fd] = <<c, 0>>
      /\ SocketsOf(c) = {conn[c].client_fd} /\ Len(conn[c].candidates) = NumBackends
      /\ c \notin at.expired /\ \A d \in Client : d # c => ~BetweenAttempts(d)
  BY TryFacts DEF EventLoopInv
<1>2. PICK k : k = conn[c].next_candidate + 1
  OBVIOUS
<1>3. PICK n : n = NewFd
  OBVIOUS
<1>4. PICK g : g = conn[c].client_fd
  OBVIOUS
<1>5. /\ socket' = BackendSocketMoved(c) /\ Return
      /\ conn' = [conn EXCEPT ![c] = [connection EXCEPT !.backend_fd = n]]
      /\ fd_to_connection' = Emplace(fd_to_connection, n, c)
      /\ UNCHANGED <<connections, retired, arrived, accepted, signalled, signal_pending, drain_over>>
      /\ listening_fd' = listening_fd
  BY <1>3 DEF Started, worldVars
<1>6. /\ n \in Fd /\ socket[n] = Closed /\ n \notin retired /\ n \notin watched
      /\ n # listening_fd /\ n \notin DOMAIN fd_to_connection
      /\ k \in 1 .. NumBackends /\ conn[c].next_candidate \in Nat
      /\ <<c, k>> \in Sockets /\ \A f \in Fd : socket[f] # <<c, k>>
      /\ socket' \in [Fd -> Sockets \cup {Closed, Listener}]
      /\ socket'[n] = <<c, k>> /\ \A f \in Fd : f # n => socket'[f] = socket[f]
      /\ \A d \in Client : n \notin SocketsOf(d)
      /\ OneDescriptorEach' /\ ListenerIsKnown'
      /\ \A e \in events : e.kind # "signal" => e.fd # n
  BY <1>2, <1>3, <1>5, AttemptSocket
<1>7. /\ at' \in Position /\ at'.pc \in {"dispatch", "accept", "expire"}
      /\ at'.expired = at.expired
      /\ at'.pc = "expire" => events = {}
      /\ at'.expired # {} => at'.pc = "expire"
  BY <1>5, ReturnFacts
<1>8. /\ conn'[c] \in ConnectionRecord /\ conn'[c].backend_fd = n /\ conn'[c].client_fd = g
      /\ conn'[c].candidates = conn[c].candidates /\ conn'[c].next_candidate = k
      /\ conn'[c].state = connection.state /\ conn'[c].connect = connection.connect
  <2>1. conn'[c] = [connection EXCEPT !.backend_fd = n]
    BY <1>1, <1>5 DEF TypeOK
  <2> QED BY <1>2, <1>4, <1>6, <2>1 DEF ConnectionRecord
<1>9. conn' \in [Client -> ConnectionRecord] /\ \A d \in Client : d # c => conn'[d] = conn[d]
  BY <1>1, <1>5, <1>8 DEF TypeOK
<1>10. /\ Held(c)' /\ SocketsOf(c)' = {g, n} /\ SocketsOf(c) = {g}
       /\ \A d \in Client : (Held(d)' <=> Held(d)) /\ (d # c => SocketsOf(d)' = SocketsOf(d))
  <2>1. Held(c)'
    BY <1>6, <1>8, NoConnectionFacts, Constants DEF Held
  <2>2. g # NoFd /\ n # NoFd
    BY <1>1, <1>4, <1>6, Constants
  <2> QED BY <1>1, <1>4, <1>8, <1>9, <2>1, <2>2 DEF Held, SocketsOf
<1>11. /\ DOMAIN fd_to_connection' = (DOMAIN fd_to_connection) \cup {n} /\ fd_to_connection'[n] = c
       /\ \A f \in DOMAIN fd_to_connection : fd_to_connection'[f] = fd_to_connection[f]
  BY <1>5, <1>6 DEF Emplace
<1>12. watched' \subseteq watched \cup {n} /\ watched \subseteq watched'
  BY <1>3
<1>13. TypeOK'
  BY <1>1, <1>5, <1>6, <1>7, <1>9, <1>11, <1>12 DEF TypeOK
<1>14. SocketsAreKnown'
  <2>1. ASSUME NEW f \in Fd, NEW d \in Client, NEW j \in 0 .. NumBackends, socket'[f] = <<d, j>>
        PROVE  d <= accepted' /\ (InHand(d)' => j <= conn'[d].next_candidate)
    <3>1. \A x \in Fd : socket[x] = <<d, j>> =>
            d <= accepted /\ (InHand(d) => j <= conn[d].next_candidate)
      BY DEF EventLoopInv, SocketsAreKnown
    <3>2. CASE f = n
      <4>1. d = c /\ j = k
        BY <1>6, <2>1, <3>2
      <4>2. c <= accepted
        BY <1>1, Constants DEF EventLoopInv, SocketsAreKnown
      <4> QED BY <1>5, <1>6, <1>8, <4>1, <4>2
    <3>3. CASE f # n
      <4>1. d <= accepted /\ (InHand(d) => j <= conn[d].next_candidate)
        BY <1>6, <2>1, <3>1, <3>3
      <4>2. InHand(d)' => InHand(d)
        BY <1>7, <1>10 DEF InHand
      <4>3. CASE d = c
        BY <1>2, <1>5, <1>6, <1>8, <4>1, <4>2, <4>3
      <4>4. CASE d # c
        BY <1>5, <1>9, <4>1, <4>2, <4>4
      <4> QED BY <4>3, <4>4
    <3> QED BY <3>2, <3>3
  <2> QED BY <2>1 DEF SocketsAreKnown
<1>15. OpenIsOwned'
  <2>1. ClientSocket = {}
    BY DEF ClientSocket
  <2>2. ASSUME NEW f \in Fd, socket'[f] # Closed
        PROVE  HasOwner(f)'
    <3>1. CASE f = n
      BY <1>1, <1>10, <3>1 DEF HasOwner
    <3>2. CASE f # n
      <4>1. HasOwner(f)
        BY <1>6, <2>2, <3>2 DEF EventLoopInv, OpenIsOwned
      <4>2. CASE \E d \in Client : f \in SocketsOf(d)
        BY <1>10, <4>2 DEF HasOwner
      <4> QED BY <1>5, <2>1, <4>1, <4>2 DEF HasOwner
    <3> QED BY <3>1, <3>2
  <2> QED BY <2>2 DEF OpenIsOwned
<1>16. RetiredIsOpen' /\ WatchedIsOpen'
  <2>1. RetiredIsOpen'
    BY <1>1, <1>5, <1>6 DEF EventLoopInv, RetiredIsOpen, TypeOK
  <2>2. k # 0
    BY <1>6
  <2>3. \A f \in watched : f \in Fd /\ f # n /\ socket[f] \in Sockets /\ socket[f][2] # 0
    BY <1>1, <1>6 DEF EventLoopInv, WatchedIsOpen, TypeOK
  <2> QED BY <1>6, <1>12, <2>1, <2>2, <2>3 DEF WatchedIsOpen
<1>17. g \in Fd /\ g # n /\ g \notin retired /\ socket'[g] = <<c, 0>>
  BY <1>1, <1>4, <1>6, <1>10
<1>18. ASSUME NEW d \in Client
       PROVE  ConnectionIsSound(d)'
  <2>1. CASE d = c
    <3>1. k # 0 /\ k <= NumBackends
      BY <1>6, Constants
    <3>2. connection.state = "connecting" => n \in watched' /\ connection.connect # "none"
      BY <1>3
    <3>3. connection.state \in {"connecting", "established"}
      OBVIOUS
    <3> QED BY <1>1, <1>5, <1>6, <1>8, <1>17, <2>1, <3>1, <3>2, <3>3 DEF ConnectionIsSound
  <2>2. CASE d # c
    <3>1. \A f \in SocketsOf(d) : f \in Fd /\ f # n /\ f \notin retired
      BY <1>6, SocketsAreTheirs
    <3>2. \A f \in SocketsOf(d) : /\ socket'[f] = socket[f] /\ f \notin retired'
                                  /\ f \in watched => f \in watched'
      BY <1>5, <1>6, <1>12, <3>1
    <3>3. NoFd \notin retired' /\ ~BetweenAttempts(d) /\ conn'[d] = conn[d]
      BY <1>1, <1>5, <1>9, <2>2, Constants DEF TypeOK
    <3> QED BY <1>5, <3>2, <3>3, OtherIsSound
  <2> QED BY <2>1, <2>2
<1>19. MapsAgree'
  <2>1. connections \subseteq Client /\ MapsAgree
    BY <1>1 DEF EventLoopInv, TypeOK
  <2>2. ASSUME NEW d \in connections', NEW f \in SocketsOf(d)'
        PROVE  f \in DOMAIN fd_to_connection'
    <3>1. d \in connections /\ (f \in SocketsOf(d) \/ f = n)
      BY <1>5, <1>10, <2>1
    <3> QED BY <1>11, <2>1, <3>1 DEF MapsAgree
  <2>3. ASSUME NEW f \in DOMAIN fd_to_connection'
        PROVE  \E d \in connections' :
                 fd_to_connection'[f] = d /\ f \in SocketsOf(d)' /\ socket'[f][1] = d
    <3>1. CASE f = n
      BY <1>1, <1>5, <1>6, <1>10, <1>11, <3>1
    <3>2. CASE f # n
      <4>1. PICK d \in connections :
              fd_to_connection[f] = d /\ f \in SocketsOf(d) /\ socket[f][1] = d
        BY <1>11, <2>1, <3>2 DEF MapsAgree
      <4>2. d \in Client /\ f \in Fd /\ f \in SocketsOf(d)'
        BY <1>10, <2>1, <4>1, SocketsAreTheirs
      <4> QED BY <1>5, <1>6, <1>11, <3>2, <4>1, <4>2
    <3> QED BY <3>1, <3>2
  <2> QED BY <2>2, <2>3 DEF MapsAgree
<1>20. EventsAreFresh'
  BY <1>6, <1>7 DEF EventLoopInv, EventsAreFresh
<1>21. PlaceInLoop'
  <2>1. \A d \in connections' : Held(d)'
    BY <1>1, <1>5, <1>10 DEF EventLoopInv, PlaceInLoop, TypeOK
  <2>2. \A d \in at'.expired : d \in connections' /\ conn'[d].state = "connecting"
    BY <1>1, <1>5, <1>7, <1>9 DEF EventLoopInv, PlaceInLoop, TypeOK
  <2> QED BY <1>7, <2>1, <2>2 DEF PlaceInLoop, Asleep
<1> QED BY <1>6, <1>13, <1>14, <1>15, <1>16, <1>18, <1>19, <1>20, <1>21 DEF EventLoopInv

\* The filter is refused after the socket was stored: both sockets are put aside.
LEMMA NoFilterKeepsInv ==
  ASSUME EventLoopInv, at.pc = "try", NEW c, c = at.cur, NoFilter(c), draining' \in BOOLEAN,
         conn[c].next_candidate < Len(conn[c].candidates),
         UNCHANGED <<listening_fd, events, next_backend_index, worldVars>>
  PROVE  EventLoopInv'
<1>1. /\ TypeOK /\ c \in connections /\ c \in Client /\ Held(c)
      /\ conn[c].client_fd \in Fd \ retired /\ socket[conn[c].client_fd] = <<c, 0>>
      /\ SocketsOf(c) = {conn[c].client_fd}
      /\ c \notin at.expired /\ \A d \in Client : d # c => ~BetweenAttempts(d)
  BY TryFacts DEF EventLoopInv
<1>2. PICK k : k = conn[c].next_candidate + 1
  OBVIOUS
<1>3. PICK n : n = NewFd
  OBVIOUS
<1>4. PICK g : g = conn[c].client_fd
  OBVIOUS
<1>5. /\ socket' = BackendSocketMoved(c) /\ Return
      /\ conn' = [conn EXCEPT ![c] = NoConnection]
      /\ fd_to_connection' = Erase(fd_to_connection, {g})
      /\ connections' = connections \ {c} /\ retired' = retired \cup {g, n}
      /\ UNCHANGED <<watched, healthy, arrived, accepted, signalled, signal_pending, drain_over>>
      /\ listening_fd' = listening_fd
  BY <1>3, <1>4 DEF NoFilter, worldVars
<1>6. /\ n \in Fd /\ socket[n] = Closed /\ n \notin watched
      /\ <<c, k>> \in Sockets
      /\ socket' \in [Fd -> Sockets \cup {Closed, Listener}]
      /\ socket'[n] = <<c, k>> /\ \A f \in Fd : f # n => socket'[f] = socket[f]
      /\ \A d \in Client : n \notin SocketsOf(d)
      /\ OneDescriptorEach' /\ ListenerIsKnown'
      /\ \A e \in events : e.kind # "signal" => e.fd # n
  BY <1>2, <1>3, <1>5, AttemptSocket
<1>7. /\ at' \in Position /\ at'.pc \in {"dispatch", "accept", "expire"}
      /\ at'.expired = at.expired
      /\ at'.pc = "expire" => events = {}
      /\ at'.expired # {} => at'.pc = "expire"
  BY <1>5, ReturnFacts
<1>8. /\ conn' \in [Client -> ConnectionRecord] /\ conn'[c] = NoConnection
      /\ \A d \in Client : d # c => conn'[d] = conn[d]
  BY <1>1, <1>5, NoConnectionFacts DEF TypeOK
<1>9. /\ ~Held(c)' /\ SocketsOf(c) = {g} /\ g \in Fd /\ g # n
      /\ \A d \in Client : d # c => (Held(d)' <=> Held(d)) /\ SocketsOf(d)' = SocketsOf(d)
  BY <1>1, <1>4, <1>6, <1>8 DEF Held, SocketsOf
<1>10. /\ DOMAIN fd_to_connection' = (DOMAIN fd_to_connection) \ {g}
       /\ \A f \in DOMAIN fd_to_connection' : fd_to_connection'[f] = fd_to_connection[f]
  BY <1>5 DEF Erase
<1>11. TypeOK'
  BY <1>1, <1>5, <1>6, <1>7, <1>8, <1>9, <1>10 DEF TypeOK
<1>12. SocketsAreKnown'
  <2>1. ASSUME NEW f \in Fd, NEW d \in Client, NEW j \in 0 .. NumBackends, socket'[f] = <<d, j>>
        PROVE  d <= accepted' /\ (InHand(d)' => j <= conn'[d].next_candidate)
    <3>1. CASE d = c
      <4>1. c <= accepted
        BY <1>1, Constants DEF EventLoopInv, SocketsAreKnown
      <4>2. ~InHand(c)'
        BY <1>7, <1>9 DEF InHand
      <4> QED BY <1>5, <3>1, <4>1, <4>2
    <3>2. CASE d # c
      <4>1. socket[f] = <<d, j>>
        BY <1>6, <2>1, <3>2
      <4>2. d <= accepted /\ (InHand(d) => j <= conn[d].next_candidate)
        BY <4>1 DEF EventLoopInv, SocketsAreKnown
      <4>3. InHand(d)' => InHand(d)
        BY <1>7, <1>9, <3>2 DEF InHand
      <4> QED BY <1>5, <1>8, <3>2, <4>2, <4>3
    <3> QED BY <3>1, <3>2
  <2> QED BY <2>1 DEF SocketsAreKnown
<1>13. OpenIsOwned'
  <2>1. ClientSocket = {}
    BY DEF ClientSocket
  <2>2. ASSUME NEW f \in Fd, socket'[f] # Closed, f # n
        PROVE  HasOwner(f)'
    <3>1. HasOwner(f)
      BY <1>6, <2>2 DEF EventLoopInv, OpenIsOwned
    <3>2. CASE \E d \in Client : f \in SocketsOf(d)
      BY <1>5, <1>9, <3>2 DEF HasOwner
    <3> QED BY <1>5, <2>1, <3>1, <3>2 DEF HasOwner
  <2>3. HasOwner(n)'
    BY <1>5 DEF HasOwner
  <2> QED BY <2>2, <2>3 DEF OpenIsOwned
<1>14. RetiredIsOpen' /\ WatchedIsOpen'
  <2>1. \A f \in retired : f \in Fd /\ socket[f] \in Sockets
    BY <1>1 DEF EventLoopInv, RetiredIsOpen, TypeOK
  <2>2. socket'[g] \in Sockets /\ socket'[n] \in Sockets
    BY <1>1, <1>4, <1>6, <1>9, Constants
  <2>3. RetiredIsOpen'
    BY <1>5, <1>6, <2>1, <2>2 DEF RetiredIsOpen
  <2>4. WatchedIsOpen'
    BY <1>1, <1>5, <1>6 DEF EventLoopInv, WatchedIsOpen, TypeOK
  <2> QED BY <2>3, <2>4
<1>15. ASSUME NEW d \in Client
       PROVE  ConnectionIsSound(d)'
  <2>1. CASE d = c
    BY <1>9, <2>1 DEF ConnectionIsSound
  <2>2. CASE d # c
    <3>1. g \notin SocketsOf(d)
      BY <1>1, <1>9, <2>2, SocketsDiffer
    <3>2. \A f \in SocketsOf(d) : f \in Fd /\ f # n /\ f \notin retired
      BY <1>6, SocketsAreTheirs
    <3>3. \A f \in SocketsOf(d) : /\ socket'[f] = socket[f] /\ f \notin retired'
                                  /\ f \in watched => f \in watched'
      BY <1>5, <1>6, <3>1, <3>2
    <3>4. NoFd \notin retired' /\ ~BetweenAttempts(d) /\ conn'[d] = conn[d]
      BY <1>1, <1>5, <1>6, <1>8, <1>9, <2>2, Constants DEF TypeOK
    <3>5. d \in connections => d \in connections'
      BY <1>5, <2>2
    <3> QED BY <3>3, <3>4, <3>5, OtherIsSound
  <2> QED BY <2>1, <2>2
<1>16. MapsAgree'
  <2>1. connections \subseteq Client /\ MapsAgree
    BY <1>1 DEF EventLoopInv, TypeOK
  <2>2. ASSUME NEW d \in connections', NEW f \in SocketsOf(d)'
        PROVE  f \in DOMAIN fd_to_connection'
    <3>1. d \in connections /\ d \in Client /\ d # c /\ f \in SocketsOf(d)
      BY <1>5, <1>9, <2>1
    <3>2. f # g
      BY <1>1, <1>9, <3>1, SocketsDiffer
    <3> QED BY <1>10, <2>1, <3>1, <3>2 DEF MapsAgree
  <2>3. ASSUME NEW f \in DOMAIN fd_to_connection'
        PROVE  \E d \in connections' :
                 fd_to_connection'[f] = d /\ f \in SocketsOf(d)' /\ socket'[f][1] = d
    <3>1. PICK d \in connections :
            fd_to_connection[f] = d /\ f \in SocketsOf(d) /\ socket[f][1] = d
      BY <1>10, <2>1 DEF MapsAgree
    <3>2. d # c /\ d \in Client /\ f \in Fd /\ f # n
      BY <1>6, <1>9, <1>10, <2>1, <3>1, SocketsAreTheirs
    <3> QED BY <1>5, <1>6, <1>9, <1>10, <3>1, <3>2
  <2> QED BY <2>2, <2>3 DEF MapsAgree
<1>17. EventsAreFresh'
  BY <1>6, <1>7 DEF EventLoopInv, EventsAreFresh
<1>18. PlaceInLoop'
  <2>1. \A d \in connections' : d # c /\ conn'[d] = conn[d] /\ Held(d)'
    BY <1>1, <1>5, <1>8, <1>9 DEF EventLoopInv, PlaceInLoop, TypeOK
  <2>2. \A d \in at'.expired : d \in connections' /\ conn'[d].state = "connecting"
    BY <1>1, <1>5, <1>7, <2>1 DEF EventLoopInv, PlaceInLoop
  <2> QED BY <1>7, <2>1, <2>2 DEF PlaceInLoop, Asleep
<1> QED BY <1>6, <1>11, <1>12, <1>13, <1>14, <1>15, <1>16, <1>17, <1>18 DEF EventLoopInv

LEMMA TryNextBackendKeepsInv ==
  ASSUME EventLoopInv, TryNextBackend
  PROVE  EventLoopInv'
<1>1. PICK c : c = at.cur
  OBVIOUS
<1>2. /\ TypeOK /\ at.pc = "try" /\ draining' \in BOOLEAN
      /\ UNCHANGED <<listening_fd, events, next_backend_index, worldVars>>
  BY DEF EventLoopInv, TryNextBackend, Observe, observe_shutdown, TypeOK
<1>3. CASE GiveUp(c)
  BY <1>1, <1>2, <1>3, GiveUpKeepsInv
<1>4. CASE conn[c].next_candidate < Len(conn[c].candidates)
           /\ \E result \in start_backend_connect : TryCandidate(c, result)
  <2>1. c \in Client /\ conn[c] \in ConnectionRecord /\ conn[c].state = "connecting"
    BY <1>1, <1>2, TryFacts
  <2>2. PICK k : k = conn[c].next_candidate + 1
    OBVIOUS
  <2>3. NextCandidate(c) \in Backend /\ k \in 0 .. NumBackends
    <3>1. k \in 1 .. NumBackends /\ NextCandidate(c) \in Backend
      BY <1>1, <1>2, <1>4, <2>2, NextCandidateFacts
    <3> QED BY <3>1
  <2>4. Taken(c)[c] = [conn[c] EXCEPT !.next_candidate = k]
    BY <1>2, <2>1, <2>2 DEF Taken, TypeOK
  <2>5. CASE Refused(c)
    BY <1>1, <1>2, <1>4, <2>5, RefusedKeepsInv
  <2>6. CASE Connected(c)
    <3>1. PICK connection : connection = [Taken(c)[c] EXCEPT !.state = "established"]
      OBVIOUS
    <3>2. connection = [conn[c] EXCEPT !.next_candidate = k, !.state = "established"]
      BY <2>1, <2>4, <3>1 DEF ConnectionRecord
    <3>3. /\ connection \in ConnectionRecord /\ connection.state = "established"
          /\ connection.client_fd = conn[c].client_fd
          /\ connection.candidates = conn[c].candidates /\ connection.next_candidate = k
      BY <2>1, <2>3, <3>2 DEF ConnectionRecord
    <3>4. Started(c, connection) /\ watched' = watched /\ healthy' \subseteq Backend
      BY <1>2, <2>3, <2>6, <3>1 DEF Connected, set_backend_health, TypeOK
    <3> QED BY <1>1, <1>2, <1>4, <2>2, <3>3, <3>4, StartedKeepsInv
  <2>7. CASE InProgress(c)
    <3>1. PICK connection : connection = [Taken(c)[c] EXCEPT !.connect = "pending"]
      OBVIOUS
    <3>2. connection = [conn[c] EXCEPT !.next_candidate = k, !.connect = "pending"]
      BY <2>1, <2>4, <3>1 DEF ConnectionRecord
    <3>3. /\ connection \in ConnectionRecord /\ connection.state = "connecting"
          /\ connection.connect = "pending" /\ connection.client_fd = conn[c].client_fd
          /\ connection.candidates = conn[c].candidates /\ connection.next_candidate = k
      BY <2>1, <2>3, <3>2 DEF ConnectionRecord
    <3>4. /\ Started(c, connection) /\ watched' = watched \cup {NewFd}
          /\ healthy' \subseteq Backend
      BY <1>2, <2>7, <3>1 DEF InProgress, register_write_event, TypeOK
    <3> QED BY <1>1, <1>2, <1>4, <2>2, <3>3, <3>4, StartedKeepsInv
  <2>8. CASE NoFilter(c)
    BY <1>1, <1>2, <1>4, <2>8, NoFilterKeepsInv
  <2> QED BY <1>3, <1>4, <2>5, <2>6, <2>7, <2>8 DEF TryCandidate
<1> QED BY <1>1, <1>3, <1>4 DEF TryNextBackend

-----------------------------------------------------------------------------
(* The invariant, and what follows from it.                                *)

LEMMA ThrowsKeepsInv ==
  ASSUME EventLoopInv, Throws
  PROVE  EventLoopInv'
<1>1. draining' \in BOOLEAN /\ Leave /\ UNCHANGED <<healthVars, worldVars>>
  BY DEF EventLoopInv, Throws, Observe, observe_shutdown, TypeOK
<1> QED BY <1>1, LeaveKeepsInv

LEMMA StutterKeepsInv ==
  ASSUME EventLoopInv, UNCHANGED vars
  PROVE  EventLoopInv'
<1>1. /\ UNCHANGED <<at, connVars, listening_fd, draining, events, healthVars, socket, watched,
                     worldVars>>
  BY DEF vars
<1>2. TypeOK'
  BY <1>1 DEF EventLoopInv, TypeOK, connVars, healthVars, worldVars
<1>3. EventsAreFresh' /\ PlaceInLoop'
  BY <1>1 DEF EventLoopInv, EventsAreFresh, PlaceInLoop, Held, connVars
<1> QED BY <1>1, <1>2, <1>3, QuietStep DEF worldVars

LEMMA NextKeepsInv ==
  ASSUME EventLoopInv, [Next]_vars
  PROVE  EventLoopInv'
<1>1. CASE Outside
  BY <1>1, TheOutsideKeepsInv, ConnectingGoesOn DEF Outside
<1>2. CASE Server
  <2>1. CASE Listen
    BY <2>1, ListenKeepsInv
  <2>2. CASE Register
    BY <2>2, RegisterKeepsInv
  <2>3. CASE Top
    BY <2>3, TopKeepsInv
  <2>4. CASE KeventWait
    BY <2>4, KeventWaitKeepsInv
  <2>5. CASE HandleEvent
    BY <2>5, HandleEventKeepsInv
  <2>6. CASE AcceptClient
    BY <2>6, AcceptClientKeepsInv
  <2>7. CASE AcceptEnds
    BY <2>7, AcceptEndsKeepsInv
  <2>8. CASE DropClient
    BY <2>8, DropClientKeepsInv
  <2>9. CASE SetupClient
    BY <2>9, SetupClientKeepsInv
  <2>10. CASE InsertClient
    BY <2>10, InsertClientKeepsInv
  <2>11. CASE TryNextBackend
    BY <2>11, TryNextBackendKeepsInv
  <2>12. CASE EndBatch
    BY <2>12, EndBatchKeepsInv
  <2>13. CASE Expire
    BY <2>13, ExpireKeepsInv
  <2>14. CASE ReleaseRetired
    BY <2>14, ReleaseKeepsInv
  <2>15. CASE Throws
    BY <2>15, ThrowsKeepsInv
  <2> QED BY <1>2, <2>1, <2>2, <2>3, <2>4, <2>5, <2>6, <2>7, <2>8, <2>9, <2>10, <2>11, <2>12,
             <2>13, <2>14, <2>15 DEF Server
<1>3. CASE Stopped \/ UNCHANGED vars
  BY <1>3, StutterKeepsInv DEF Stopped
<1> QED BY <1>1, <1>2, <1>3 DEF Next

\* Through every interleaving of clients, backends, deadlines, signals and failing calls,
\* the maps, the sockets, the kernel and the place in the loop agree.
THEOREM Invariance == Spec => []EventLoopInv
<1>1. Init => EventLoopInv
  BY InitInv
<1>2. EventLoopInv /\ [Next]_vars => EventLoopInv'
  BY NextKeepsInv
<1> QED BY <1>1, <1>2, PTL DEF Spec

\* The variables of run_kqueue_server keep their types; so no candidate beyond the last
\* is taken and no descriptor beyond MaxFd is needed.
THEOREM TypeCorrect == Spec => []TypeOK
<1>1. EventLoopInv => TypeOK
  BY DEF EventLoopInv
<1> QED BY <1>1, Invariance, PTL

\* fd_to_connection holds the descriptors of the live connections and no others, and the
\* kernel has given each to a socket of that connection.
THEOREM MapsAreExact == Spec => []MapsExact
<1>1. ASSUME EventLoopInv
      PROVE  MapsExact
  <2>1. MapsAgree
    BY <1>1 DEF EventLoopInv
  <2>2. ASSUME NEW f \in DOMAIN fd_to_connection
        PROVE  LET c == fd_to_connection[f] IN
               c \in connections /\ f \in SocketsOf(c) /\ socket[f][1] = c
    BY <2>1 DEF MapsAgree
  <2>3. DOMAIN fd_to_connection = UNION {SocketsOf(c) : c \in connections}
    BY <2>1, <2>2 DEF MapsAgree
  <2> QED BY <2>2, <2>3 DEF MapsExact
<1> QED BY <1>1, Invariance, PTL

\* No notification of a batch reaches the next owner of its descriptor, whatever was
\* retired, closed and opened since kevent() returned: retired_connections and
\* retired_backend_sockets keep the descriptors open for long enough.
THEOREM NothingStaleIsDispatched == Spec => []NoStaleDispatch
<1>1. ASSUME EventLoopInv
      PROVE  NoStaleDispatch
  <2>1. ASSUME NEW e \in events, e.kind # "signal"
        PROVE  /\ e.fd \in DOMAIN fd_to_connection =>
                    e.about = socket[e.fd] /\ e.about[1] = fd_to_connection[e.fd]
               /\ e.fd = listening_fd => e.about = Listener
    <3>1. e.fd \in Fd /\ e.about = socket[e.fd]
      BY <1>1, <2>1 DEF EventLoopInv, EventsAreFresh
    <3>2. e.fd \in DOMAIN fd_to_connection => socket[e.fd][1] = fd_to_connection[e.fd]
      BY <1>1 DEF EventLoopInv, MapsAgree
    <3>3. e.fd = listening_fd => socket[e.fd] = Listener
      BY <1>1, <3>1, Constants DEF EventLoopInv, ListenerIsKnown, valid
    <3> QED BY <3>1, <3>2, <3>3
  <2> QED BY <2>1 DEF NoStaleDispatch
<1> QED BY <1>1, Invariance, PTL

\* When the loop sleeps in kevent(), and when run_kqueue_server has been left by its end or
\* by an exception, no descriptor is open but those of the live connections and the listener.
THEOREM NothingLeaks == Spec => []NoDescriptorLeak
<1>1. ASSUME EventLoopInv, at.pc \in {"wait", "stopped"}, NEW f \in Fd
      PROVE  socket[f] # Closed <=>
               f \in DOMAIN fd_to_connection \/ f \in {x \in {listening_fd} : valid(x)}
  <2>1. TypeOK /\ MapsAgree /\ ListenerIsKnown /\ retired = {} /\ ClientSocket = {}
    BY <1>1 DEF EventLoopInv, PlaceInLoop, Asleep, ClientSocket
  <2>2. ASSUME NEW c \in Client, f \in SocketsOf(c)
        PROVE  f \in DOMAIN fd_to_connection
    <3>1. Held(c) /\ ConnectionIsSound(c)
      BY <1>1, <2>2, SocketsAreTheirs DEF EventLoopInv
    <3>2. c \in connections
      BY <1>1, <3>1 DEF ConnectionIsSound
    <3> QED BY <2>1, <2>2, <3>2 DEF MapsAgree
  <2>3. ASSUME socket[f] # Closed
        PROVE  f \in DOMAIN fd_to_connection \/ f \in {x \in {listening_fd} : valid(x)}
    <3>1. HasOwner(f)
      BY <1>1, <2>3 DEF EventLoopInv, OpenIsOwned
    <3> QED BY <2>1, <2>2, <3>1, Constants DEF HasOwner, valid
  <2>4. ASSUME f \in DOMAIN fd_to_connection
        PROVE  socket[f] # Closed
    <3>1. socket[f][1] \in Client
      BY <2>1, <2>4 DEF MapsAgree, TypeOK
    <3> QED BY <3>1, Constants DEF Closed
  <2>5. ASSUME f = listening_fd, valid(f)
        PROVE  socket[f] # Closed
    BY <2>1, <2>5, Constants DEF ListenerIsKnown
  <2> QED BY <2>3, <2>4, <2>5
<1>2. ASSUME EventLoopInv
      PROVE  NoDescriptorLeak
  <2>1. DOMAIN fd_to_connection \subseteq Fd /\ (valid(listening_fd) => listening_fd \in Fd)
    BY <1>2 DEF EventLoopInv, TypeOK, ListenerIsKnown
  <2> QED BY <1>1, <1>2, <2>1 DEF NoDescriptorLeak
<1> QED BY <1>2, Invariance, PTL

\* A connection that waits for its backend when the loop goes to sleep will be woken: the
\* kernel watches its connect.
THEOREM EveryConnectIsWatched == Spec => []ConnectIsWatched
<1>1. ASSUME EventLoopInv, at.pc = "wait", NEW c \in Connecting
      PROVE  conn[c].backend_fd \in watched /\ conn[c].connect # "none"
  <2>1. c \in connections /\ conn[c].state = "connecting" /\ ~BetweenAttempts(c)
    BY <1>1 DEF Connecting, BetweenAttempts
  <2>2. c \in Client /\ Held(c) /\ ConnectionIsSound(c)
    BY <1>1, <2>1 DEF EventLoopInv, TypeOK, PlaceInLoop
  <2> QED BY <2>1, <2>2 DEF ConnectionIsSound
<1>2. EventLoopInv => ConnectIsWatched
  BY <1>1 DEF ConnectIsWatched
<1> QED BY <1>2, Invariance, PTL

-----------------------------------------------------------------------------
(* What a step may do to the connections.                                  *)

\* run_kqueue_server is left, a client is admitted, or one connection is retired: by a
\* notification that fd_to_connection leads to it, by its deadline, or between attempts.
LEMMA ConnectionsChange ==
  ASSUME [Next]_vars, connections' # connections
  PROVE  \/ Leave /\ (SetupErrors \/ connections = {} \/ drain_expired)
         \/ connections \subseteq connections' /\ ~draining
         \/ \E e \in events :
              /\ e.kind # "signal" /\ events' = events \ {e} /\ e.fd \in DOMAIN fd_to_connection
              /\ connections' = connections \ {fd_to_connection[e.fd]}
              /\ \/ conn[fd_to_connection[e.fd]].state # "connecting"
                 \/ conn[fd_to_connection[e.fd]].state = "connecting"
                    /\ (SetupErrors \/ drain_expired)
         \/ \E c \in at.expired :
              /\ connections' = connections \ {c}
              /\ SetupErrors \/ drain_expired \/ conn[c].state # "connecting"
         \/ /\ at.pc = "try" /\ connections' = connections \ {at.cur}
            /\ \/ SetupErrors \/ drain_expired
               \/ conn[at.cur].next_candidate = Len(conn[at.cur].candidates)
<1>1. CASE Outside \/ Stopped \/ UNCHANGED vars
  BY <1>1 DEF Outside, Arrive, ConnectEnds, DeadlinePasses, DrainDeadlinePasses, Signal, Stopped,
              vars, connVars
<1>2. CASE Listen \/ Register \/ KeventWait \/ AcceptClient \/ AcceptEnds \/ DropClient
           \/ SetupClient \/ EndBatch \/ ReleaseRetired
  BY <1>2 DEF Listen, Register, KeventWait, AcceptClient, AcceptEnds, DropClient, SetupClient,
              EndBatch, ReleaseRetired, connVars
<1>3. CASE Top
  BY <1>3 DEF Top, connVars
<1>4. CASE Throws
  BY <1>4 DEF Throws
<1>5. CASE InsertClient
  BY <1>5 DEF InsertClient, AdmitsClient, observe_shutdown
<1>6. ASSUME NEW c, NEW to, retry_backend(c, to)
      PROVE  /\ connections' = connections \ {c}
             /\ SetupErrors \/ drain_expired \/ conn[c].state # "connecting"
  BY <1>6 DEF retry_backend, Abandon, retire_connection
<1>7. CASE HandleEvent
  <2>1. PICK e \in events : /\ events' = events \ {e}
                            /\ HandleSignal(e) \/ HandleListener(e) \/ HandleSocket(e)
    BY <1>7 DEF HandleEvent
  <2>2. ~Skip
    BY DEF Skip, connVars
  <2>3. HandleSocket(e)
    <3>1. ~HandleSignal(e)
      BY <2>2 DEF HandleSignal
    <3>2. ~HandleListener(e)
      BY DEF HandleListener, Skip, connVars
    <3> QED BY <2>1, <3>1, <3>2
  <2>4. PICK c : /\ e.kind # "signal" /\ e.fd \in DOMAIN fd_to_connection
                 /\ c = fd_to_connection[e.fd]
                 /\ HandleRelay(c) \/ HandleConnecting(e, c)
    BY <2>2, <2>3 DEF HandleSocket
  <2>5. HandleConnected(c) => connections' = connections \/ (SetupErrors /\ retire_connection(c))
    BY DEF HandleConnected
  <2>6. retire_connection(c) => connections' = connections \ {c}
    BY DEF retire_connection
  <2>7. /\ connections' = connections \ {c}
        /\ conn[c].state = "connecting" => SetupErrors \/ drain_expired
    <3>1. CASE HandleRelay(c)
      BY <2>2, <2>6, <3>1 DEF HandleRelay
    <3>2. CASE retry_backend(c, "dispatch")
      BY <1>6, <3>2
    <3>3. CASE HandleConnected(c)
      <4>1. SetupErrors /\ retire_connection(c)
        BY <2>5, <3>3
      <4> QED BY <2>6, <4>1
    <3> QED BY <2>2, <2>4, <3>1, <3>2, <3>3 DEF HandleConnecting
  <2> QED BY <2>1, <2>4, <2>7
<1>8. CASE Expire
  BY <1>6, <1>8 DEF Expire
<1>9. CASE TryNextBackend
  <2>1. PICK c : c = at.cur
    OBVIOUS
  <2>2. GiveUp(c) \/ NoFilter(c) => connections' = connections \ {c}
    BY DEF GiveUp, retire_connection, NoFilter
  <2>3. CASE conn[c].next_candidate = Len(conn[c].candidates) /\ GiveUp(c)
    BY <1>9, <2>1, <2>2, <2>3 DEF TryNextBackend
  <2>4. CASE drain_expired /\ GiveUp(c)
    BY <1>9, <2>1, <2>2, <2>4 DEF TryNextBackend
  <2>5. ASSUME NEW result \in start_backend_connect, TryCandidate(c, result)
        PROVE  SetupErrors /\ (GiveUp(c) \/ NoFilter(c))
    BY <2>5 DEF TryCandidate, start_backend_connect, Refused, Connected, InProgress, Started
  <2> QED BY <1>9, <2>1, <2>2, <2>3, <2>4, <2>5 DEF TryNextBackend
<1> QED BY <1>1, <1>2, <1>3, <1>4, <1>5, <1>7, <1>8, <1>9 DEF Next, Server

\* While the server drains no connection is added, also not one whose accept() returned
\* before the signal was observed.
THEOREM NobodyIsAdmittedWhileDraining == Spec => DrainAdmitsNobody
<1>1. ASSUME [Next]_vars, draining
      PROVE  connections' \subseteq connections
  <2>1. Leave => connections' = {}
    BY DEF Leave
  <2> QED BY <1>1, <2>1, ConnectionsChange
<1>2. [Next]_vars => [draining => connections' \subseteq connections]_vars
  BY <1>1
<1> QED BY <1>2, PTL DEF Spec, DrainAdmitsNobody

\* As long as local calls do not fail, try_next_backend and retry_backend give a client up
\* only after the last candidate or at the drain deadline.
THEOREM CandidatesAreExhausted == Spec => EveryCandidateTried
<1>1. ASSUME [Next]_vars, NEW c \in Connecting, c \notin connections'
      PROVE  \/ SetupErrors \/ drain_expired
             \/ conn[c].next_candidate = Len(conn[c].candidates)
  <2>1. c \in connections /\ conn[c].state = "connecting"
    BY DEF Connecting
  <2> QED BY <1>1, <2>1, ConnectionsChange
<1>2. [Next]_vars => [\A c \in Connecting : c \notin connections' =>
                        \/ SetupErrors \/ drain_expired
                        \/ conn[c].next_candidate = Len(conn[c].candidates)]_vars
  BY <1>1
<1> QED BY <1>2, PTL DEF Spec, EveryCandidateTried

\* While the server goes on, an established connection ends only by a notification about
\* a socket of its own.
THEOREM ConnectionsEndByOwnEvents == Spec => EndsByOwnEvent
<1>1. ASSUME EventLoopInv, [Next]_vars, NEW c \in connections, conn[c].state = "established",
             c \notin connections'
      PROVE  at'.pc = "stopped" \/ \E e \in events \ events' : e.about[1] = c
  <2>1. CASE Leave
    <3>1. at \in Position
      BY <1>1 DEF EventLoopInv, TypeOK
    <3> QED BY <2>1, <3>1 DEF Leave, Position
  <2>2. ASSUME NEW e \in events, e.kind # "signal", events' = events \ {e},
               e.fd \in DOMAIN fd_to_connection, fd_to_connection[e.fd] = c
        PROVE  e \in events \ events' /\ e.about[1] = c
    BY <1>1, <2>2 DEF EventLoopInv, EventsAreFresh, MapsAgree
  <2>3. \A d \in at.expired : d # c
    BY <1>1 DEF EventLoopInv, PlaceInLoop
  <2>4. at.pc = "try" => at.cur # c
    BY <1>1 DEF EventLoopInv, PlaceInLoop
  <2> QED BY <1>1, <2>1, <2>2, <2>3, <2>4, ConnectionsChange
<1>2. EventLoopInv /\ [Next]_vars =>
        [\A c \in connections : conn[c].state = "established" /\ c \notin connections' =>
           at'.pc = "stopped" \/ \E e \in events \ events' : e.about[1] = c]_vars
  BY <1>1
<1> QED BY <1>2, Invariance, PTL DEF Spec, EndsByOwnEvent
=============================================================================

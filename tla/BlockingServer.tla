--------------------------- MODULE BlockingServer ---------------------------
(***************************************************************************)
(* The blocking proxy (src/server.cpp) around its connections: the accept  *)
(* loop, one thread per client that looks for a backend                    *)
(* (connect_to_healthy_backend of src/backend.cpp), the health checker's   *)
(* thread, and the way down after a signal.                                *)
(*                                                                         *)
(* The threads share next_backend_index, the healthy flags and             *)
(* stop_requested, all atomic: a step reads or writes one of them, or is   *)
(* one blocking call.  Forwarding is module BlockingRelay's: here it may   *)
(* end at any time, and does once the client's socket was shut down (its   *)
(* property ThreadsEnd).                                                   *)
(***************************************************************************)
EXTENDS Backends, FiniteSets

CONSTANTS MaxClients,    \* how many clients will connect
          MaxChanges,    \* how often a backend goes down or comes up
          CheckErrors    \* whether local calls of the health checker may fail

ASSUME BlockingServerAssumption ==
  MaxClients \in Nat /\ MaxChanges \in Nat /\ CheckErrors \in BOOLEAN

Client == 1 .. MaxClients

VARIABLES
  main,                    \* where run_server is
  arrived,                 \* how many clients have connected to the listener
  thread,                  \* client -> its connection thread
  active_client_sockets,
  to_shut,                 \* those that shutdown_server has not come to yet
  shut,                    \* clients whose socket it has shut down
  signalled,               \* shutdown_signal_received
  stop_requested,
  healthy,                 \* backends whose healthy flag is set
  next_backend_index,
  checker,                 \* the health checker's thread
  up,                      \* backends that accept connections
  changes,                 \* how often up has changed
  ruled_out,               \* client -> backends it has tried, or has seen flagged
  revived                  \* client -> a good verdict was stored since it began

mainVars   == <<main, active_client_sockets, to_shut, shut, stop_requested>>
healthVars == <<healthy, next_backend_index>>
worldVars  == <<arrived, signalled, up, changes>>
history    == <<ruled_out, revived>>
vars       == <<mainVars, thread, healthVars, checker, worldVars, history>>

\* scan is the offset of choose_backend's loop, backend what it chose; a field that has
\* gone out of scope is 0.
Thread == [at : {"none", "choose", "scan", "connect", "mark", "forward", "over", "refused", "failed"},
           attempts : 0 .. NumBackends, start : Backend, scan : 0 .. NumBackends,
           backend : Backend]
NoThread == [at |-> "none", attempts |-> 0, start |-> 0, scan |-> 0, backend |-> 0]

Alive(c) == thread[c].at \notin {"none", "over", "refused", "failed"}

Init ==
  /\ main = "check" /\ arrived = 0
  /\ thread = [c \in Client |-> NoThread]
  /\ active_client_sockets = {} /\ to_shut = {} /\ shut = {}
  /\ signalled = FALSE /\ stop_requested = FALSE
  /\ healthy = Backend /\ next_backend_index = 0
  /\ checker = [at |-> "round", backend |-> 0, result |-> "none"]
  /\ up = Backend /\ changes = 0
  /\ ruled_out = [c \in Client |-> {}] /\ revived = [c \in Client |-> FALSE]

-----------------------------------------------------------------------------
(* Clients, backends and the signal.                                       *)

Arrive ==
  /\ arrived < MaxClients /\ main \in {"check", "accept"}
  /\ arrived' = arrived + 1
  /\ UNCHANGED <<mainVars, thread, healthVars, checker, signalled, up, changes, history>>

Change(b) ==
  /\ changes < MaxChanges
  /\ changes' = changes + 1
  /\ up' = IF b \in up THEN up \ {b} ELSE up \cup {b}
  /\ UNCHANGED <<mainVars, thread, healthVars, checker, arrived, signalled, history>>

\* The kernel gives the signal to one of the threads: accept() returns EINTR only if it
\* is the main thread.
Signal ==
  /\ ~signalled
  /\ signalled' = TRUE
  /\ main' \in {main} \cup {p \in {"check"} : main = "accept"}
  /\ UNCHANGED <<active_client_sockets, to_shut, shut, stop_requested, thread, healthVars, checker,
                 arrived, up, changes, history>>

-----------------------------------------------------------------------------
(* run_server.                                                             *)

CheckSignal ==
  /\ main = "check"
  /\ main' = IF signalled THEN "shutdown_server" ELSE "accept"
  /\ UNCHANGED <<active_client_sockets, to_shut, shut, stop_requested, thread, healthVars, checker,
                 worldVars, history>>

NextClient == Cardinality({c \in Client : thread[c].at # "none"}) + 1

\* accept() returns; the socket is remembered and its thread started.
Forgets(c)   == UNCHANGED active_client_sockets
Remembers(c) == active_client_sockets' = active_client_sockets \cup {c}
Accept ==
  /\ main = "accept" /\ NextClient <= arrived
  /\ Remembers(NextClient)
  /\ thread' = [thread EXCEPT ![NextClient].at = "choose"]
  /\ main' = "check"
  /\ UNCHANGED <<to_shut, shut, stop_requested, healthVars, checker, worldVars, history>>

\* accept() or the socket's setup throws: the catch clause, and the same way down.
AcceptThrows ==
  /\ main = "accept"
  /\ main' = "shutdown_server"
  /\ UNCHANGED <<active_client_sockets, to_shut, shut, stop_requested, thread, healthVars, checker,
                 worldVars, history>>

BeginShutdown ==
  /\ main = "shutdown_server"
  /\ stop_requested' = TRUE
  /\ to_shut' = active_client_sockets
  /\ main' = "shutting"
  /\ UNCHANGED <<active_client_sockets, shut, thread, healthVars, checker, worldVars, history>>

\* weak_socket.lock() is null once the client's thread has ended.
ShutNext ==
  /\ main = "shutting"
  /\ \E c \in to_shut :
       /\ to_shut' = to_shut \ {c}
       /\ shut' = shut \cup {x \in {c} : Alive(x)}
  /\ UNCHANGED <<main, active_client_sockets, stop_requested, thread, healthVars, checker, worldVars,
                 history>>

\* The jthreads are joined when run_server is left.
JoinAll ==
  /\ main = "shutting" /\ to_shut = {}
  /\ \A c \in Client : ~Alive(c)
  /\ checker.at = "ended"
  /\ main' = "done"
  /\ UNCHANGED <<active_client_sockets, to_shut, shut, stop_requested, thread, healthVars, checker,
                 worldVars, history>>

Main == \/ CheckSignal \/ Accept \/ BeginShutdown \/ ShutNext \/ JoinAll

-----------------------------------------------------------------------------
(* A connection thread.                                                    *)

Becomes(c, t) == thread' = [thread EXCEPT ![c] = t]
Ends(c, how)  == Becomes(c, [NoThread EXCEPT !.at = how])

\* The loop of connect_to_healthy_backend, and the fetch_add of choose_backend.
OneAttemptShort == NumBackends - 1
MaxAttempts     == NumBackends
Choose(c) ==
  LET t == thread[c] IN
  /\ t.at = "choose"
  /\ \/ /\ t.attempts < MaxAttempts
        /\ Becomes(c, [t EXCEPT !.at = "scan", !.start = next_backend_index])
        /\ next_backend_index' = NextIndex(next_backend_index)
     \/ /\ t.attempts >= MaxAttempts
        /\ Ends(c, "refused")
        /\ UNCHANGED next_backend_index
  /\ UNCHANGED <<mainVars, healthy, checker, worldVars, history>>

\* One iteration of choose_backend's loop; at its end it throws.
Scan(c) ==
  LET t == thread[c]
      b == Rotation(t.start)[t.scan + 1]
  IN
  /\ t.at = "scan"
  /\ \/ /\ t.scan = NumBackends
        /\ Ends(c, "refused")
        /\ UNCHANGED ruled_out
     \/ /\ t.scan < NumBackends /\ b \in healthy
        /\ Becomes(c, [t EXCEPT !.at = "connect", !.start = 0, !.scan = 0, !.backend = b])
        /\ UNCHANGED ruled_out
     \/ /\ t.scan < NumBackends /\ b \notin healthy
        /\ Becomes(c, [t EXCEPT !.scan = @ + 1])
        /\ ruled_out' = [ruled_out EXCEPT ![c] = @ \cup {b}]
  /\ UNCHANGED <<mainVars, healthVars, checker, worldVars, revived>>

\* try_connect_to_backend: connected; or no connection, for which a local error of
\* connect() is enough; or an exception, which ends the thread.
Connect(c) ==
  LET t == thread[c] IN
  /\ t.at = "connect"
  /\ \/ /\ t.backend \in up
        /\ Becomes(c, [NoThread EXCEPT !.at = "forward", !.backend = t.backend])
        /\ UNCHANGED ruled_out
     \/ /\ Becomes(c, [t EXCEPT !.at = "mark"])
        /\ ruled_out' = [ruled_out EXCEPT ![c] = @ \cup {t.backend}]
     \/ /\ Ends(c, "failed")
        /\ UNCHANGED ruled_out
  /\ UNCHANGED <<mainVars, healthVars, checker, worldVars, revived>>

\* set_backend_health(backend, false), and the next attempt.
Mark(c) ==
  LET t == thread[c] IN
  /\ t.at = "mark"
  /\ healthy' = set_backend_health(healthy, t.backend, FALSE)
  /\ Becomes(c, [t EXCEPT !.at = "choose", !.attempts = @ + 1, !.backend = 0])
  /\ UNCHANGED <<mainVars, next_backend_index, checker, worldVars, history>>

\* Both forward_data threads were joined; one of them may have cleared the flag.
ForwardEnds(c) ==
  /\ thread[c].at = "forward"
  /\ healthy' \in {healthy, set_backend_health(healthy, thread[c].backend, FALSE)}
  /\ Ends(c, "over")
  /\ UNCHANGED <<mainVars, next_backend_index, checker, worldVars, history>>

Looking(c) == Choose(c) \/ Scan(c) \/ Connect(c) \/ Mark(c)

-----------------------------------------------------------------------------
(* health_check_loop.                                                      *)

\* stop_requested is read once per round, after the sleep.
Round ==
  /\ checker.at = "round"
  /\ checker' = IF stop_requested THEN [checker EXCEPT !.at = "ended"]
                ELSE [checker EXCEPT !.at = "check", !.backend = 0]
  /\ UNCHANGED <<mainVars, thread, healthVars, worldVars, history>>

\* check_backend_health.
Check ==
  /\ checker.at = "check"
  /\ \E result \in {"healthy", "unhealthy", "check_failed"} :
       /\ result = "healthy"      => checker.backend \in up
       /\ result = "unhealthy"    => checker.backend \notin up \/ CheckErrors
       /\ result = "check_failed" => CheckErrors
       /\ checker' = [checker EXCEPT !.at = "store", !.result = result]
  /\ UNCHANGED <<mainVars, thread, healthVars, worldVars, history>>

\* The verdict is stored, and the loop goes on to the next backend or to sleep.
StoredOnlyIfBad(b, result) == IF result = "unhealthy" THEN healthy \ {b} ELSE healthy
Stored(b, result) ==
  IF result = "check_failed" THEN healthy
  ELSE set_backend_health(healthy, b, result = "healthy")
Store ==
  /\ checker.at = "store"
  /\ healthy' = Stored(checker.backend, checker.result)
  /\ checker' = IF checker.backend = NumBackends - 1
                THEN [at |-> "round", backend |-> 0, result |-> "none"]
                ELSE [at |-> "check", backend |-> checker.backend + 1, result |-> "none"]
  /\ revived' = [c \in Client |-> revived[c] \/ (Alive(c) /\ checker.result = "healthy")]
  /\ UNCHANGED <<mainVars, thread, next_backend_index, worldVars, ruled_out>>

health_check_loop == Round \/ Check \/ Store

-----------------------------------------------------------------------------

Done == main = "done" /\ UNCHANGED vars

Next == \/ Arrive \/ Signal \/ (\E b \in Backend : Change(b))
        \/ Main \/ AcceptThrows
        \/ (\E c \in Client : Looking(c) \/ ForwardEnds(c))
        \/ health_check_loop
        \/ Done

\* Threads run; accept() need not fail.  Forwarding ends once the client's socket was
\* shut down (BlockingRelay), otherwise it may go on for ever.
Fairness ==
  /\ WF_vars(Main) /\ WF_vars(health_check_loop)
  /\ \A c \in Client : WF_vars(Looking(c)) /\ WF_vars(c \in shut /\ ForwardEnds(c))

Spec     == Init /\ [][Next]_vars
FairSpec == Spec /\ Fairness

-----------------------------------------------------------------------------
(* Properties.                                                             *)

\* The variables have their types.
TypeOK ==
  /\ main \in {"check", "accept", "shutdown_server", "shutting", "done"}
  /\ arrived \in 0 .. MaxClients
  /\ thread \in [Client -> Thread]
  /\ active_client_sockets \subseteq Client /\ to_shut \subseteq Client /\ shut \subseteq Client
  /\ signalled \in BOOLEAN /\ stop_requested \in BOOLEAN
  /\ healthy \subseteq Backend /\ next_backend_index \in Backend
  /\ checker \in [at : {"round", "check", "store", "ended"}, backend : Backend,
                  result : {"none", "healthy", "unhealthy", "check_failed"}]
  /\ up \subseteq Backend /\ changes \in 0 .. MaxChanges
  /\ ruled_out \in [Client -> SUBSET Backend] /\ revived \in [Client -> BOOLEAN]

\* However many threads choose and mark at the same time, a client is turned away only
\* if it has itself tried every backend or seen its flag cleared -- unless a backend was
\* found healthy again meanwhile, which it may then have missed.
TurnedAwayForGoodReason ==
  \A c \in Client :
    thread[c].at = "refused" =>
      revived[c] \/ ruled_out[c] = Backend

\* When shutdown_server is over, every client that is still being served was shut down,
\* those included that were still looking for a backend: run_server can join them.
EveryClientShut ==
  main = "shutting" /\ to_shut = {} => \A c \in Client : Alive(c) => c \in shut

\* The flags follow the backends: while the checker runs, the flag of a backend that
\* stays up is in the end set for good, and the flag of one that stays down cleared,
\* also when a connection thread stores an older verdict after the checker's.
HealthConverges ==
  \A b \in Backend :
    /\ <>[](b \in up /\ ~stop_requested)    => <>[](b \in healthy)
    /\ <>[](b \notin up /\ ~stop_requested) => <>[](b \notin healthy)

\* A signal that finds the main thread outside of accept(), or that is followed by one
\* more client, ends the server: every connection thread and the checker are joined.
\* (A signal given to another thread leaves accept() waiting for that client.)
StopsWithNextClient ==
  (signalled /\ (main = "check" \/ NextClient <= arrived)) ~> main = "done"
=============================================================================

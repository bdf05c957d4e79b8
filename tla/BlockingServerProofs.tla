------------------------ MODULE BlockingServerProofs ------------------------
(***************************************************************************)
(* Safety of BlockingServer for every number of clients, backends and      *)
(* changes: its types, that a client is turned away only for a good        *)
(* reason, and that the server comes to every client before it waits for   *)
(* all of them.                                                            *)
(***************************************************************************)
EXTENDS BlockingServer, BackendsProofs

-----------------------------------------------------------------------------
(* The inductive invariant.                                                *)

\* The clients served so far are the first ones that came.
InOrder ==
  \E k \in 0 .. arrived : \A c \in Client : thread[c].at # "none" <=> c <= k

\* Every client with a thread was remembered; on the way down those that are not yet
\* shut are still to be.
Remembered ==
  /\ \A c \in Client : thread[c].at # "none" => c \in active_client_sockets
  /\ main = "shutting" => \A c \in Client : Alive(c) => c \in shut \cup to_shut

\* A thread counts an attempt only behind connect_to_healthy_backend's bound, and a scan
\* begins with the first backend of the rotation.
Place(c) ==
  LET t == thread[c] IN
  /\ t.at = "none" => t = NoThread /\ ruled_out[c] = {}
  /\ t.at \in {"scan", "connect", "mark"} => t.attempts < NumBackends
  /\ t.at \in {"choose", "connect", "mark"} => t.scan = 0

\* Unless a good verdict was stored since, no backend that the client has ruled out is
\* flagged healthy (but the one it is about to mark), so the backend that it tries next is a
\* new one: it has ruled out at least as many backends as it has made attempts.
Searching(c) == thread[c].at \in {"choose", "scan", "connect", "mark"}
Marking(c)   == thread[c].at = "mark"
Search(c) ==
  LET t == thread[c]
      R == ruled_out[c]
  IN
  Searching(c) /\ ~revived[c] =>
    /\ healthy \cap R \subseteq (IF Marking(c) THEN {t.backend} ELSE {})
    /\ t.attempts + (IF Marking(c) THEN 1 ELSE 0) <= Cardinality(R)
    /\ t.at = "scan" => \A k \in 1 .. t.scan : Rotation(t.start)[k] \in R
    /\ t.at = "connect" => t.backend \notin R

ServerInv ==
  /\ TypeOK
  /\ InOrder
  /\ Remembered
  /\ \A c \in Client : Place(c) /\ Search(c)
  /\ TurnedAwayForGoodReason

-----------------------------------------------------------------------------
(* What the invariant says of a client that a step leaves alone.           *)

LEMMA NoThreadFacts == NoThread \in Thread /\ NoThread.at = "none"
BY NumBackendsAssumption DEF NoThread, Thread, Backend

LEMMA ThreadFacts ==
  ASSUME TypeOK, NEW c \in Client
  PROVE  /\ thread[c] \in Thread
         /\ thread[c].attempts \in 0 .. NumBackends /\ thread[c].scan \in 0 .. NumBackends
         /\ thread[c].start \in Backend /\ thread[c].backend \in Backend
         /\ ruled_out[c] \subseteq Backend /\ IsFiniteSet(ruled_out[c])
         /\ Cardinality(ruled_out[c]) \in Nat
         /\ NumBackends \in Nat \ {0}
<1>1. thread[c] \in Thread /\ ruled_out[c] \in SUBSET Backend
  BY DEF TypeOK
<1>2. IsFiniteSet(ruled_out[c])
  BY <1>1, BackendCount, FS_Subset
<1>3. Cardinality(ruled_out[c]) \in Nat
  BY <1>2, FS_CardinalityType
<1> QED BY <1>1, <1>2, <1>3, NumBackendsAssumption DEF Thread

\* One more backend is ruled out.
LEMMA RuleOut ==
  ASSUME NEW R \in SUBSET Backend, IsFiniteSet(R), Cardinality(R) \in Nat, NEW b \in Backend
  PROVE  /\ R \cup {b} \in SUBSET Backend
         /\ Cardinality(R \cup {b}) \in Nat /\ Cardinality(R) <= Cardinality(R \cup {b})
         /\ b \notin R => Cardinality(R \cup {b}) = Cardinality(R) + 1
<1>1. Cardinality(R \cup {b}) = IF b \in R THEN Cardinality(R) ELSE Cardinality(R) + 1
  BY FS_AddElement
<1> DEFINE q == Cardinality(R \cup {b})
           r == Cardinality(R)
<1>2. q = (IF b \in R THEN r ELSE r + 1) /\ r \in Nat
  BY <1>1
<1> HIDE DEF q, r
<1>3. q \in Nat /\ r <= q /\ (b \notin R => q = r + 1)
  BY <1>2
<1> QED BY <1>3 DEF q, r

\* A good verdict is all that can set a flag, and whoever is searching then is revived.
LEMMA ClientFrame ==
  ASSUME NEW c \in Client, Place(c), Search(c),
         thread'[c] = thread[c], ruled_out'[c] = ruled_out[c],
         revived[c] => revived'[c],
         Searching(c) /\ ~revived'[c] => healthy' \subseteq healthy
  PROVE  Place(c)' /\ Search(c)'
<1>1. Place(c)'
  BY DEF Place
<1>2. Search(c)'
  <2> SUFFICES ASSUME Searching(c)', ~revived'[c]
               PROVE  Search(c)'
    BY DEF Search
  <2>1. Searching(c) /\ ~revived[c] /\ healthy' \subseteq healthy /\ (Marking(c)' <=> Marking(c))
    BY DEF Searching, Marking
  <2> QED BY <2>1 DEF Search
<1> QED BY <1>1, <1>2

\* A step of the thread of c, from its new state t and what it has ruled out then.
LEMMA ClientStep ==
  ASSUME ServerInv, NEW c \in Client, NEW t \in Thread, NEW R \in SUBSET Backend,
         thread[c].at # "none", t.at # "none", Alive(c),
         thread' = [thread EXCEPT ![c] = t],
         ruled_out' = [ruled_out EXCEPT ![c] = R],
         healthy' \subseteq healthy,
         next_backend_index' \in Backend,
         UNCHANGED <<mainVars, checker, worldVars, revived>>,
         Place(c)', Search(c)',
         t.at = "refused" => revived[c] \/ R = Backend
  PROVE  ServerInv'
<1> USE DEF ServerInv
<1>1. /\ thread'[c] = t /\ ruled_out'[c] = R
      /\ \A x \in Client \ {c} : thread'[x] = thread[x] /\ ruled_out'[x] = ruled_out[x]
  BY DEF TypeOK
<1>2. TypeOK'
  BY DEF TypeOK, mainVars, worldVars
<1>3. InOrder'
  BY <1>1 DEF InOrder, worldVars
<1>4. Remembered'
  BY <1>1 DEF Remembered, Alive, mainVars
<1>5. ASSUME NEW x \in Client PROVE Place(x)' /\ Search(x)'
  <2>1. CASE x = c
    BY <2>1
  <2>2. CASE x # c
    BY <1>1, <2>2, ClientFrame
  <2> QED BY <2>1, <2>2
<1>6. TurnedAwayForGoodReason'
  BY <1>1 DEF TurnedAwayForGoodReason
<1> QED BY <1>2, <1>3, <1>4, <1>5, <1>6

\* A step that no connection thread sees.
LEMMA UnseenStep ==
  ASSUME ServerInv, TypeOK', InOrder', Remembered',
         UNCHANGED <<thread, ruled_out, revived, healthy>>
  PROVE  ServerInv'
<1>1. \A c \in Client : Place(c)' /\ Search(c)'
  BY ClientFrame DEF ServerInv
<1>2. TurnedAwayForGoodReason'
  BY DEF ServerInv, TurnedAwayForGoodReason
<1> QED BY <1>1, <1>2 DEF ServerInv

-----------------------------------------------------------------------------
(* The initial state, the outside and run_server.                          *)

LEMMA InitInv == Init => ServerInv
<1> SUFFICES ASSUME Init PROVE ServerInv
  OBVIOUS
<1> USE DEF Init
<1>1. TypeOK
  <2>1. 0 \in Backend /\ 0 \in 0 .. MaxClients /\ 0 \in 0 .. MaxChanges
    BY NumBackendsAssumption, BlockingServerAssumption DEF Backend
  <2> QED BY <2>1, NoThreadFacts DEF TypeOK
<1>2. InOrder
  BY NoThreadFacts, BlockingServerAssumption DEF InOrder, Client
<1>3. Remembered
  BY NoThreadFacts DEF Remembered
<1>4. \A c \in Client : Place(c) /\ Search(c)
  BY NoThreadFacts DEF Place, Search, Searching
<1>5. TurnedAwayForGoodReason
  BY NoThreadFacts DEF TurnedAwayForGoodReason
<1> QED BY <1>1, <1>2, <1>3, <1>4, <1>5 DEF ServerInv

LEMMA OutsideKeepsInv ==
  ASSUME ServerInv, Arrive \/ Signal \/ \E b \in Backend : Change(b)
  PROVE  ServerInv'
<1>1. UNCHANGED <<thread, ruled_out, revived, healthy, active_client_sockets, to_shut, shut,
                  stop_requested, next_backend_index, checker>>
  BY DEF Arrive, Signal, Change, mainVars, healthVars, history
<1>2. /\ main' \in {main} \cup {p \in {"check"} : main = "accept"}
      /\ arrived' \in 0 .. MaxClients /\ arrived <= arrived'
  BY BlockingServerAssumption DEF Arrive, Signal, Change, mainVars, ServerInv, TypeOK
<1>3. signalled' \in BOOLEAN /\ up' \subseteq Backend /\ changes' \in 0 .. MaxChanges
  <2>1. signalled \in BOOLEAN /\ up \subseteq Backend /\ changes \in 0 .. MaxChanges
    BY DEF ServerInv, TypeOK
  <2>2. CASE Arrive \/ Signal
    BY <2>1, <2>2 DEF Arrive, Signal
  <2>3. ASSUME NEW b \in Backend, Change(b)
        PROVE  signalled' \in BOOLEAN /\ up' \subseteq Backend /\ changes' \in 0 .. MaxChanges
    <3>1. changes' \in 0 .. MaxChanges
      BY <2>1, <2>3, BlockingServerAssumption DEF Change
    <3> QED BY <2>1, <2>3, <3>1 DEF Change
  <2> QED BY <2>2, <2>3
<1>4. TypeOK'
  BY <1>1, <1>2, <1>3 DEF ServerInv, TypeOK
<1>5. InOrder'
  <2>1. PICK k \in 0 .. arrived : \A c \in Client : thread[c].at # "none" <=> c <= k
    BY DEF ServerInv, InOrder
  <2>2. k \in 0 .. arrived'
    BY <1>2 DEF ServerInv, TypeOK
  <2> QED BY <1>1, <2>1, <2>2 DEF InOrder
<1>6. Remembered'
  BY <1>1, <1>2 DEF ServerInv, Remembered, Alive
<1> QED BY <1>1, <1>4, <1>5, <1>6, UnseenStep

\* The main thread outside of accept(): shutdown_server begins with everyone who has a
\* thread, and leaves out only those whose thread has ended.
LEMMA MainKeepsInv ==
  ASSUME ServerInv, CheckSignal \/ AcceptThrows \/ BeginShutdown \/ ShutNext \/ JoinAll
  PROVE  ServerInv'
<1>1. UNCHANGED <<thread, ruled_out, revived, healthy, active_client_sockets,
                  next_backend_index, checker, arrived, signalled, up, changes>>
  BY DEF CheckSignal, AcceptThrows, BeginShutdown, ShutNext, JoinAll, healthVars, history,
         worldVars
<1>2. TypeOK'
  BY <1>1 DEF ServerInv, TypeOK, CheckSignal, AcceptThrows, BeginShutdown, ShutNext, JoinAll
<1>3. InOrder'
  BY <1>1 DEF ServerInv, InOrder
<1>4. Remembered'
  <2>1. \A c \in Client : (Alive(c) <=> Alive(c)') /\ (Alive(c) => c \in active_client_sockets)
    BY <1>1 DEF ServerInv, Remembered, Alive
  <2>2. CASE CheckSignal \/ AcceptThrows \/ JoinAll
    BY <1>1, <2>2 DEF ServerInv, Remembered, CheckSignal, AcceptThrows, JoinAll
  <2>3. CASE BeginShutdown
    BY <1>1, <2>1, <2>3 DEF ServerInv, Remembered, BeginShutdown
  <2>4. CASE ShutNext
    BY <1>1, <2>1, <2>4 DEF ServerInv, Remembered, ShutNext
  <2> QED BY <2>2, <2>3, <2>4
<1> QED BY <1>1, <1>2, <1>3, <1>4, UnseenStep

\* accept() returns: the next client in the order of arrival, which had no thread.
LEMMA AcceptKeepsInv ==
  ASSUME ServerInv, Accept
  PROVE  ServerInv'
<1> DEFINE n == NextClient
<1>1. /\ main = "accept" /\ n <= arrived /\ main' = "check"
      /\ active_client_sockets' = active_client_sockets \cup {n}
      /\ thread' = [thread EXCEPT ![n].at = "choose"]
      /\ UNCHANGED <<to_shut, shut, stop_requested, healthy, next_backend_index, checker, arrived,
                     signalled, up, changes, ruled_out, revived>>
  BY DEF Accept, Remembers, healthVars, worldVars, history
<1>2. PICK k \in 0 .. arrived : \A c \in Client : thread[c].at # "none" <=> c <= k
  BY DEF ServerInv, InOrder
<1>3. arrived \in 0 .. MaxClients /\ MaxClients \in Nat
  BY BlockingServerAssumption DEF ServerInv, TypeOK
<1>4. n = k + 1 /\ k \in Nat
  <2>1. {c \in Client : thread[c].at # "none"} = 1 .. k
    BY <1>2, <1>3 DEF Client
  <2>2. Cardinality(1 .. k) = k /\ k \in Nat
    BY <1>3, FS_Interval
  <2> QED BY <2>1, <2>2 DEF NextClient
<1> HIDE DEF n
<1>5. n \in Client /\ n \in 0 .. arrived
  BY <1>1, <1>3, <1>4 DEF Client
<1>6. thread[n] = NoThread /\ ruled_out[n] = {}
  <2>1. thread[n].at = "none"
    BY <1>2, <1>3, <1>4, <1>5
  <2> QED BY <1>5, <2>1 DEF ServerInv, Place
<1> DEFINE t == [NoThread EXCEPT !.at = "choose"]
<1>7. /\ t \in Thread /\ t.at = "choose" /\ t.attempts = 0 /\ t.scan = 0
  BY NumBackendsAssumption DEF NoThread, Thread, Backend
<1>8. thread' = [thread EXCEPT ![n] = t]
  BY <1>1, <1>5, <1>6 DEF ServerInv, TypeOK
<1> HIDE DEF t
<1>9. thread'[n] = t /\ \A x \in Client \ {n} : thread'[x] = thread[x]
  BY <1>5, <1>8 DEF ServerInv, TypeOK
<1>10. TypeOK'
  BY <1>1, <1>5, <1>7, <1>8 DEF ServerInv, TypeOK
<1>11. InOrder'
  <2>1. \A c \in Client : thread'[c].at # "none" <=> c <= n
    BY <1>2, <1>3, <1>4, <1>7, <1>9 DEF Client
  <2> QED BY <1>1, <1>5, <2>1 DEF InOrder
<1>12. Remembered'
  BY <1>1, <1>9 DEF ServerInv, Remembered
<1>13. ASSUME NEW x \in Client PROVE Place(x)' /\ Search(x)'
  <2>1. CASE x = n
    <3>1. Place(x)'
      BY <1>7, <1>9, <2>1 DEF Place
    <3>2. /\ ~Marking(x)' /\ ruled_out'[x] = {} /\ thread'[x].attempts = 0
          /\ thread'[x].at = "choose" /\ Cardinality({}) = 0
      BY <1>1, <1>6, <1>7, <1>9, <2>1, FS_EmptySet DEF Marking
    <3>3. Search(x)'
      BY <3>2 DEF Search
    <3> QED BY <3>1, <3>3
  <2>2. CASE x # n
    <3>1. thread'[x] = thread[x]
      BY <1>9, <2>2
    <3> QED BY <1>1, <3>1, ClientFrame DEF ServerInv
  <2> QED BY <2>1, <2>2
<1>14. TurnedAwayForGoodReason'
  BY <1>1, <1>7, <1>9 DEF ServerInv, TurnedAwayForGoodReason
<1> QED BY <1>10, <1>11, <1>12, <1>13, <1>14 DEF ServerInv

-----------------------------------------------------------------------------
(* The connection threads.                                                 *)

\* An attempt begins, from wherever the counter is; after as many as there are backends every
\* one of them has been ruled out.
LEMMA ChooseKeepsInv ==
  ASSUME ServerInv, NEW c \in Client, Choose(c)
  PROVE  ServerInv'
<1> DEFINE s == thread[c]
           R == ruled_out[c]
<1>1. /\ s \in Thread /\ s.attempts \in 0 .. NumBackends /\ R \subseteq Backend
      /\ IsFiniteSet(R) /\ Cardinality(R) \in Nat /\ NumBackends \in Nat \ {0}
  BY ThreadFacts DEF ServerInv
<1>2. /\ s.at = "choose" /\ s.scan = 0 /\ Alive(c)
      /\ UNCHANGED <<mainVars, healthy, checker, worldVars, revived, ruled_out>>
  BY DEF Choose, history, ServerInv, Place, Alive
<1>3. /\ ruled_out' = [ruled_out EXCEPT ![c] = R]
  BY <1>2 DEF ServerInv, TypeOK
<1>4. ~revived[c] => /\ healthy \cap R = {}
                     /\ s.attempts <= Cardinality(R)
  BY <1>1, <1>2 DEF ServerInv, Search, Searching, Marking
<1>5. CASE s.attempts < NumBackends /\ next_backend_index' = NextIndex(next_backend_index)
           /\ Becomes(c, [s EXCEPT !.at = "scan", !.start = next_backend_index])
  <2> DEFINE t == [s EXCEPT !.at = "scan", !.start = next_backend_index]
  <2>1. /\ t \in Thread /\ t.at = "scan" /\ t.attempts = s.attempts /\ t.scan = 0
    BY <1>1, <1>2 DEF Thread, ServerInv, TypeOK
  <2>2. next_backend_index' \in Backend
    BY <1>5, NextIndexFacts DEF ServerInv, TypeOK
  <2> HIDE DEF t
  <2>3. thread' = [thread EXCEPT ![c] = t] /\ thread'[c] = t
    BY <1>5 DEF Becomes, ServerInv, TypeOK, t
  <2>4. Place(c)'
    BY <1>5, <2>1, <2>3 DEF Place
  <2>5. Search(c)'
    BY <1>1, <1>2, <1>4, <2>1, <2>3 DEF Search, Marking
  <2> QED BY <1>1, <1>2, <1>3, <2>1, <2>2, <2>3, <2>4, <2>5, ClientStep
<1>6. CASE s.attempts >= NumBackends /\ Ends(c, "refused") /\ UNCHANGED next_backend_index
  <2> DEFINE t == [NoThread EXCEPT !.at = "refused"]
  <2>1. t \in Thread /\ t.at = "refused"
    BY NoThreadFacts DEF Thread, NoThread
  <2> HIDE DEF t
  <2>2. thread' = [thread EXCEPT ![c] = t] /\ thread'[c] = t
    BY <1>6 DEF Ends, Becomes, ServerInv, TypeOK, t
  <2>3. revived[c] \/ R = Backend
    <3> SUFFICES ASSUME ~revived[c] PROVE R = Backend
      OBVIOUS
    <3>1. NumBackends <= Cardinality(R)
      BY <1>1, <1>4, <1>6
    <3>2. /\ Cardinality(R) <= Cardinality(Backend)
          /\ Cardinality(Backend) = Cardinality(R) => Backend = R
      BY <1>1, BackendCount, FS_Subset
    <3> QED BY <1>1, <3>1, <3>2, BackendCount
  <2>4. Place(c)' /\ Search(c)'
    BY <2>1, <2>2 DEF Place, Search, Searching
  <2>5. next_backend_index' \in Backend
    BY <1>6 DEF ServerInv, TypeOK
  <2> QED BY <1>1, <1>2, <1>3, <2>1, <2>2, <2>3, <2>4, <2>5, ClientStep
<1> QED BY <1>5, <1>6 DEF Choose, MaxAttempts

\* The flag of the next backend of the rotation is read.  It is set only for a backend that
\* the client has not ruled out, and at the end of the rotation it has ruled out them all.
LEMMA ScanKeepsInv ==
  ASSUME ServerInv, NEW c \in Client, Scan(c)
  PROVE  ServerInv'
<1> DEFINE s == thread[c]
           R == ruled_out[c]
           b == Rotation(s.start)[s.scan + 1]
<1>1. /\ s \in Thread /\ s.attempts \in 0 .. NumBackends /\ R \subseteq Backend
      /\ s.scan \in 0 .. NumBackends /\ s.start \in Backend
      /\ IsFiniteSet(R) /\ Cardinality(R) \in Nat /\ NumBackends \in Nat \ {0}
  BY ThreadFacts DEF ServerInv
<1>2. /\ s.at = "scan" /\ s.attempts < NumBackends /\ Alive(c)
      /\ UNCHANGED <<mainVars, healthy, next_backend_index, checker, worldVars, revived>>
      /\ next_backend_index' \in Backend
  BY DEF Scan, healthVars, ServerInv, TypeOK, Place, Alive
<1>3. ~revived[c] => /\ healthy \cap R = {}
                     /\ s.attempts <= Cardinality(R)
                     /\ \A k \in 1 .. s.scan : Rotation(s.start)[k] \in R
  BY <1>1, <1>2 DEF ServerInv, Search, Searching, Marking
<1>4. CASE s.scan = NumBackends /\ Ends(c, "refused") /\ UNCHANGED ruled_out
  <2> DEFINE t == [NoThread EXCEPT !.at = "refused"]
  <2>1. t \in Thread /\ t.at = "refused"
    BY NoThreadFacts DEF Thread, NoThread
  <2> HIDE DEF t
  <2>2. /\ thread' = [thread EXCEPT ![c] = t] /\ thread'[c] = t
        /\ ruled_out' = [ruled_out EXCEPT ![c] = R]
    BY <1>4 DEF Ends, Becomes, ServerInv, TypeOK, t
  <2>3. revived[c] \/ R = Backend
    <3> SUFFICES ASSUME ~revived[c], NEW x \in Backend PROVE x \in R
      BY <1>1
    <3>1. PICK k \in 1 .. NumBackends : Rotation(s.start)[k] = x
      BY <1>1, RotationOffersAll
    <3> QED BY <1>3, <1>4, <3>1
  <2>4. Place(c)' /\ Search(c)'
    BY <2>1, <2>2 DEF Place, Search, Searching
  <2> QED BY <1>1, <1>2, <2>1, <2>2, <2>3, <2>4, ClientStep
<1>5. CASE s.scan < NumBackends /\ b \in healthy /\ UNCHANGED ruled_out
           /\ Becomes(c, [s EXCEPT !.at = "connect", !.start = 0, !.scan = 0, !.backend = b])
  <2> DEFINE t == [s EXCEPT !.at = "connect", !.start = 0, !.scan = 0, !.backend = b]
  <2>1. b \in Backend /\ 0 \in Backend /\ 0 \in 0 .. NumBackends
    BY <1>5, NumBackendsAssumption DEF ServerInv, TypeOK, Backend
  <2> HIDE DEF b
  <2>2. /\ t \in Thread /\ t.at = "connect" /\ t.attempts = s.attempts /\ t.backend = b
        /\ t.scan = 0
    BY <1>1, <2>1 DEF Thread
  <2>3. thread' = [thread EXCEPT ![c] = t]
    BY <1>5 DEF Becomes, b
  <2> HIDE DEF t
  <2>4. thread'[c] = t /\ ruled_out' = [ruled_out EXCEPT ![c] = R]
    BY <1>5, <2>3 DEF ServerInv, TypeOK
  <2>5. Place(c)'
    BY <1>2, <2>2, <2>4 DEF Place
  <2>6. Search(c)'
    <3>1. ~revived[c] => b \notin R
      BY <1>3, <1>5 DEF b
    <3> QED BY <1>1, <1>2, <1>3, <1>5, <2>2, <2>4, <3>1 DEF Search, Marking
  <2> QED BY <1>1, <1>2, <2>2, <2>3, <2>4, <2>5, <2>6, ClientStep
<1>6. CASE s.scan < NumBackends /\ b \notin healthy
           /\ Becomes(c, [s EXCEPT !.scan = @ + 1])
           /\ ruled_out' = [ruled_out EXCEPT ![c] = @ \cup {b}]
  <2> DEFINE t == [s EXCEPT !.scan = @ + 1]
             Q == R \cup {b}
  <2>1. b \in Backend
    BY <1>1, <1>6, RotationFacts
  <2>2. t \in Thread /\ t.at = "scan" /\ t.attempts = s.attempts /\ t.start = s.start
        /\ t.scan = s.scan + 1
    BY <1>1, <1>2, <1>6 DEF Thread
  <2>3. thread' = [thread EXCEPT ![c] = t] /\ ruled_out' = [ruled_out EXCEPT ![c] = Q]
    BY <1>6 DEF Becomes
  <2>4. Q \in SUBSET Backend /\ Cardinality(Q) \in Nat /\ Cardinality(R) <= Cardinality(Q)
    BY <1>1, <2>1, RuleOut
  <2>5. ~revived[c] => \A k \in 1 .. t.scan : Rotation(t.start)[k] \in Q
    BY <1>1, <1>3, <2>2
  <2>6. ~revived[c] => healthy \cap Q = {}
    BY <1>3, <1>6
  <2> HIDE DEF t, Q, b
  <2>7. thread'[c] = t /\ ruled_out'[c] = Q
    BY <2>3 DEF ServerInv, TypeOK
  <2>8. Place(c)'
    BY <1>2, <2>2, <2>7 DEF Place
  <2>9. Search(c)'
    BY <1>1, <1>2, <1>3, <2>2, <2>4, <2>5, <2>6, <2>7 DEF Search, Marking
  <2> QED BY <1>1, <1>2, <2>2, <2>3, <2>4, <2>8, <2>9, ClientStep
<1> QED BY <1>4, <1>5, <1>6 DEF Scan

\* A backend that did not answer, or may not have been asked, is a new one to be ruled out.
LEMMA ConnectKeepsInv ==
  ASSUME ServerInv, NEW c \in Client, Connect(c)
  PROVE  ServerInv'
<1> DEFINE s == thread[c]
           R == ruled_out[c]
<1>1. /\ s \in Thread /\ s.attempts \in 0 .. NumBackends /\ R \subseteq Backend
      /\ s.backend \in Backend
      /\ IsFiniteSet(R) /\ Cardinality(R) \in Nat /\ NumBackends \in Nat \ {0}
  BY ThreadFacts DEF ServerInv
<1>2. /\ s.at = "connect" /\ s.attempts < NumBackends /\ s.scan = 0 /\ Alive(c)
      /\ UNCHANGED <<mainVars, healthy, next_backend_index, checker, worldVars, revived>>
      /\ next_backend_index' \in Backend
  BY DEF Connect, healthVars, ServerInv, TypeOK, Place, Alive
<1>3. ~revived[c] => /\ healthy \cap R = {} /\ s.backend \notin R
                     /\ s.attempts <= Cardinality(R)
  BY <1>1, <1>2 DEF ServerInv, Search, Searching, Marking
<1>4. ASSUME NEW t \in Thread, t.at \in {"forward", "failed"}, Becomes(c, t), UNCHANGED ruled_out
      PROVE  ServerInv'
  <2>1. /\ thread' = [thread EXCEPT ![c] = t] /\ thread'[c] = t
        /\ ruled_out' = [ruled_out EXCEPT ![c] = R]
    BY <1>4 DEF Becomes, ServerInv, TypeOK
  <2>2. Place(c)' /\ Search(c)'
    BY <1>4, <2>1 DEF Place, Search, Searching
  <2> QED BY <1>1, <1>2, <1>4, <2>1, <2>2, ClientStep
<1>5. CASE Becomes(c, [s EXCEPT !.at = "mark"])
           /\ ruled_out' = [ruled_out EXCEPT ![c] = @ \cup {s.backend}]
  <2> DEFINE t == [s EXCEPT !.at = "mark"]
             Q == R \cup {s.backend}
  <2>1. /\ t \in Thread /\ t.at = "mark" /\ t.attempts = s.attempts /\ t.backend = s.backend
        /\ t.scan = 0
    BY <1>1, <1>2 DEF Thread
  <2>2. thread' = [thread EXCEPT ![c] = t] /\ ruled_out' = [ruled_out EXCEPT ![c] = Q]
    BY <1>5 DEF Becomes
  <2>3. /\ Q \in SUBSET Backend /\ Cardinality(Q) \in Nat
        /\ s.backend \notin R => Cardinality(Q) = Cardinality(R) + 1
    BY <1>1, RuleOut
  <2>4. ~revived[c] => healthy \cap Q \subseteq {t.backend}
    BY <1>3, <2>1
  <2> HIDE DEF t, Q
  <2>5. thread'[c] = t /\ ruled_out'[c] = Q
    BY <2>2 DEF ServerInv, TypeOK
  <2>6. Place(c)'
    BY <1>2, <2>1, <2>5 DEF Place
  <2>7. Search(c)'
    BY <1>1, <1>2, <1>3, <2>1, <2>3, <2>4, <2>5 DEF Search, Marking
  <2> QED BY <1>1, <1>2, <2>1, <2>2, <2>3, <2>6, <2>7, ClientStep
<1>6. /\ [NoThread EXCEPT !.at = "forward", !.backend = s.backend] \in Thread
      /\ [NoThread EXCEPT !.at = "forward", !.backend = s.backend].at = "forward"
      /\ [NoThread EXCEPT !.at = "failed"] \in Thread
      /\ [NoThread EXCEPT !.at = "failed"].at = "failed"
  BY <1>1, NoThreadFacts DEF NoThread, Thread
<1> QED BY <1>4, <1>5, <1>6 DEF Connect, Ends

LEMMA MarkKeepsInv ==
  ASSUME ServerInv, NEW c \in Client, Mark(c)
  PROVE  ServerInv'
<1> DEFINE s == thread[c]
           R == ruled_out[c]
           t == [s EXCEPT !.at = "choose", !.attempts = @ + 1, !.backend = 0]
<1>1. /\ s \in Thread /\ s.attempts \in 0 .. NumBackends /\ R \subseteq Backend
      /\ s.backend \in Backend
      /\ IsFiniteSet(R) /\ Cardinality(R) \in Nat /\ NumBackends \in Nat \ {0}
  BY ThreadFacts DEF ServerInv
<1>2. /\ s.at = "mark" /\ s.attempts < NumBackends /\ s.scan = 0 /\ Alive(c)
      /\ UNCHANGED <<mainVars, next_backend_index, checker, worldVars, revived, ruled_out>>
      /\ next_backend_index' \in Backend
      /\ thread' = [thread EXCEPT ![c] = t] /\ healthy' = healthy \ {s.backend}
  BY DEF Mark, history, Becomes, ServerInv, TypeOK, Place, Alive, set_backend_health
<1>3. ~revived[c] => /\ healthy \cap R \subseteq {s.backend}
                     /\ s.attempts + 1 <= Cardinality(R)
  BY <1>1, <1>2 DEF ServerInv, Search, Searching, Marking
<1>4. t \in Thread /\ t.at = "choose" /\ t.attempts = s.attempts + 1 /\ t.scan = 0
  <2>1. s.attempts + 1 \in 0 .. NumBackends /\ 0 \in Backend
    BY <1>1, <1>2 DEF Backend
  <2> QED BY <1>1, <1>2, <2>1 DEF Thread
<1> HIDE DEF t
<1>5. thread'[c] = t /\ ruled_out' = [ruled_out EXCEPT ![c] = R] /\ healthy' \subseteq healthy
  BY <1>2 DEF ServerInv, TypeOK
<1>6. Place(c)'
  BY <1>4, <1>5 DEF Place
<1>7. Search(c)'
  <2>1. ~revived[c] => healthy' \cap R = {}
    BY <1>2, <1>3
  <2> QED BY <1>1, <1>2, <1>3, <1>4, <1>5, <2>1 DEF Search, Marking
<1> QED BY <1>1, <1>2, <1>4, <1>5, <1>6, <1>7, ClientStep

LEMMA ForwardEndsKeepsInv ==
  ASSUME ServerInv, NEW c \in Client, ForwardEnds(c)
  PROVE  ServerInv'
<1> DEFINE t == [NoThread EXCEPT !.at = "over"]
           R == ruled_out[c]
<1>1. t \in Thread /\ t.at = "over"
  BY NoThreadFacts DEF Thread, NoThread
<1>2. /\ thread[c].at = "forward" /\ Alive(c) /\ thread' = [thread EXCEPT ![c] = t]
      /\ healthy' \subseteq healthy
      /\ UNCHANGED <<mainVars, next_backend_index, checker, worldVars, revived, ruled_out>>
  BY DEF ForwardEnds, Ends, Becomes, Alive, history, set_backend_health
<1> HIDE DEF t
<1>3. /\ thread'[c] = t /\ ruled_out' = [ruled_out EXCEPT ![c] = R] /\ R \in SUBSET Backend
      /\ next_backend_index' \in Backend
  BY <1>2 DEF ServerInv, TypeOK
<1>4. Place(c)' /\ Search(c)'
  BY <1>1, <1>3 DEF Place, Search, Searching
<1> QED BY <1>1, <1>2, <1>3, <1>4, ClientStep

-----------------------------------------------------------------------------
(* The health checker.                                                     *)

LEMMA CheckerKeepsInv ==
  ASSUME ServerInv, health_check_loop
  PROVE  ServerInv'
<1>1. /\ UNCHANGED <<mainVars, thread, next_backend_index, worldVars, ruled_out>>
      /\ InOrder' /\ Remembered'
  <2>1. UNCHANGED <<mainVars, thread, next_backend_index, worldVars, ruled_out>>
    BY DEF health_check_loop, Round, Check, Store, healthVars, history
  <2> QED BY <2>1 DEF ServerInv, InOrder, Remembered, Alive, mainVars, worldVars
<1>2. CASE Round \/ Check
  <2>1. checker' \in [at : {"round", "check", "store", "ended"}, backend : Backend,
                      result : {"none", "healthy", "unhealthy", "check_failed"}]
    <3>1. /\ checker \in [at : {"round", "check", "store", "ended"}, backend : Backend,
                          result : {"none", "healthy", "unhealthy", "check_failed"}]
          /\ 0 \in Backend
      BY NumBackendsAssumption DEF ServerInv, TypeOK, Backend
    <3>2. CASE Round
      <4>1. \/ checker' = [checker EXCEPT !.at = "ended"]
            \/ checker' = [checker EXCEPT !.at = "check", !.backend = 0]
        BY <3>2 DEF Round
      <4> QED BY <3>1, <4>1
    <3>3. CASE Check
      <4>1. PICK result \in {"healthy", "unhealthy", "check_failed"} :
              checker' = [checker EXCEPT !.at = "store", !.result = result]
        BY <3>3 DEF Check
      <4> QED BY <3>1, <4>1
    <3> QED BY <1>2, <3>2, <3>3
  <2>2. UNCHANGED <<healthy, revived>>
    BY <1>2 DEF Round, Check, healthVars, history
  <2>3. TypeOK'
    BY <1>1, <2>1, <2>2 DEF ServerInv, TypeOK, mainVars, worldVars
  <2> QED BY <1>1, <2>2, <2>3, UnseenStep
<1>3. CASE Store
  <2>1. checker' \in [at : {"round", "check", "store", "ended"}, backend : Backend,
                      result : {"none", "healthy", "unhealthy", "check_failed"}]
    <3>1. /\ checker.backend \in Backend /\ 0 \in Backend
          /\ checker.backend # NumBackends - 1 => checker.backend + 1 \in Backend
      BY NumBackendsAssumption DEF ServerInv, TypeOK, Backend
    <3>2. CASE checker.backend = NumBackends - 1
      <4>1. checker' = [at |-> "round", backend |-> 0, result |-> "none"]
        BY <1>3, <3>2 DEF Store
      <4> QED BY <3>1, <4>1
    <3>3. CASE checker.backend # NumBackends - 1
      <4>1. checker' = [at |-> "check", backend |-> checker.backend + 1, result |-> "none"]
        BY <1>3, <3>3 DEF Store
      <4> QED BY <3>1, <3>3, <4>1
    <3> QED BY <3>2, <3>3
  <2>2. /\ healthy' = Stored(checker.backend, checker.result)
        /\ checker.backend \in Backend
        /\ revived' = [c \in Client |-> revived[c] \/ (Alive(c) /\ checker.result = "healthy")]
    BY <1>3 DEF Store, ServerInv, TypeOK
  <2>3. healthy' \subseteq Backend /\ (checker.result # "healthy" => healthy' \subseteq healthy)
    BY <2>2 DEF Stored, set_backend_health, ServerInv, TypeOK
  <2>4. revived' \in [Client -> BOOLEAN]
    BY <2>2 DEF ServerInv, TypeOK
  <2>5. TypeOK'
    BY <1>1, <2>1, <2>3, <2>4 DEF ServerInv, TypeOK, mainVars, worldVars
  <2>6. ASSUME NEW c \in Client PROVE Place(c)' /\ Search(c)'
    <3>1. Searching(c) => Alive(c)
      BY DEF Searching, Alive
    <3>2. revived[c] => revived'[c]
      BY <2>2
    <3>3. Searching(c) /\ ~revived'[c] => healthy' \subseteq healthy
      BY <2>2, <2>3, <3>1
    <3> QED BY <1>1, <3>2, <3>3, ClientFrame DEF ServerInv
  <2>7. TurnedAwayForGoodReason'
    BY <1>1, <2>2 DEF ServerInv, TurnedAwayForGoodReason
  <2> QED BY <1>1, <2>5, <2>6, <2>7 DEF ServerInv
<1> QED BY <1>2, <1>3 DEF health_check_loop

-----------------------------------------------------------------------------
(* The theorems.                                                           *)

LEMMA NextKeepsInv == ServerInv /\ [Next]_vars => ServerInv'
<1> SUFFICES ASSUME ServerInv, [Next]_vars PROVE ServerInv'
  OBVIOUS
<1>1. CASE Arrive \/ Signal \/ \E b \in Backend : Change(b)
  BY <1>1, OutsideKeepsInv
<1>2. CASE Main \/ AcceptThrows
  BY <1>2, MainKeepsInv, AcceptKeepsInv DEF Main
<1>3. ASSUME NEW c \in Client, Looking(c) \/ ForwardEnds(c) PROVE ServerInv'
  BY <1>3, ChooseKeepsInv, ScanKeepsInv, ConnectKeepsInv, MarkKeepsInv, ForwardEndsKeepsInv
     DEF Looking
<1>4. CASE health_check_loop
  BY <1>4, CheckerKeepsInv
<1>5. CASE UNCHANGED vars
  <2>1. TypeOK' /\ InOrder' /\ Remembered'
    BY <1>5 DEF vars, mainVars, healthVars, worldVars, history, ServerInv, TypeOK, InOrder,
                Remembered, Alive
  <2> QED BY <1>5, <2>1, UnseenStep DEF vars, healthVars, history
<1> QED BY <1>1, <1>2, <1>3, <1>4, <1>5 DEF Next, Done

\* ServerInv holds in every state of the blocking proxy, for every number of clients and
\* backends.
THEOREM Invariance == Spec => []ServerInv
BY InitInv, NextKeepsInv, PTL DEF Spec

\* The variables keep their types: no thread tries more often than there are backends, and no
\* scan leaves the rotation.
THEOREM TypeCorrect == Spec => []TypeOK
BY Invariance, PTL DEF ServerInv

\* However the threads that choose, scan and mark interleave, connect_to_healthy_backend throws
\* only for a client that has itself ruled out every backend, or may have missed one found
\* healthy meanwhile.
THEOREM TurnedAwayRightly == Spec => []TurnedAwayForGoodReason
BY Invariance, PTL DEF ServerInv

\* When shutdown_server has gone through the sockets it remembered, it has shut down the socket
\* of every client that still has a running thread.
THEOREM EveryClientIsShut == Spec => []EveryClientShut
<1>1. ServerInv => EveryClientShut
  BY DEF ServerInv, Remembered, EveryClientShut
<1> QED BY <1>1, Invariance, PTL
=============================================================================

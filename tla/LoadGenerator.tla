--------------------------- MODULE LoadGenerator ---------------------------
(***************************************************************************)
(* src/load_generator.cpp: the worker threads, the std::barrier that they  *)
(* and main meet at between warm-up and measurement, and the counts and    *)
(* latencies that main reports.  A request (perform_request) is one step   *)
(* that succeeds, throws, or kills the process: no socket here has         *)
(* SO_NOSIGPIPE, so a send() after a reset may raise SIGPIPE.  Module      *)
(* RequestPath takes the step apart.                                       *)
(***************************************************************************)
EXTENDS Statistics

CONSTANTS Workers,    \* one per connection
          Warmup,     \* warmup_requests
          Requests,   \* requests_per_client
          Latencies   \* the latencies that a request may take

ASSUME LoadGeneratorAssumption ==
  /\ IsFiniteSet(Workers)
  /\ Warmup \in Nat /\ Requests \in Nat
  /\ Latencies \subseteq Nat

VARIABLES
  state,      \* worker -> where its thread is
  warm,       \* worker -> warm-up requests done
  arrived,    \* the workers that have arrived at start_barrier
  completed,  \* worker -> result.completed_requests
  failed,     \* worker -> result.failed_requests
  latencies,  \* worker -> result.latencies_us
  main        \* where main is, or that the process was killed

vars == <<state, warm, arrived, completed, failed, latencies, main>>

Init ==
  /\ state     = [w \in Workers |-> "connecting"]
  /\ warm      = [w \in Workers |-> 0]
  /\ arrived   = {}
  /\ completed = [w \in Workers |-> 0]
  /\ failed    = [w \in Workers |-> 0]
  /\ latencies = [w \in Workers |-> <<>>]
  /\ main      = "spawning"

Running == main # "killed"

Goto(w, s) == state' = [state EXCEPT ![w] = s]

Connect(w) ==
  /\ state[w] = "connecting"
  /\ Goto(w, "warming")
  /\ UNCHANGED <<warm, arrived, completed, failed, latencies, main>>

WarmUp(w) ==
  /\ state[w] = "warming" /\ warm[w] < Warmup
  /\ warm' = [warm EXCEPT ![w] = @ + 1]
  /\ UNCHANGED <<state, arrived, completed, failed, latencies, main>>

\* An exception of connect_to_proxy or of a warm-up request: the outer catch.
FailSetup(w) ==
  /\ state[w] = "connecting" \/ (state[w] = "warming" /\ warm[w] < Warmup)
  /\ failed' = [failed EXCEPT ![w] = @ + Requests]
  /\ Goto(w, "finished")
  /\ UNCHANGED <<warm, arrived, completed, latencies, main>>

\* start_barrier.arrive_and_wait(); the barrier expects every worker and main.
ArriveEarly(w) ==
  /\ state[w] = "warming"
  /\ arrived' = arrived \cup {w}
  /\ Goto(w, "waiting")
  /\ UNCHANGED <<warm, completed, failed, latencies, main>>
Arrive(w) ==
  /\ state[w] = "warming" /\ warm[w] = Warmup
  /\ arrived' = arrived \cup {w}
  /\ Goto(w, "waiting")
  /\ UNCHANGED <<warm, completed, failed, latencies, main>>

MainArrives ==
  /\ main = "spawning"
  /\ main' = "waiting"
  /\ UNCHANGED <<state, warm, arrived, completed, failed, latencies>>

OneTooMany   == Cardinality(Workers) + 2
Expected     == Cardinality(Workers) + 1
ArrivedCount == Cardinality(arrived) + (IF main = "spawning" THEN 0 ELSE 1)

MainReleased ==
  /\ main = "waiting" /\ ArrivedCount >= Expected
  /\ main' = "timing"
  /\ UNCHANGED <<state, warm, arrived, completed, failed, latencies>>

Released(w) ==
  /\ state[w] = "waiting" /\ ArrivedCount >= Expected
  /\ Goto(w, "measuring")
  /\ UNCHANGED <<warm, arrived, completed, failed, latencies, main>>

Complete(w) ==
  /\ state[w] = "measuring" /\ completed[w] < Requests
  /\ \E l \in Latencies : latencies' = [latencies EXCEPT ![w] = Append(@, l)]
  /\ completed' = [completed EXCEPT ![w] = @ + 1]
  /\ UNCHANGED <<state, warm, arrived, failed, main>>

\* The inner catch: one failure ends the worker's loop.
FailAndGoOn(w) ==
  /\ state[w] = "measuring" /\ completed[w] < Requests
  /\ failed' = [failed EXCEPT ![w] = @ + 1]
  /\ UNCHANGED <<state, warm, arrived, completed, latencies, main>>
FailRequest(w) ==
  /\ state[w] = "measuring" /\ completed[w] < Requests
  /\ failed' = [failed EXCEPT ![w] = @ + 1]
  /\ Goto(w, "finished")
  /\ UNCHANGED <<warm, arrived, completed, latencies, main>>

Finish(w) ==
  /\ state[w] = "measuring" /\ completed[w] = Requests
  /\ Goto(w, "finished")
  /\ UNCHANGED <<warm, arrived, completed, failed, latencies, main>>

\* A request sends on a connection that was reset: SIGPIPE ends the process.
InRequest(w) == \/ state[w] = "warming" /\ warm[w] < Warmup
                \/ state[w] = "measuring" /\ completed[w] < Requests
Killed(w) ==
  /\ InRequest(w)
  /\ main' = "killed"
  /\ UNCHANGED <<state, warm, arrived, completed, failed, latencies>>

\* What main collects from the results of all workers, and the three percentiles.
all_latencies ==
  LET Measurements == {m \in Workers \X (1 .. Requests) : m[2] <= Len(latencies[m[1]])}
  IN [m \in Measurements |-> latencies[m[1]][m[2]]]
Percentile(p) == percentile(sorted(all_latencies), p)

\* Every thread was joined; the sums and percentiles are printed.
Report ==
  /\ main = "timing" /\ \A w \in Workers : state[w] = "finished"
  /\ main' = "reported"
  /\ UNCHANGED <<state, warm, arrived, completed, failed, latencies>>

Worker(w) == \/ Connect(w) \/ WarmUp(w) \/ FailSetup(w) \/ Arrive(w) \/ Released(w)
             \/ Complete(w) \/ FailRequest(w) \/ Killed(w) \/ Finish(w)
Main      == MainArrives \/ MainReleased \/ Report

Done == main \in {"reported", "killed"} /\ UNCHANGED vars

Next == \/ Running /\ \E w \in Workers : Worker(w)
        \/ Running /\ Main
        \/ Done

\* Threads run, and a request ends in one way or the other (RequestPath).
Spec     == Init /\ [][Next]_vars
FairSpec == /\ Spec
            /\ WF_vars(Running /\ Main)
            /\ \A w \in Workers : WF_vars(Running /\ Worker(w))

-----------------------------------------------------------------------------
(* Properties.                                                             *)

\* The variables have their types.
TypeOK ==
  /\ state \in [Workers -> {"connecting", "warming", "waiting", "measuring", "finished"}]
  /\ warm \in [Workers -> 0 .. Warmup]
  /\ arrived \subseteq Workers
  /\ completed \in [Workers -> 0 .. Requests]
  /\ failed \in [Workers -> Nat]
  /\ latencies \in [Workers -> Seq(Latencies)]
  /\ main \in {"spawning", "waiting", "timing", "reported", "killed"}

\* "Start timing only after setup + warm-up": neither the clock of main nor a measured
\* request of any worker runs before every worker is connected and warmed up.
MeasuredWhenAllWarm ==
  main \in {"timing", "reported"} \/ (\E w \in Workers : state[w] = "measuring")
    => \A w \in Workers : w \in arrived /\ warm[w] = Warmup

\* What main prints as failed requests is the number of connections that broke off:
\* a failed worker counts once, however many of its requests it did not make, and the
\* catch that counts all of them is never reported.
FailedCountsConnections ==
  main = "reported" =>
    \A w \in Workers : failed[w] = (IF completed[w] < Requests THEN 1 ELSE 0)

\* "Every worker participates, plus main": a worker that is over has arrived.
EveryWorkerParticipates ==
  \A w \in Workers : state[w] = "finished" => w \in arrived

\* If no worker fails before the barrier, and no send() kills the process, the benchmark
\* ends with a report.
ReportsUnlessSetupFails ==
  []EveryWorkerParticipates => <>(main \in {"reported", "killed"})

\* The percentiles that main prints are those of all completed requests: one latency was
\* kept for each, p50 <= p95 <= p99, and at each of them less than the named share of the
\* size - 1 steps between the values, plus one value, lies below, and the rest above.
PercentilesAreRanks ==
  main = "reported" =>
    LET steps == Cardinality(DOMAIN all_latencies) - 1
        inHundredths == [m \in DOMAIN all_latencies |-> 100 * all_latencies[m]]
    IN /\ \A w \in Workers : Len(latencies[w]) = completed[w]
       /\ Percentile(50) <= Percentile(95) /\ Percentile(95) <= Percentile(99)
       /\ steps >= 0 => \A p \in {50, 95, 99} :
            /\ 100 * Cardinality(Below(inHundredths, Percentile(p))) < p * steps + 100
            /\ 100 * Cardinality(Above(inHundredths, Percentile(p))) < (100 - p) * steps + 100
=============================================================================

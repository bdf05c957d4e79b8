------------------------------ MODULE Backends ------------------------------
(***************************************************************************)
(* The order in which src/backend.cpp offers its backends: the counter     *)
(* next_backend_index is advanced by every choice, and the rotation that   *)
(* starts there is looked through for the healthy ones.  Backend number b  *)
(* is backends[b]; the counter is kept modulo their number.                *)
(***************************************************************************)
EXTENDS Integers, Sequences

CONSTANT NumBackends

ASSUME NumBackendsAssumption == NumBackends \in Nat \ {0}

Backend == 0 .. NumBackends - 1

NextIndexPastTheEnd(i) == i + 1
NextIndex(i) == (i + 1) % NumBackends

RotationUnwrapped(start) == [k \in 1 .. NumBackends |-> start + k - 1]

\* All backends once, from start_index on.
Rotation(start) == [k \in 1 .. NumBackends |-> (start + k - 1) % NumBackends]

\* The loop of backend_candidates that fills one vector: the backends of the rotation
\* that are in chosen, in its order.
InOrderOf(rotation, chosen) ==
  LET vector[k \in 0 .. NumBackends] ==
        IF k = 0 THEN <<>>
        ELSE IF rotation[k] \in chosen THEN Append(vector[k - 1], rotation[k])
        ELSE vector[k - 1]
  IN vector[NumBackends]

\* The vector it returns: a healthy backend is preferred, but an unhealthy one is still
\* a candidate.
backend_candidates(start, healthy) ==
  InOrderOf(Rotation(start), healthy) \o InOrderOf(Rotation(start), Backend \ healthy)

\* The backends flagged healthy after set_backend_health(b, is_healthy).
set_backend_health(healthy, b, is_healthy) ==
  IF is_healthy THEN healthy \cup {b} ELSE healthy \ {b}
=============================================================================

-------------------------- MODULE MCBlockingRelay --------------------------
(* Instances of BlockingRelay for TLC: the lengths of the two streams.      *)
EXTENDS BlockingRelay

TwoWay  == [client_to_backend |-> 4, backend_to_client |-> 2]
Request == [client_to_backend |-> 3, backend_to_client |-> 1]
=============================================================================

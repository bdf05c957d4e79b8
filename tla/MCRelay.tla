------------------------------ MODULE MCRelay ------------------------------
(* Instances of Relay for TLC: the lengths of the two streams.              *)
EXTENDS Relay

OneWay  == [client_to_backend |-> 6, backend_to_client |-> 0]
TwoWay  == [client_to_backend |-> 3, backend_to_client |-> 1]
Request == [client_to_backend |-> 4, backend_to_client |-> 1]
=============================================================================

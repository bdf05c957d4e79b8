---------------------------- MODULE MCEventLoop ----------------------------
(* Instances of EventLoop for TLC: as many descriptors as can ever be open. *)
EXTENDS EventLoop

Descriptors == 1 + MaxClients * (1 + NumBackends)
=============================================================================

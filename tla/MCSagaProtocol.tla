---------------------------- MODULE MCSagaProtocol ----------------------------
(* SagaProtocol for TLC: the configuration gives the number of steps. *)
EXTENDS SagaProtocol
===============================================================================

---------------------------- MODULE MCOrderShipping ----------------------------
(* OrderShipping for TLC. *)
EXTENDS OrderShipping, TLC

===============================================================================

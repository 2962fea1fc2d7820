---------------------------- MODULE MCCachedOrders ----------------------------
(* CachedOrders for TLC. *)
EXTENDS CachedOrders, TLC

===============================================================================

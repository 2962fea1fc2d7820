-------------------------- MODULE MCCacheInvalidation --------------------------
(* CacheInvalidation for TLC. *)
EXTENDS CacheInvalidation, TLC

===============================================================================

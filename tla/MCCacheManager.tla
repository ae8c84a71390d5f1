--------------------------- MODULE MCCacheManager ---------------------------
(* The cache manager for a few requests; the .cfg files choose the RPC     *)
(* methods, and with them the keys, the types and the warmers.             *)
EXTENDS CacheManager, TLC

\* Requests are interchangeable.
ReqSymmetry == Permutations(Reqs)
=============================================================================

---------------------------- MODULE MCCacheQueue -----------------------------
(* Model-checking instances of CacheQueue. *)
EXTENDS CacheQueue, TLC

(* Proxy threads, segments and cache workers are interchangeable.  Used     *)
(* only where no liveness property is checked.                              *)
Symmetry == Permutations(Threads) \cup Permutations(Workers) \cup Permutations(Segments)

=============================================================================

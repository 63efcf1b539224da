---------------------------- MODULE MCPolicyCache ----------------------------
(***************************************************************************)
(* Small instances of PolicyCache.                                         *)
(***************************************************************************)
EXTENDS PolicyCache, TLC

\* Request slots, replicas and labels are interchangeable.
CacheSymmetry ==
  Permutations(Tasks) \cup Permutations(Replicas) \cup Permutations(Labels)

=============================================================================

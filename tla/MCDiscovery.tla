----------------------------- MODULE MCDiscovery -----------------------------
(***************************************************************************)
(* Instances of Discovery for TLC. The model values of every set are       *)
(* interchangeable, so the safety runs take the symmetry of all of them.   *)
(***************************************************************************)
EXTENDS Discovery, TLC

Symmetry ==
  Permutations(Addrs) \cup Permutations(Queries)
    \cup Permutations(Lookups) \cup Permutations(Drainers)
=============================================================================

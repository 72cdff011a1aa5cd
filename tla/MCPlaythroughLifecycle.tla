----------------------- MODULE MCPlaythroughLifecycle -----------------------
(* PlaythroughLifecycle on small instances: symmetric requests and calls.   *)
EXTENDS PlaythroughLifecycle, TLC
Symmetry == Permutations(Requests) \cup Permutations(Calls)
=============================================================================

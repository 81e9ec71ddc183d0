----------------------------- MODULE MCSessions -----------------------------
(* Sessions for TLC: requests in flight are interchangeable. *)
EXTENDS Sessions, TLC

Symmetric == Permutations(Requests)
=============================================================================

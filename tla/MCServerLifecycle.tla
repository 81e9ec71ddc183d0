-------------------------- MODULE MCServerLifecycle --------------------------
(* ServerLifecycle on instances small enough for TLC. *)
EXTENDS ServerLifecycle, TLC

\* Handlers are interchangeable: Init and Next treat every slot alike.
Symmetry == Permutations(Procs)
=============================================================================

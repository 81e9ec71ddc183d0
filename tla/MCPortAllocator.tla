---------------------------- MODULE MCPortAllocator ----------------------------
(***************************************************************************)
(* PortAllocator on a node of a dozen ports.  "narrow" stands for Reforger *)
(* (a short band below the other title's, a small stride), "wide" for      *)
(* Arma 3 (a stride well beyond the ports it binds).  The narrow band      *)
(* holds one server, so a second one falls back to the node's range.       *)
(***************************************************************************)
EXTENDS PortAllocator, TLC

CONSTANTS s1, s2, s3

MCGames == {"narrow", "wide"}
MCGameOf == [s \in Servers |-> IF s = s1 THEN "wide" ELSE "narrow"]
MCOffsets == [narrow |-> {0, 1}, wide |-> {0, 1}]
MCSpan == [narrow |-> 2, wide |-> 2]
MCBase == [narrow |-> 1, wide |-> 3]
MCStride == [narrow |-> 2, wide |-> 4]
MCRangeEnd == [narrow |-> 2, wide |-> 10]
\* s2 and s3 are of the same title; requests are interchangeable.
Symmetry == Permutations({s2, s3}) \cup Permutations(Procs)
=============================================================================

----------------------------- MODULE MCPortPool -----------------------------
(* Instances of PortPool for TLC. *)
EXTENDS PortPool, TLC

CONSTANTS p1, p2, p3

MCPairList2 == <<p1, p2>>
\* Threads and heap addresses are interchangeable.
MCSymmetry == Permutations(Worker) \cup Permutations(Container)

MCPairList3 == <<p1, p2, p3>>
=============================================================================

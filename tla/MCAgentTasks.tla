---------------------------- MODULE MCAgentTasks ----------------------------
(* Instances of AgentTasks for TLC: one address or two, a connection each. *)
EXTENDS AgentTasks, TLC

CONSTANTS g1, g2, x1, x2

OneOnly == (x1 :> g1)
OneEach == (x1 :> g1) @@ (x2 :> g2)
MCSymmetry == Permutations(Task)
=============================================================================

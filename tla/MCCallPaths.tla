----------------------------- MODULE MCCallPaths -----------------------------
(* Instances of CallPaths for TLC: the calls, their types and their cids. *)
EXTENDS CallPaths, TLC

CONSTANTS c1, c2

MCSymmetry == Permutations(Worker) \cup Permutations(Pair)

\* A one-path and a two-path transit call.
TransitType == [c \in {c1, c2} |-> "CT_TRANSFORM"]
TransitCids == (c1 :> <<1>>) @@ (c2 :> <<3, 5>>)

\* A transit call and a direct call.
MixedType == (c1 :> "CT_TRANSFORM") @@ (c2 :> "CT_DIRECT")
MixedCids == (c1 :> <<1>>) @@ (c2 :> << >>)

\* One call with two paths.
TwoPathType == (c1 :> "CT_TRANSFORM")
TwoPathCids == (c1 :> <<1, 3>>)
=============================================================================

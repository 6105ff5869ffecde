---------------------------- MODULE MCMediaForward ----------------------------
(* Instances of MediaForward for TLC. *)
EXTENDS MediaForward, TLC

CONSTANTS c1, c2, a1, a2

MCSymmetry == Permutations(Reader)

\* A transit call with two paths and an RTP-direct call.
MixedType == (c1 :> "CT_TRANSFORM") @@ (c2 :> "CT_RTPDIRECT")
MixedCids == (c1 :> <<1, 3>>) @@ (c2 :> << >>)

\* A stream, the same from another address, and a stranger.
Streams == {<<a1, 1>>, <<a2, 1>>, <<a2, 2>>}

\* The second path of the transit call may fail.
SecondPath == {<<c1, 3>>}
=============================================================================

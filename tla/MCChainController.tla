------------------------- MODULE MCChainController -------------------------
(***************************************************************************)
(* Instances of ChainController for TLC.                                   *)
(***************************************************************************)
EXTENDS ChainController, TLC

CONSTANTS c1, d1, d2, d3, n1, n2, w1, w2

\* app=d1, n1, app=d2, n2, app=d3
ThreeDeps == (c1 :> <<d1, d2, d3>>)
TwoNets   == (c1 :> <<n1, n2>>)
OnNodes   == (d1 :> w1) @@ (d2 :> w2) @@ (d3 :> w1)
Distinct  == {<<d, d>> : d \in Deps}

\* The chains of this instance meet the hypothesis of the proofs.
ASSUME InstanceApart == ChainsApart
=============================================================================

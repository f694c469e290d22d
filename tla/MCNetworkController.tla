------------------------ MODULE MCNetworkController ------------------------
(***************************************************************************)
(* Instances of NetworkController for TLC.                                 *)
(***************************************************************************)
EXTENDS NetworkController, TLC

CONSTANTS k1, n1

OneKey  == {k1}
OneName == {n1}
OneMap  == (k1 :> n1)
=============================================================================

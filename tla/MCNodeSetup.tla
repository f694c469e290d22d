---------------------------- MODULE MCNodeSetup ----------------------------
(***************************************************************************)
(* Instances of NodeSetup for TLC.                                         *)
(***************************************************************************)
EXTENDS NodeSetup

\* Every node's port is named by the node.
OwnNames == [n \in Nodes |-> n]
=============================================================================

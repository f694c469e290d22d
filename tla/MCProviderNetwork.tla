------------------------- MODULE MCProviderNetwork -------------------------
(***************************************************************************)
(* Instances of ProviderNetwork for TLC.                                   *)
(***************************************************************************)
EXTENDS ProviderNetwork

Pn(kind, sel, ln) == [cni |-> TRUE, kind |-> kind, sel |-> sel, ln |-> ln]
OtherCni == [cni |-> FALSE, kind |-> "VLAN", sel |-> "ALL", ln |-> TRUE]

AllKinds  == {Pn("VLAN", "ALL", TRUE), Pn("VLAN", "ANY", FALSE), Pn("DIRECT", "SPECIFIC", FALSE),
              Pn("OTHER", "ALL", FALSE), Pn("DIRECT", "OTHER", FALSE), OtherCni}
VlanAll   == {Pn("VLAN", "ALL", TRUE)}
Specific  == {Pn("DIRECT", "SPECIFIC", FALSE)}
=============================================================================

-------------------------- MODULE MCPodController --------------------------
(***************************************************************************)
(* Instances of PodController for TLC.                                     *)
(***************************************************************************)
EXTENDS PodController

CONSTANTS p1, p2, nw, sw1, eth1, ip1, mac1

Request(s, i, a, m) == [sw |-> s, intf |-> i, ip |-> a, mac |-> m]
Pod(nfn, ifs) == [host |-> FALSE, nfn |-> nfn, ifs |-> ifs]

DefaultPod  == Pod("none", <<>>)
StaticPod   == Pod("ovn4nfv", <<Request(sw1, eth1, ip1, mac1)>>)
\* The second element takes eth1, ip1 and mac1 from the first.
TwoPod      == Pod("ovn4nfv", <<Request(sw1, eth1, ip1, mac1), Request(nw, NoVal, NoVal, NoVal)>>)
OtherPod    == Pod("other", <<>>)
HostPod     == [host |-> TRUE, nfn |-> "none", ifs |-> <<>>]

AllSpecs     == {DefaultPod, StaticPod, TwoPod, OtherPod, HostPod}
DefaultOnly  == {DefaultPod}
Distinct     == {<<p, p>> : p \in Pods}
\* p1 is "web", p2 is "web-1".
PrefixNames  == Distinct \cup {<<p1, p2>>}
=============================================================================

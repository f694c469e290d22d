---------------------------- MODULE MCCniServer ----------------------------
(***************************************************************************)
(* Instances of CniServer for TLC.                                         *)
(***************************************************************************)
EXTENDS CniServer

Entry(i, g) == [intf |-> i, gw |-> g, gwip |-> TRUE, whole |-> TRUE]

\* A network that takes the default route before the default network, and after
\* it; a gateway that is missing; one entry more than has a name; a second link
\* of one name; an entry without address.
Elsewhere == <<Entry("net0", "true"), Entry("*", "")>>
StarFirst == <<Entry("*", ""), Entry("net0", "true")>>
NoGateway == <<[Entry("*", "") EXCEPT !.gwip = FALSE]>>
TooMany   == <<Entry("net0", "false"), Entry("net1", "false"), Entry("*", "")>>
Clash     == <<Entry("eth0", "false"), Entry("*", "")>>
Garbled   == <<[Entry("*", "") EXCEPT !.whole = FALSE]>>

SomeAnnotations == {Elsewhere, StarFirst, NoGateway, TooMany, Clash, Garbled}
TwoAnnotations  == {Elsewhere, NoGateway}

\* A route that can be added, one without gateway, and one of a device that no
\* annotation gives to a pod.
Route(d)   == [dev |-> d, dst |-> TRUE, whole |-> TRUE]
SomeRoutes == {<<Route("eth0")>>, <<[Route("eth0") EXCEPT !.whole = FALSE]>>, <<Route("net2")>>}
OneRoute   == {<<Route("eth0")>>}

\* A file that names a kubeconfig, one that does not, and none.
Good == [parses |-> TRUE, kubeconfig |-> TRUE]
GoodConf  == {Good}
SomeConfs == {Good, [Good EXCEPT !.kubeconfig = FALSE], NoVal}

\* The plugin as the primary network, as an additional one, and called without
\* the name of the pod.
Env(i)   == [ifname |-> i, given |-> EnvVars, conf |-> TRUE]
Primary  == {Env("eth0")}
SomeEnvs == {Env("eth0"), Env("net2"), [Env("eth0") EXCEPT !.given = @ \ {"K8S_POD_NAME"}]}

\* The default route goes through ens3, which has an address of its own network
\* and a link-local one.
TwoRoutes == <<[default |-> FALSE, link |-> "ens4"], [default |-> TRUE, link |-> "ens3"]>>
TwoLinks  ==
  [link \in {"ens3", "ens4"} |->
     IF link = "ens3" THEN <<[net |-> "h1", scope |-> "link"], [net |-> "h2", scope |-> "global"]>>
     ELSE <<[net |-> "h3", scope |-> "global"]>>]
=============================================================================

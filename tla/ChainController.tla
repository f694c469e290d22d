-------------------------- MODULE ChainController --------------------------
(***************************************************************************)
(* Service function chains: the NetworkChaining controller of nfn-operator,*)
(* the route calculation, SendRouteNotif, and the nfn-agents that put the  *)
(* routes into the containers.                                             *)
(*                                                                         *)
(* A chain is deps[1], nets[1], deps[2], nets[2], ..., deps[num], with an  *)
(* edge network on its left and one on its right.  The controller works as *)
(* in NetworkController; the reads that calculateDeploymentRoutes makes    *)
(* for one deployment are one action.  Kubernetes, the pods and OVN's      *)
(* answers are external.  A deployment has one pod at a time, which is     *)
(* what the code assumes.                                                  *)
(***************************************************************************)
EXTENDS Naturals, Sequences

CONSTANTS
  Chains,       \* names of NetworkChaining objects
  Deps, Nets,   \* deployments (label selectors) and networks
  DepsOf, NetsOf, \* the lists spec.routingSpec.networkChain is split into
  Contains,     \* <<d, e>>: the label value of d occurs in port names of e
  Slow,         \* deployments whose pods are seen while they start
  Nodes, NodeOf,\* the node that runs a deployment's pod
  NoVal,
  MaxInfo,      \* bound: entries of chainRoutingInfo
  MaxChan,      \* bound: messages in a stream
  MaxOps,       \* bound: user operations
  MaxFaults     \* bound: failing calls, lost pods, restarts of agents and nfn-operator

ASSUME ConstantsAssumption ==
  /\ DepsOf \in [Chains -> Seq(Deps)] /\ NetsOf \in [Chains -> Seq(Nets)]
  /\ \A k \in Chains : Len(DepsOf[k]) > 0 /\ Len(NetsOf[k]) \in {Len(DepsOf[k]) - 1, Len(DepsOf[k])}
  /\ Contains \subseteq Deps \X Deps /\ \A d \in Deps : <<d, d>> \in Contains
  /\ Slow \subseteq Deps /\ NodeOf \in [Deps -> Nodes]
  /\ Nets \cap {"left", "right", "default", "host"} = {}
  /\ {NoVal, "left", "right", "podGW"} \cap (Deps \X Nat) = {}
  /\ NoVal \notin {"left", "right", "podGW"} /\ NoVal \notin Chains
  /\ MaxInfo \in Nat /\ MaxChan \in Nat /\ MaxOps \in Nat /\ MaxFaults \in Nat

States == {"", "Created", "CreateInternalError"}

\* routing: spec.chainType is "Routing".
Objects == [live: BOOLEAN, rv: Nat, del: BOOLEAN, fin: BOOLEAN, routing: BOOLEAN, state: States]
Tombstone(rv) ==
  [live |-> FALSE, rv |-> rv, del |-> FALSE, fin |-> FALSE, routing |-> FALSE, state |-> ""]

\* A pod, which stands for its address and its container too.
PodIds == Deps \X Nat
Phases == {"absent", "pending", "starting", "running"}

\* Gateways: of the edge networks, of the pod's default network, or a pod.
Gateways == {"left", "right", "podGW"} \cup PodIds
\* Destinations: the edge networks, the networks of the chain, the host's network.
Dsts == {"left", "right", "default", "host"} \cup Nets
\* Routes that are sent; the host's is the agent's own.
Routes == [dst: Dsts \ {"host"}, gw: Gateways]

\* RoutingInfo; id: the container had an ID when the pod was listed.
Infos == [pod: PodIds, id: BOOLEAN, routes: Seq(Routes)]

Pcs == {"idle", "addFinalizer", "calculate", "send", "status", "removeFinalizer"}

VARIABLES
  api, pending, cache, queue, pc, req, cr,  \* as in NetworkController
  pos,        \* deployment being calculated
  info,       \* chainRoutingInfo, a package variable
  sent,       \* entries of it that SendRouteNotif has sent
  pods,       \* deployment -> [phase, inc] of its pod
  rt,         \* deployment -> routes in its container
  clients,    \* node -> "none", "live" or "dead": its entry in clientList
  chan,       \* node -> messages in its stream
  missed,     \* history: pods whose last message was skipped, lost or not carried out
  faults, ops

kubeVars   == <<api, pending, cache>>
workerVars == <<pc, req, cr, pos, sent>>
podVars    == <<pods, rt>>
netVars    == <<clients, chan>>
vars == <<kubeVars, queue, workerVars, info, podVars, netVars, missed, faults, ops>>

Fault == faults < MaxFaults /\ faults' = faults + 1
NoFault == UNCHANGED faults

(***************************************************************************)
(* API server, informer and users (external), as in NetworkController.     *)
(***************************************************************************)
Store(k, o) ==
  /\ api' = [api EXCEPT ![k] = o]
  /\ pending' = [pending EXCEPT ![k] = @ \cup {o}]

Rejected(k, o) == ~api[k].live \/ api[k].rv # o.rv
Accepted(o) == IF o.del /\ ~o.fin THEN Tombstone(o.rv + 1) ELSE [o EXCEPT !.rv = @ + 1]
Write(k, o) ==
  IF o = api[k] THEN UNCHANGED <<api, pending>> ELSE Store(k, Accepted(o))

\* Nothing but the idle worker reads cache and queue.
Deliver(k) ==
  /\ pc = "idle"
  /\ \E v \in pending[k] :
       /\ \A w \in pending[k] : v.rv <= w.rv
       /\ cache' = [cache EXCEPT ![k] = v]
       /\ pending' = [pending EXCEPT ![k] = @ \ {v}]
  /\ queue' = queue \cup {k}
  /\ UNCHANGED <<api, workerVars, info, podVars, netVars, missed, faults, ops>>

Resync(k) ==
  /\ pc = "idle" /\ cache[k].live /\ k \notin queue
  /\ queue' = queue \cup {k}
  /\ UNCHANGED <<kubeVars, workerVars, info, podVars, netVars, missed, faults, ops>>

\* The worker does not look at the API server while it calculates and sends.
UserStep(k, o) ==
  /\ ops < MaxOps /\ ops' = ops + 1
  /\ pc \notin {"calculate", "send"}
  /\ Store(k, o)
  /\ UNCHANGED <<cache, queue, workerVars, info, podVars, netVars, missed, faults>>

UserCreate(k) ==
  /\ ~api[k].live
  /\ UserStep(k, [live |-> TRUE, rv |-> api[k].rv + 1, del |-> FALSE, fin |-> FALSE,
                  routing |-> TRUE, state |-> ""])

\* The chain type becomes one that is not supported, or "Routing" again.
UserEdit(k) ==
  /\ api[k].live
  /\ UserStep(k, [api[k] EXCEPT !.rv = @ + 1, !.routing = ~@])

UserDelete(k) ==
  /\ api[k].live /\ ~api[k].del
  /\ UserStep(k, IF api[k].fin THEN [api[k] EXCEPT !.rv = @ + 1, !.del = TRUE]
                               ELSE Tombstone(api[k].rv + 1))

(***************************************************************************)
(* Pods (external).                                                        *)
(***************************************************************************)
NoRoutes == [x \in Dsts |-> NoVal]

\* A running pod has the default route of its default network.
Run(d, i) ==
  /\ pods' = [pods EXCEPT ![d] = [phase |-> "running", inc |-> i]]
  /\ rt' = [rt EXCEPT ![d] = [NoRoutes EXCEPT !["default"] = "podGW"]]

\* A pod is created, has its container statuses, has a running container.
PodStep(d) ==
  /\ \/ /\ pods[d].phase = "absent" /\ d \in Slow
        /\ pods' = [pods EXCEPT ![d] = [phase |-> "pending", inc |-> @.inc + 1]]
        /\ UNCHANGED rt
     \/ /\ pods[d].phase = "pending"
        /\ pods' = [pods EXCEPT ![d].phase = "starting"] /\ UNCHANGED rt
     \/ pods[d].phase = "starting" /\ Run(d, pods[d].inc)
     \/ pods[d].phase = "absent" /\ d \notin Slow /\ Run(d, pods[d].inc + 1)
  /\ UNCHANGED <<kubeVars, queue, workerVars, info, netVars, missed, faults, ops>>

PodGone(d) ==
  /\ pods[d].phase # "absent" /\ Fault
  /\ pods' = [pods EXCEPT ![d].phase = "absent"]
  /\ rt' = [rt EXCEPT ![d] = NoRoutes]
  /\ UNCHANGED <<kubeVars, queue, workerVars, info, netVars, missed, ops>>

Pod(d) == <<d, pods[d].inc>>
Running(p) == pods[p[1]].phase = "running" /\ pods[p[1]].inc = p[2]

(***************************************************************************)
(* Streams and restarts.                                                   *)
(***************************************************************************)
PodsIn(S) == UNION {{chan[n][i].pod : i \in 1..Len(chan[n])} : n \in S}

\* Subscribe puts the agent's stream into clientList.
AgentSubscribe(n) ==
  /\ clients[n] # "live"
  /\ clients' = [clients EXCEPT ![n] = "live"]
  /\ UNCHANGED <<kubeVars, queue, workerVars, info, podVars, chan, missed, faults, ops>>

\* The agent dies; the server keeps its stream in clientList.
AgentDie(n) ==
  /\ clients[n] = "live" /\ Fault
  /\ clients' = [clients EXCEPT ![n] = "dead"]
  /\ chan' = [chan EXCEPT ![n] = <<>>]
  /\ missed' = missed \cup PodsIn({n})
  /\ UNCHANGED <<kubeVars, queue, workerVars, info, podVars, ops>>

Finish == pc' = "idle" /\ req' = NoVal /\ cr' = Tombstone(0) /\ pos' = 0 /\ sent' = 0

\* nfn-operator dies, and with its streams the agents.
Die ==
  /\ Finish
  /\ cache' = api /\ pending' = [k \in Chains |-> {}]
  /\ queue' = {k \in Chains : api[k].live}
  /\ info' = <<>>
  /\ clients' = [n \in Nodes |-> "none"]
  /\ chan' = [n \in Nodes |-> <<>>]
  /\ missed' = missed \cup PodsIn(Nodes)
  /\ UNCHANGED <<api, podVars>>

Crash == Fault /\ Die /\ UNCHANGED ops

(***************************************************************************)
(* The worker.                                                             *)
(***************************************************************************)
Done  == Finish /\ UNCHANGED queue
Retry == Finish /\ queue' = queue \cup {req}

deps == DepsOf[req]
nets == NetsOf[req]

\* Bound: there is room for the routes of one more request.
Room(k) == Len(info) + Len(DepsOf[k]) <= MaxInfo

\* Reconcile up to its first call.  An object marked for deletion is not created.
Reconcile(k) ==
  LET o == cache[k]
      Begin(l) == /\ pc' = l /\ req' = k /\ cr' = o /\ queue' = queue \ {k}
                  /\ pos' = 1 /\ UNCHANGED sent
  IN
  /\ pc = "idle" /\ k \in queue
  /\ \/ (o.live => o.del /\ ~o.fin) /\ queue' = queue \ {k} /\ UNCHANGED workerVars
     \/ o.live /\ o.del /\ o.fin                /\ Begin("removeFinalizer")
     \/ o.live /\ ~o.del /\ ~o.fin              /\ Room(k) /\ Begin("addFinalizer")
     \/ o.live /\ ~o.del /\ o.fin /\ o.routing  /\ Room(k) /\ Begin("calculate")
     \/ o.live /\ ~o.del /\ o.fin /\ ~o.routing /\ UNCHANGED <<queue, workerVars>>
  /\ UNCHANGED <<kubeVars, info, podVars, netVars, missed, faults, ops>>

ApiCall(o, Ok, Fail) ==
  \/ /\ ~Rejected(req, o) /\ Write(req, o) /\ NoFault /\ Ok
  \/ /\ Rejected(req, o) /\ UNCHANGED <<api, pending>> /\ NoFault /\ Fail
  \/ /\ ~Rejected(req, o) /\ (Write(req, o) \/ UNCHANGED <<api, pending>>)
     /\ Fault /\ Fail

AddFinalizer ==
  /\ pc = "addFinalizer"
  /\ ApiCall([cr EXCEPT !.fin = TRUE],
             IF cr.routing
               THEN pc' = "calculate" /\ cr' = api'[req] /\ UNCHANGED <<queue, req, pos, sent>>
               ELSE Retry,
             Retry)
  /\ UNCHANGED <<cache, info, podVars, netVars, missed, ops>>

\* GetIPAdressForPod: the addresses it may answer for deployment d on the network
\* between positions i and i + 1: of the first port whose name contains the label's
\* value, also that of a pod that is gone.  A pod that does not run may have no port
\* or no address yet; NoVal is the error.
GetIPAdressForPod(i, d) ==
  LET found == {e \in {deps[i], deps[i + 1]} : <<d, e>> \in Contains}
  IN  (UNION {{e} \X (1..pods[e].inc) : e \in found})
        \cup (IF \E e \in found : pods[e].phase # "running" THEN {NoVal} ELSE {})

\* Routes to the networks of ns through g.
RoutesTo(ns, g) == [i \in 1..Len(ns) |-> [dst |-> ns[i], gw |-> g]]

\* Faulty variant: the network after the adjacent one counts as one on the left.
DynamicRoutesOffByOne(p, l, r) ==
  LET next == IF p < Len(nets) THEN p + 1 ELSE p
  IN  RoutesTo(SubSeq(nets, 1, p - 2) \o SubSeq(nets, p + 1, next), l)
        \o RoutesTo(SubSeq(nets, p + 2, Len(nets)), r) \o <<[dst |-> "default", gw |-> r]>>

\* calculateDeploymentRoutes: every network that is not adjacent, to its side, and
\* the default route to the right.
DynamicRoutes(p, l, r) ==
  RoutesTo(SubSeq(nets, 1, p - 2), l) \o RoutesTo(SubSeq(nets, p + 1, Len(nets)), r)
    \o <<[dst |-> "default", gw |-> r]>>

\* Faulty variant: the default route comes first.
DeploymentRoutesDefaultFirst(p, l, r) ==
  <<[dst |-> "default", gw |-> r], [dst |-> "left", gw |-> l], [dst |-> "right", gw |-> r]>>
    \o DynamicRoutes(p, l, r)

\* calculateDeploymentRoutes for position p, given the next hops.
DeploymentRoutes(p, l, r) ==
  <<[dst |-> "left", gw |-> l], [dst |-> "right", gw |-> r]>> \o DynamicRoutes(p, l, r)

\* Faulty variant: one deployment too many.
NextDeploymentOffByOne ==
  /\ IF pos <= Len(deps) THEN pos' = pos + 1 /\ UNCHANGED pc ELSE pos' = pos /\ pc' = "send"
  /\ UNCHANGED <<req, cr, sent, queue>>

\* CalculateRoutes: on to the next deployment, or to sending.
NextDeployment ==
  /\ IF pos < Len(deps) THEN pos' = pos + 1 /\ UNCHANGED pc ELSE pos' = pos /\ pc' = "send"
  /\ UNCHANGED <<req, cr, sent, queue>>

\* CalculateRoutes, one deployment per step.  A pod without container statuses makes
\* ContainerStatuses[0] panic, which ends nfn-operator.
CalculateRoutes ==
  LET d == deps[pos]
      Lefts  == IF pos = 1 THEN {"left"} ELSE GetIPAdressForPod(pos - 1, deps[pos - 1])
      Rights == IF pos = Len(deps) THEN {"right"} ELSE GetIPAdressForPod(pos, deps[pos + 1])
  IN
  /\ pc = "calculate"
  /\ \/ pods[d].phase = "absent" /\ NoFault /\ Retry
          /\ UNCHANGED <<kubeVars, info, podVars, netVars, missed>>
     \/ pods[d].phase = "pending" /\ NoFault /\ Die
     \/ /\ pods[d].phase \in {"starting", "running"} /\ NoFault
        /\ \E l \in Lefts, r \in Rights :
             IF NoVal \in {l, r} THEN Retry /\ UNCHANGED info
               ELSE /\ info' = Append(info, [pod |-> Pod(d), id |-> pods[d].phase = "running",
                                             routes |-> DeploymentRoutes(pos, l, r)])
                    /\ NextDeployment
        /\ UNCHANGED <<kubeVars, podVars, netVars, missed>>
     \/ Fault /\ Retry /\ UNCHANGED <<kubeVars, info, podVars, netVars, missed>>
  /\ UNCHANGED ops

\* SendRouteNotif: everything in chainRoutingInfo, also what earlier requests put
\* there.  A node without a client is skipped; a message to a dead stream fails or
\* is lost; an error ends the loop.
SendRouteNotif ==
  LET m == info[sent + 1]
      n == NodeOf[m.pod[1]]
      Go(s) == IF sent + 1 < Len(info)
                 THEN sent' = sent + 1 /\ UNCHANGED <<pc, cr>>
                 ELSE sent' = sent + 1 /\ pc' = "status" /\ cr' = [cr EXCEPT !.state = s]
      Stop  == pc' = "status" /\ cr' = [cr EXCEPT !.state = "CreateInternalError"] /\ UNCHANGED sent
  IN
  /\ pc = "send"
  /\ \/ /\ clients[n] = "live" /\ Len(chan[n]) < MaxChan /\ Go("Created")
        /\ chan' = [chan EXCEPT ![n] = Append(@, m)] /\ UNCHANGED missed
     \/ /\ clients[n] # "live" /\ Go("Created")
        /\ missed' = missed \cup {m.pod} /\ UNCHANGED chan
     \/ /\ clients[n] = "dead" /\ Stop
        /\ missed' = missed \cup {m.pod} /\ UNCHANGED chan
  /\ NoFault
  /\ UNCHANGED <<req, pos, kubeVars, queue, info, podVars, clients, ops>>

\* createChain: the status.
UpdateStatus ==
  /\ pc = "status"
  /\ ApiCall(cr, Done, Retry)
  /\ UNCHANGED <<cache, info, podVars, netVars, missed, ops>>

\* reconcileFinalizers; deleteChain is not implemented, and its error is logged.
RemoveFinalizer ==
  /\ pc = "removeFinalizer"
  /\ ApiCall([cr EXCEPT !.fin = FALSE], Done, Retry)
  /\ UNCHANGED <<cache, info, podVars, netVars, missed, ops>>

(***************************************************************************)
(* nfn-agent.                                                              *)
(***************************************************************************)
\* One "ip route" command: the default route is replaced, any other is added
\* unless there is one already.
AddRoute(t, r) ==
  IF r.dst = "default" \/ t[r.dst] = NoVal THEN [t EXCEPT ![r.dst] = r.gw] ELSE t

\* Faulty variant: the host's network is routed when the default route is gone.
ContainerAddRouteHostLast(t, rs) ==
  LET f[i \in 0..Len(rs)] == IF i = 0 THEN t ELSE AddRoute(f[i - 1], rs[i])
      h == f[Len(rs)]
  IN  AddRoute(h, [dst |-> "host", gw |-> h["default"]])

\* ContainerAddRoute: the host's network through the pod's own gateway first.
ContainerAddRoute(t, rs) ==
  LET f[i \in 0..Len(rs)] ==
        IF i = 0 THEN AddRoute(t, [dst |-> "host", gw |-> t["default"]])
                 ELSE AddRoute(f[i - 1], rs[i])
  IN  f[Len(rs)]

\* handleNotif: find the container; add its routes, up to the first error.
HandleRoutes(n) ==
  LET m == Head(chan[n])
      d == m.pod[1]
  IN
  /\ clients[n] = "live" /\ chan[n] # <<>>
  /\ chan' = [chan EXCEPT ![n] = Tail(@)]
  /\ \/ /\ NoFault /\ ~(m.id /\ Running(m.pod))
        /\ missed' = missed \cup {m.pod} /\ UNCHANGED rt
     \/ /\ NoFault /\ m.id /\ Running(m.pod)
        /\ rt' = [rt EXCEPT ![d] = ContainerAddRoute(@, m.routes)]
        /\ missed' = missed \ {m.pod}
     \/ /\ Fault /\ m.id /\ Running(m.pod) /\ missed' = missed \cup {m.pod}
        /\ \/ UNCHANGED rt
           \/ \E i \in 0..Len(m.routes) - 1 :
                rt' = [rt EXCEPT ![d] = ContainerAddRoute(@, SubSeq(m.routes, 1, i))]
  /\ UNCHANGED <<kubeVars, queue, workerVars, info, pods, clients, ops>>

(***************************************************************************)
(* The specification.                                                      *)
(***************************************************************************)
Init ==
  /\ api = [k \in Chains |-> Tombstone(0)] /\ cache = api
  /\ pending = [k \in Chains |-> {}] /\ queue = {}
  /\ pc = "idle" /\ req = NoVal /\ cr = Tombstone(0) /\ pos = 0 /\ sent = 0
  /\ info = <<>>
  /\ pods = [d \in Deps |-> [phase |-> "absent", inc |-> 0]]
  /\ rt = [d \in Deps |-> NoRoutes]
  /\ clients = [n \in Nodes |-> "none"] /\ chan = [n \in Nodes |-> <<>>]
  /\ missed = {}
  /\ faults = 0 /\ ops = 0

WorkerStep ==
  \/ AddFinalizer \/ CalculateRoutes \/ SendRouteNotif \/ UpdateStatus \/ RemoveFinalizer

Next ==
  \/ \E k \in Chains : UserCreate(k) \/ UserEdit(k) \/ UserDelete(k)
  \/ \E k \in Chains : Deliver(k) \/ Resync(k) \/ Reconcile(k)
  \/ WorkerStep
  \/ \E d \in Deps : PodStep(d) \/ PodGone(d)
  \/ \E n \in Nodes : AgentSubscribe(n) \/ AgentDie(n) \/ HandleRoutes(n)
  \/ Crash

Spec == Init /\ [][Next]_vars

(***************************************************************************)
(* Properties.                                                             *)
(***************************************************************************)

\* Every variable keeps its type; the worker is at a deployment of its chain while
\* it calculates and at an entry of chainRoutingInfo while it sends.
TypeOK ==
  /\ api \in [Chains -> Objects] /\ cache \in [Chains -> Objects]
  /\ pending \in [Chains -> SUBSET Objects]
  /\ queue \subseteq Chains
  /\ pc \in Pcs /\ req \in Chains \cup {NoVal} /\ (pc # "idle" => req \in Chains)
  /\ cr \in Objects /\ pos \in Nat /\ sent \in Nat
  /\ pc = "calculate" => pos \in 1..Len(deps)
  /\ pc = "send" => sent < Len(info)
  /\ info \in Seq(Infos) /\ Len(info) <= MaxInfo
  /\ pods \in [Deps -> [phase: Phases, inc: Nat]]
  /\ rt \in [Deps -> [Dsts -> Gateways \cup {NoVal}]]
  /\ clients \in [Nodes -> {"none", "live", "dead"}]
  /\ chan \in [Nodes -> Seq(Infos)] /\ \A n \in Nodes : Len(chan[n]) <= MaxChan
  /\ missed \subseteq PodIds
  /\ faults \in Nat /\ ops \in Nat

\* ContainerAddRoute runs again for every message and takes the gateway of the
\* host's network from a default route that it replaces itself: the host stays
\* reachable through the pod's own gateway, whatever failed or is sent again.
HostRouteKept ==
  \A d \in Deps : rt[d]["host"] \notin PodIds /\ rt[d]["host"] \notin {"left", "right"}

\* The two deployments on the i-th network of chain k.
Ends(k, i) == {DepsOf[k][i], DepsOf[k][i + 1]}
Attached ==
  {a \in Deps \X Nets :
     \E k \in Chains : \E i \in 1..Len(DepsOf[k]) - 1 : a[2] = NetsOf[k][i] /\ a[1] \in Ends(k, i)}

\* Where a packet for x goes from deployment d: to the pod next on its way, or
\* nowhere else, when it has arrived or leaves the chain.
NextHop(d, x) ==
  LET g == IF rt[d][x] = NoVal THEN rt[d]["default"] ELSE rt[d][x]
  IN  IF <<d, x>> \notin Attached /\ g \in PodIds /\ Running(g) THEN g[1] ELSE d

\* The deployment a packet for x from d is at after h hops.
After(d, x, h) ==
  LET e[i \in 0..h] == IF i = 0 THEN d ELSE NextHop(e[i - 1], x)
  IN  e[h]

Inside(k) == {DepsOf[k][i] : i \in 1..Len(DepsOf[k])}

\* calculateDeploymentRoutes, ContainerAddRoute: at no time, with the routes of some
\* containers installed, of others half way and of others not at all, does a packet
\* go round in circles: any set of pods that pass it on has one that passes it on to
\* a pod outside the set.
NoForwardingLoop ==
  \A x \in {"left", "right"} \cup Nets :
    \A S \in (SUBSET {d \in Deps : NextHop(d, x) # d}) \ {{}} :
      \E d \in S : NextHop(d, x) \notin S

\* A deployment has one place in one chain, a network occurs once in a chain, and no
\* label occurs in the port names of another deployment.
ChainsApart ==
  /\ \A k, c \in Chains : \A p \in 1..Len(DepsOf[k]), q \in 1..Len(DepsOf[c]) :
       DepsOf[k][p] = DepsOf[c][q] => k = c /\ p = q
  /\ \A k \in Chains : \A i, j \in 1..Len(NetsOf[k]) : NetsOf[k][i] = NetsOf[k][j] => i = j
  /\ \A a \in Contains : a[1] = a[2]

\* From each of its pods the chain carries packets to every network of the chain
\* and out at both ends.
Routed(k) ==
  LET num   == Len(DepsOf[k])
      first == DepsOf[k][1]
      last  == DepsOf[k][num]
  IN  /\ rt[first]["left"] = "left" /\ rt[last]["right"] = "right"
      /\ \A d \in Inside(k) :
           /\ After(d, "left", num) = first
           /\ After(d, "right", num) = last
           /\ \A i \in 1..num - 1 : After(d, NetsOf[k][i], num) \in Ends(k, i)

\* The chain is reported Created, every message has been read, and its pods are the
\* first ones and run.
Settled(k) ==
  /\ api[k].live /\ ~api[k].del /\ api[k].state = "Created"
  /\ \A n \in Nodes : chan[n] = <<>>
  /\ \A d \in Inside(k) : pods[d] = [phase |-> "running", inc |-> 1]

\* createChain: a settled chain is routed, in whatever order pods started, agents
\* subscribed and requests were repeated, and a message that is carried out makes up
\* for earlier ones.  Excepted are chains with a pod whose last message was skipped,
\* was lost, came too early or failed.
CreatedMeansRouted ==
  \A k \in Chains :
    Settled(k) /\ (\A d \in Inside(k) : Pod(d) \notin missed) => Routed(k)
=============================================================================

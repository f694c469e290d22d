----------------------------- MODULE CniServer -----------------------------
(***************************************************************************)
(* The CNI side of a node: the shim that the container runtime executes    *)
(* for a pod's sandbox, the CNI server in nfn-agent that serves the shim's *)
(* ADD and DEL requests, and the links, routes and OVS ports it makes.     *)
(*                                                                         *)
(* Every request runs in a goroutine of its own, which goes on when the    *)
(* shim that waits for it is killed and ends when nfn-agent does.  An      *)
(* action is one call that leaves the process (the pod read, the work in   *)
(* the sandbox's network namespace, one ovs-vsctl command) or the end of   *)
(* one of the two loops of cmdAdd.  The pod is one name, whose object may  *)
(* be deleted and created again.  The container runtime, the kubelet, the  *)
(* operator that writes the annotation, the kernel and OVS are external.   *)
(***************************************************************************)
EXTENDS Naturals, Sequences

CONSTANTS
  Sandboxes,    \* sandboxes (SandboxID) the kubelet may run for the pod
  Devs,         \* interface names; "eth0" is one
  ConfFiles,    \* contents of the shim's configuration file: [parses, kubeconfig]
  Envs,         \* what a runtime may pass to the shim: [ifname, given, conf]
  Annotations,  \* values of ovnInterfaces: sequences of Entries
  RouteLists,   \* values of ovnNetworkRoutes: sequences of Routes
  NodeRoutes,   \* the node's routing table: sequence of [default, link]
  NodeAddrs,    \* the IPv4 addresses of the node's links: sequences of [net, scope]
  Steps,        \* reads of the annotation before cmdAdd gives up (14 in the code)
  NameRoom,     \* interfaces whose host name fits IFNAMSIZ (9 in the code)
  DelTries,     \* port names cmdDel goes through, from 0 (10 in the code)
  NoVal,        \* an absent object, annotation, request, result, namespace or route
  MaxPods,      \* bound: pods created under the name
  MaxFaults     \* bound: failing calls, edits of the configuration file, and
                \* restarts of nfn-agent that no request causes

EnvVars == {"CNI_COMMAND", "CNI_CONTAINERID", "CNI_NETNS", "CNI_IFNAME", "CNI_ARGS",
            "K8S_POD_NAMESPACE", "K8S_POD_NAME"}

\* One interface of the annotation: its name or "*", defaultGateway, whether
\* gateway_ip is an address, and whether no required field is empty.  An
\* annotation that does not parse ends as one with an incomplete first entry.
Entries == [intf: Devs \cup {"*"}, gw: {"true", "false", ""}, gwip: BOOLEAN, whole: BOOLEAN]

\* One route: its device, whether dst parses, whether no field is empty.
Routes == [dev: Devs, dst: BOOLEAN, whole: BOOLEAN]

\* A result lists the interfaces, host and container end of each entry, and the
\* addresses with the place of their interface in that list, counted from 0.
Results ==
  [ifs: Seq([end: {"host", "cont"}, of: Nat]), ips: Seq([of: Nat, at: Nat])]

ASSUME ConstantsAssumption ==
  /\ "eth0" \in Devs
  /\ NoVal \notin Devs /\ NoVal \notin Results
  /\ ConfFiles \subseteq [parses: BOOLEAN, kubeconfig: BOOLEAN] \cup {NoVal}
  /\ Envs \subseteq [ifname: Devs, given: SUBSET EnvVars, conf: BOOLEAN]
  /\ Annotations \subseteq Seq(Entries)
  /\ RouteLists \subseteq Seq(Routes)
  /\ NodeRoutes \in Seq([default: BOOLEAN, link: DOMAIN NodeAddrs])
  /\ Steps \in Nat \ {0} /\ NameRoom \in Nat /\ DelTries \in Nat \ {0}
  /\ NameRoom < DelTries
  /\ MaxPods \in Nat /\ MaxFaults \in Nat

VARIABLES
  pod,          \* the pod's object: [ifs, routes], its two annotations
  conf,         \* the shim's configuration file, or NoVal
  up,           \* nfn-agent serves requests
  call,         \* per sandbox: what the runtime knows of it
  env,          \* per sandbox: what the shim was given
  add, del,     \* per sandbox: the request that the server works on
  netns,        \* per sandbox: [devs, dflt, host] of its network namespace
  ovs,          \* ports on br-int: [sb, idx, port]
  answer,       \* per sandbox: the annotation and result of its successful ADD
  stuck,        \* history: sandboxes whose DEL ended before the last port name
  late,         \* history: sandboxes whose DEL began before their ADD had ended
  pods, faults

requests == <<add, del>>
history  == <<stuck, late>>
vars == <<pod, conf, up, call, env, requests, netns, ovs, answer, history, pods, faults>>

Fault == faults < MaxFaults /\ faults' = faults + 1

(***************************************************************************)
(* The pod, the kubelet and the container runtime (external).              *)
(***************************************************************************)
CreatePod ==
  /\ pod = NoVal /\ pods < MaxPods
  /\ \E r \in RouteLists \cup {NoVal} : pod' = [ifs |-> NoVal, routes |-> r]
  /\ pods' = pods + 1
  /\ UNCHANGED <<conf, up, call, env, requests, netns, ovs, answer, history, faults>>

Annotate ==
  /\ pod # NoVal /\ pod.ifs = NoVal
  /\ \E a \in Annotations : pod' = [pod EXCEPT !.ifs = a]
  /\ UNCHANGED <<conf, up, call, env, requests, netns, ovs, answer, history, pods, faults>>

DeletePod ==
  /\ pod # NoVal
  /\ pod' = NoVal
  /\ UNCHANGED <<conf, up, call, env, requests, netns, ovs, answer, history, pods, faults>>

\* One sandbox of a pod at a time: the one before is torn down first.
RunSandbox(s) ==
  /\ pod # NoVal /\ call[s] = "none"
  /\ \A t \in Sandboxes \ {s} : call[t] \in {"none", "deleted"}
  /\ call' = [call EXCEPT ![s] = "exec"]
  /\ \E e \in Envs : env' = [env EXCEPT ![s] = e]
  /\ netns' = [netns EXCEPT ![s] = [devs |-> {}, dflt |-> NoVal, host |-> NoVal]]
  /\ UNCHANGED <<pod, conf, up, requests, ovs, answer, history, pods, faults>>

\* The runtime's time-out kills the shim; the server is not told.
GiveUp(s) ==
  /\ call[s] = "add"
  /\ call' = [call EXCEPT ![s] = "stop"]
  /\ UNCHANGED <<pod, conf, up, env, requests, netns, ovs, answer, history, pods, faults>>

StopSandbox(s) ==
  /\ call[s] = "added"
  /\ call' = [call EXCEPT ![s] = "stop"]
  /\ UNCHANGED <<pod, conf, up, env, requests, netns, ovs, answer, history, pods, faults>>

\* The namespace goes with its links, but the rows in OVS stay.
NetnsGone(s) ==
  /\ netns[s] # NoVal
  /\ netns' = [netns EXCEPT ![s] = NoVal]
  /\ call' = [call EXCEPT ![s] = IF @ = "added" THEN "stop" ELSE @]
  /\ UNCHANGED <<pod, conf, up, env, requests, ovs, answer, history, pods, faults>>

\* Someone writes or removes the configuration file on the node.
EditConf ==
  /\ Fault
  /\ \E f \in ConfFiles \ {conf} : conf' = f
  /\ UNCHANGED <<pod, up, call, env, requests, netns, ovs, answer, history, pods>>

(***************************************************************************)
(* The shim.                                                               *)
(***************************************************************************)
\* InitConfig, which main calls first.  That the default file is not there is no
\* error, but the kubeconfig then has no name; kubeconfig says whether the file
\* names one that exists.  The runtime passes no flags.
InitConfig == conf # NoVal /\ conf.parses /\ conf.kubeconfig

\* When InitConfig fails, main prints the error in the place of a result, sends no
\* request, and exits with status 0 as after a success.
ExitsWithoutRequest == ~InitConfig

\* loadCNIRequestToCNIServer and loadCNIShimArgs take a request.
Loads(e) == EnvVars \subseteq e.given /\ e.conf

NewRequest(e) ==
  [pc |-> "poll", ifname |-> e.ifname, tries |-> 0, i |-> 1, ann |-> <<>>,
   routes |-> NoVal, isDefaultGW |-> FALSE, result |-> NoVal]

RoutesResult == [ifs |-> <<>>, ips |-> <<>>]

\* CmdAdd: a configuration that does not parse never reaches the server; one
\* that it cannot reach, or that refuses the request, fails the ADD.  A shim
\* that sent none may be taken to have answered a result without interfaces.
CmdAdd(s) ==
  /\ call[s] = "exec"
  /\ \/ /\ ~ExitsWithoutRequest /\ up /\ Loads(env[s])
        /\ call' = [call EXCEPT ![s] = "add"]
        /\ add' = [add EXCEPT ![s] = NewRequest(env[s])]
        /\ UNCHANGED answer
     \/ /\ ExitsWithoutRequest \/ ~up \/ ~Loads(env[s])
        /\ call' = [call EXCEPT ![s] = "stop"]
        /\ UNCHANGED <<add, answer>>
     \/ /\ ExitsWithoutRequest
        /\ call' = [call EXCEPT ![s] = "added"]
        /\ answer' = [answer EXCEPT ![s] = [ann |-> <<>>, result |-> RoutesResult]]
        /\ UNCHANGED add
  /\ UNCHANGED <<pod, conf, up, env, del, netns, ovs, history, pods, faults>>

\* The runtime forgets the sandbox.
DelDone(s) ==
  /\ del' = [del EXCEPT ![s] = NoVal]
  /\ call' = [call EXCEPT ![s] = "deleted"]
  /\ env' = [env EXCEPT ![s] = NoVal]
  /\ answer' = [answer EXCEPT ![s] = NoVal]

\* CmdDel: an error makes the kubelet try again; a shim that
\* sent no request is no error.
CmdDel(s) ==
  /\ call[s] = "stop"
  /\ \/ /\ ~ExitsWithoutRequest /\ up /\ Loads(env[s])
        /\ call' = [call EXCEPT ![s] = "del"]
        /\ del' = [del EXCEPT ![s] = 0]
        /\ late' = IF add[s] # NoVal THEN late \cup {s} ELSE late
        /\ UNCHANGED <<env, answer, stuck>>
     \/ /\ ExitsWithoutRequest
        /\ DelDone(s)
        /\ stuck' = stuck \cup {s} /\ UNCHANGED late
  /\ UNCHANGED <<pod, conf, up, add, netns, ovs, pods, faults>>

(***************************************************************************)
(* cmdAdd.                                                                 *)
(***************************************************************************)
Serving(s, step) == up /\ add[s] # NoVal /\ add[s].pc = step

\* Faulty variant: the addresses' interface numbers are not moved up.
mergeWithResultFlat(src, dst) ==
  IF dst = NoVal THEN src
  ELSE [ifs |-> dst.ifs \o src.ifs, ips |-> dst.ips \o src.ips]

\* The interface numbers of the addresses of src move up by the interfaces of dst.
mergeWithResult(src, dst) ==
  IF dst = NoVal THEN src
  ELSE [ifs |-> dst.ifs \o src.ifs,
        ips |-> dst.ips \o [k \in DOMAIN src.ips |->
                              [src.ips[k] EXCEPT !.at = @ + Len(dst.ifs)]]]

InterfaceResult(i) ==
  [ifs |-> <<[end |-> "host", of |-> i], [end |-> "cont", of |-> i]>>,
   ips |-> <<[of |-> i, at |-> 1]>>]

\* handleCNIShimRequest: the request ends; a shim that still waits gets the answer.
Answer(s, result) ==
  /\ add' = [add EXCEPT ![s] = NoVal]
  /\ IF call[s] = "add" /\ result # NoVal
       THEN /\ call' = [call EXCEPT ![s] = "added"]
            /\ answer' = [answer EXCEPT ![s] = [ann |-> add[s].ann, result |-> result]]
       ELSE /\ call' = [call EXCEPT ![s] = IF @ = "add" THEN "stop" ELSE @]
            /\ UNCHANGED answer

\* addMultipleInterfaces returned: addRoutes is next for a pod with routes, also
\* when the result is nil.
AfterInterfaces(s, result) ==
  IF add[s].routes = NoVal
    THEN Answer(s, result)
    ELSE /\ add' = [add EXCEPT ![s].pc = "routes", ![s].i = 1, ![s].result = result]
         /\ UNCHANGED <<call, answer>>

\* Faulty variant: the wait for the annotation has no end.
TryAgainForever(s) == UNCHANGED <<add, call, answer>>

\* wait.ExponentialBackoff: the last read without annotation fails the ADD.
TryAgain(s) ==
  IF add[s].tries + 1 = Steps
    THEN Answer(s, NoVal)
    ELSE /\ add' = [add EXCEPT ![s].tries = @ + 1]
         /\ UNCHANGED <<call, answer>>

\* One read of the pod: not found ends the wait, any other error counts as no
\* annotation yet, and both annotations are those of this read.
Poll(s) ==
  /\ Serving(s, "poll")
  /\ \/ /\ pod = NoVal
        /\ Answer(s, NoVal) /\ UNCHANGED faults
     \/ /\ pod # NoVal /\ pod.ifs # NoVal
        /\ add' = [add EXCEPT ![s].pc = "setup", ![s].ann = pod.ifs, ![s].routes = pod.routes]
        /\ UNCHANGED <<call, answer, faults>>
     \/ /\ \/ pod # NoVal /\ pod.ifs = NoVal /\ UNCHANGED faults
           \/ Fault
        /\ TryAgain(s)
  /\ UNCHANGED <<pod, conf, up, env, del, netns, ovs, history, pods>>

(***************************************************************************)
(* addMultipleInterfaces: entry i of the annotation becomes a link in the  *)
(* sandbox and a port, named by the sandbox and i, on br-int.              *)
(***************************************************************************)
\* The first default route of the node names its gateway interface.
GetDefaultGatewayInterface ==
  LET defaults == SelectSeq(NodeRoutes, LAMBDA r : r.default)
  IN  IF defaults = <<>> THEN NoVal ELSE Head(defaults).link

\* The first global address of a link, or its last link-local one.
GetInterfaceIP4Addr(link) ==
  LET Of(scope) == SelectSeq(NodeAddrs[link], LAMBDA a : a.scope = scope)
  IN  IF Of("global") # <<>> THEN Head(Of("global"))
      ELSE IF Of("link") # <<>> THEN Of("link")[Len(Of("link"))]
      ELSE NoVal

GetHostNetwork ==
  LET link == GetDefaultGatewayInterface
      addr == IF link = NoVal THEN NoVal ELSE GetInterfaceIP4Addr(link)
  IN  IF addr = NoVal THEN NoVal ELSE addr.net

\* isDefaultGW once entry e was looked at.
IsDefaultGW(r, e) == r.isDefaultGW \/ (e.intf # "*" /\ e.gw = "true")

\* What the entry's defaultGateway is turned into: the first entry that asks for
\* the default route gets it, and "*" takes it on eth0 if none has before.
DefaultGateway(r, e) ==
  IF e.intf = "*" THEN IF r.isDefaultGW \/ r.ifname # "eth0" THEN "false" ELSE "true"
  ELSE IF e.gw = "true" /\ r.isDefaultGW THEN "false" ELSE e.gw

\* The name of the link in the sandbox.
Dev(e, ifname) == IF e.intf = "*" THEN ifname ELSE e.intf

\* renameLink: the host end gets the sandbox's name and i, if that is not too long.
renameLink(i) == i <= NameRoom

\* Faulty variant: the default interface gets no route to the host's network.
HostRouteNever(r, e) == FALSE

\* eth0 keeps a route to the node's network when it does not get the default route.
HostRoute(r, e) ==
  DefaultGateway(r, e) = "false" /\ IsDefaultGW(r, e) /\ Dev(e, r.ifname) = "eth0"

\* What setupInterface makes of namespace n: the link, and then its routes.
Linked(n, r, e) == [n EXCEPT !.devs = @ \cup {Dev(e, r.ifname)}]
Routed(n, r, e) ==
  [Linked(n, r, e) EXCEPT
     !.dflt = IF DefaultGateway(r, e) = "true" THEN Dev(e, r.ifname) ELSE @,
     !.host = IF HostRoute(r, e) THEN GetHostNetwork ELSE @]

\* setupInterface when no call fails by itself: the namespace it leaves, and
\* whether it succeeds.  The kernel refuses a second link of a name and a second
\* default route.
setupInterface(n, r, e) ==
  LET dflt   == DefaultGateway(r, e) = "true"
      toHost == HostRoute(r, e)
  IN  IF \/ n = NoVal \/ ~e.whole \/ (toHost /\ GetHostNetwork = NoVal)
         \/ Dev(e, r.ifname) \in n.devs
        THEN [ns |-> n, ok |-> FALSE]
      ELSE IF ((dflt \/ toHost) /\ ~e.gwip) \/ (dflt /\ n.dflt # NoVal)
        THEN [ns |-> Linked(n, r, e), ok |-> FALSE]
      ELSE [ns |-> Routed(n, r, e), ok |-> renameLink(r.i)]

\* The work in the namespace.  A call that fails may leave the link, and its
\* routes, behind.
SetupInterface(s) ==
  /\ Serving(s, "setup") /\ add[s].i <= Len(add[s].ann)
  /\ LET n == netns[s]
         r == add[s]
         e == r.ann[r.i]
         o == setupInterface(n, r, e)
     IN  \/ /\ o.ok
            /\ netns' = [netns EXCEPT ![s] = o.ns]
            /\ add' = [add EXCEPT ![s].pc = "plug", ![s].isDefaultGW = IsDefaultGW(r, e)]
            /\ UNCHANGED <<call, answer, faults>>
         \/ /\ ~o.ok
            /\ netns' = [netns EXCEPT ![s] = o.ns]
            /\ AfterInterfaces(s, NoVal)
            /\ UNCHANGED faults
         \/ /\ o.ok /\ Fault
            /\ \E m \in {n, Linked(n, r, e), o.ns} : netns' = [netns EXCEPT ![s] = m]
            /\ AfterInterfaces(s, NoVal)
  /\ UNCHANGED <<pod, conf, up, env, del, ovs, history, pods>>

\* Faulty variant: a failing add-port is only logged.
AddPortIgnoresError(s) ==
  /\ Serving(s, "plug")
  /\ LET r == add[s]
     IN  /\ \/ /\ ovs' = ovs \cup {[sb |-> s, idx |-> r.i, port |-> r.ann[r.i].intf]}
               /\ UNCHANGED faults
            \/ Fault /\ UNCHANGED ovs
         /\ add' = [add EXCEPT ![s].pc = "setup", ![s].i = @ + 1,
                               ![s].result = mergeWithResult(InterfaceResult(r.i), @)]
  /\ UNCHANGED <<pod, conf, up, call, env, del, netns, answer, history, pods>>

\* ovs-vsctl add-port with the logical port's name as iface-id, and the entry's
\* part of the result.  The command may fail after it has committed, and does
\* not fail when the link is gone.
AddPort(s) ==
  /\ Serving(s, "plug")
  /\ LET r == add[s]
         plugged == ovs \cup {[sb |-> s, idx |-> r.i, port |-> r.ann[r.i].intf]}
     IN  \/ /\ ovs' = plugged
            /\ add' = [add EXCEPT ![s].pc = "setup", ![s].i = @ + 1,
                                  ![s].result = mergeWithResult(InterfaceResult(r.i), @)]
            /\ UNCHANGED <<call, answer, faults>>
         \/ /\ ovs' \in {ovs, plugged}
            /\ Fault
            /\ AfterInterfaces(s, NoVal)
  /\ UNCHANGED <<pod, conf, up, env, del, netns, history, pods>>

\* All entries are configured; of an empty annotation the result is nil.
InterfacesDone(s) ==
  /\ Serving(s, "setup") /\ add[s].i > Len(add[s].ann)
  /\ AfterInterfaces(s, add[s].result)
  /\ UNCHANGED <<pod, conf, up, env, del, netns, ovs, history, pods, faults>>

(***************************************************************************)
(* addRoutes, and the end of nfn-agent.                                    *)
(***************************************************************************)
\* The process ends, its requests with it, and the shims that wait get an error.
Die ==
  /\ up' = FALSE
  /\ add' = [s \in Sandboxes |-> NoVal]
  /\ del' = [s \in Sandboxes |-> NoVal]
  /\ call' = [s \in Sandboxes |-> IF call[s] \in {"add", "del"} THEN "stop" ELSE call[s]]

\* One route of ovnNetworkRoutes.  A device that the sandbox does not have, or a
\* dst that does not parse, is a nil dereference in a goroutine that nothing
\* recovers: nfn-agent ends.
AddRoute(s) ==
  /\ Serving(s, "routes") /\ add[s].i <= Len(add[s].routes)
  /\ LET q == add[s].routes[add[s].i]
     IN  \/ /\ ~q.whole \/ netns[s] = NoVal
            /\ Answer(s, NoVal) /\ UNCHANGED <<up, del, faults>>
         \/ /\ q.whole /\ netns[s] # NoVal
            /\ ~q.dst \/ q.dev \notin netns[s].devs
            /\ Die /\ UNCHANGED <<answer, faults>>
         \/ /\ q.whole /\ netns[s] # NoVal /\ q.dst /\ q.dev \in netns[s].devs
            /\ \/ /\ add' = [add EXCEPT ![s].i = @ + 1]
                  /\ UNCHANGED <<call, answer, faults>>
               \/ Fault /\ Answer(s, NoVal)
            /\ UNCHANGED <<up, del>>
  /\ UNCHANGED <<pod, conf, env, netns, ovs, history, pods>>

RoutesDone(s) ==
  /\ Serving(s, "routes") /\ add[s].i > Len(add[s].routes)
  /\ Answer(s, mergeWithResult(RoutesResult, add[s].result))
  /\ UNCHANGED <<pod, conf, up, env, del, netns, ovs, history, pods, faults>>

Crash ==
  /\ up /\ Fault
  /\ Die
  /\ UNCHANGED <<pod, conf, env, netns, ovs, answer, history, pods>>

\* The socket of the process before is removed and a new one served.
Start ==
  /\ ~up
  /\ up' = TRUE
  /\ UNCHANGED <<pod, conf, call, env, requests, netns, ovs, answer, history, pods, faults>>

(***************************************************************************)
(* cmdDel.                                                                 *)
(***************************************************************************)
Following(s) ==
  /\ del' = [del EXCEPT ![s] = @ + 1]
  /\ UNCHANGED <<call, env, answer>>

Missing(s) == \A x \in ovs : x.sb = s => x.idx # del[s]

\* Faulty variant: the loop goes one name too far.
DelNextOffByOne(s) == IF del[s] = DelTries THEN DelDone(s) ELSE Following(s)

\* Faulty variant: the first name without a port ends the loop.
DelNextStopsEarly(s) ==
  IF Missing(s) \/ del[s] + 1 = DelTries THEN DelDone(s) ELSE Following(s)

\* Faulty variant: a name without a port is an error of the DEL.
DelNextMissingFails(s) ==
  IF Missing(s)
    THEN /\ call' = [call EXCEPT ![s] = "stop"]
         /\ del' = [del EXCEPT ![s] = NoVal]
         /\ UNCHANGED <<env, answer>>
    ELSE IF del[s] + 1 = DelTries THEN DelDone(s) ELSE Following(s)

\* The loop of cmdDel.
DelNext(s) == IF del[s] + 1 = DelTries THEN DelDone(s) ELSE Following(s)

\* del-port of the next name: no such port is no error; any other failure ends
\* the loop, and the DEL still succeeds.
DelPort(s) ==
  /\ up /\ del[s] # NoVal
  /\ \/ /\ ovs' = {x \in ovs : ~(x.sb = s /\ x.idx = del[s])}
        /\ DelNext(s)
        /\ UNCHANGED <<stuck, faults>>
     \/ /\ Fault
        /\ DelDone(s)
        /\ stuck' = stuck \cup {s}
        /\ UNCHANGED ovs
  /\ UNCHANGED <<pod, conf, up, add, netns, late, pods>>

(***************************************************************************)
(* The specification.                                                      *)
(***************************************************************************)
Init ==
  /\ pod = NoVal /\ conf \in ConfFiles /\ up = TRUE
  /\ call = [s \in Sandboxes |-> "none"]
  /\ env = [s \in Sandboxes |-> NoVal]
  /\ add = [s \in Sandboxes |-> NoVal]
  /\ del = [s \in Sandboxes |-> NoVal]
  /\ netns = [s \in Sandboxes |-> NoVal]
  /\ ovs = {}
  /\ answer = [s \in Sandboxes |-> NoVal]
  /\ stuck = {} /\ late = {}
  /\ pods = 0 /\ faults = 0

Serve(s) ==
  \/ Poll(s) \/ SetupInterface(s) \/ AddPort(s) \/ InterfacesDone(s)
  \/ AddRoute(s) \/ RoutesDone(s)

Next ==
  \/ CreatePod \/ Annotate \/ DeletePod \/ EditConf
  \/ \E s \in Sandboxes :
       \/ RunSandbox(s) \/ GiveUp(s) \/ StopSandbox(s) \/ NetnsGone(s)
       \/ CmdAdd(s) \/ CmdDel(s) \/ Serve(s) \/ DelPort(s)
  \/ Crash \/ Start

Spec == Init /\ [][Next]_vars

\* The goroutines of the server run, nfn-agent is restarted by its DaemonSet, the
\* runtime executes the shim and the kubelet repeats a DEL that failed.  Nothing
\* makes the pod, the annotation, time-outs or failures happen.
FairSpec ==
  /\ Spec
  /\ WF_vars(Start)
  /\ \A s \in Sandboxes :
       WF_vars(Serve(s)) /\ WF_vars(DelPort(s)) /\ WF_vars(CmdAdd(s)) /\ WF_vars(CmdDel(s))

-----------------------------------------------------------------------------
(***************************************************************************)
(* Properties.                                                             *)
(***************************************************************************)
\* The type of the state.
TypeOK ==
  /\ pod \in [ifs: Annotations \cup {NoVal}, routes: RouteLists \cup {NoVal}] \cup {NoVal}
  /\ conf \in ConfFiles /\ up \in BOOLEAN
  /\ call \in [Sandboxes -> {"none", "exec", "add", "added", "stop", "del", "deleted"}]
  /\ env \in [Sandboxes -> Envs \cup {NoVal}]
  /\ add \in [Sandboxes ->
       [pc: {"poll", "setup", "plug", "routes"}, ifname: Devs, tries: 0..(Steps - 1), i: Nat \ {0},
        ann: Annotations \cup {<<>>}, routes: RouteLists \cup {NoVal},
        isDefaultGW: BOOLEAN, result: Results \cup {NoVal}] \cup {NoVal}]
  /\ del \in [Sandboxes -> (0..(DelTries - 1)) \cup {NoVal}]
  /\ \A s \in Sandboxes : netns[s] # NoVal =>
       netns[s].devs \subseteq Devs /\ netns[s].dflt \in Devs \cup {NoVal}
  /\ ovs \subseteq [sb: Sandboxes, idx: 1..NameRoom, port: Devs \cup {"*"}]
  /\ answer \in [Sandboxes -> [ann: Annotations \cup {<<>>}, result: Results] \cup {NoVal}]
  /\ stuck \subseteq Sandboxes /\ late \subseteq Sandboxes
  /\ pods \in 0..MaxPods /\ faults \in 0..MaxFaults

Plugged(s, a, i) ==
  /\ Dev(a[i], env[s].ifname) \in netns[s].devs
  /\ [sb |-> s, idx |-> i, port |-> a[i].intf] \in ovs

\* Once a sandbox is torn down br-int holds no port of it: cmdDel goes through
\* every name that setupInterface can give, also after an ADD that failed half
\* way or was cut off by a restart of nfn-agent.  What remains open is a del-port
\* that fails (cmdDel gives up and answers success), a DEL whose shim has no
\* configuration, and a DEL that overtakes the ADD of the same sandbox after the
\* runtime's time-out.
NoPortLeak ==
  \A x \in ovs : call[x.sb] = "deleted" => x.sb \in stuck \cup late

\* A successful ADD that lists interfaces lists and has made all of the annotation
\* it read: every entry has its link in the sandbox and its port, with the
\* entry's iface-id and number, on br-int.
AnswerIsPlugged ==
  \A s \in Sandboxes :
    call[s] = "added" /\ netns[s] # NoVal /\ answer[s].result.ifs # <<>> =>
      /\ Len(answer[s].result.ifs) = 2 * Len(answer[s].ann)
      /\ \A i \in DOMAIN answer[s].ann : Plugged(s, answer[s].ann, i)

\* mergeWithResult keeps the addresses with their interfaces: every address of an
\* answer points at the container end of its own entry.
AddressesMatchInterfaces ==
  \A s \in Sandboxes : answer[s] # NoVal =>
    \A k \in DOMAIN answer[s].result.ips :
      LET ip == answer[s].result.ips[k]
      IN  /\ ip.at + 1 \in DOMAIN answer[s].result.ifs
          /\ answer[s].result.ifs[ip.at + 1] = [end |-> "cont", of |-> ip.of]

\* A pod that was given its default interface as eth0 has a default route, and if
\* that goes through another network it still reaches the network of its node
\* through eth0, whatever the order and the wishes of the entries.
DefaultAndHostRoute ==
  \A s \in Sandboxes :
    /\ call[s] = "added" /\ netns[s] # NoVal /\ answer[s].result.ifs # <<>>
    /\ env[s].ifname = "eth0"
    /\ \E i \in DOMAIN answer[s].ann : answer[s].ann[i].intf = "*"
    => /\ netns[s].dflt # NoVal
       /\ netns[s].dflt # "eth0" => netns[s].host = GetHostNetwork

\* Every ADD that the server took is answered, whether or not the operator ever
\* writes the annotation: the wait is bounded, and a restart cuts it off.
AddAnswered == \A s \in Sandboxes : call[s] = "add" ~> call[s] # "add"

\* A sandbox that has to go is torn down in the end: DEL is repeated until
\* nfn-agent is back, and it does not fail on ports that were never made.
TornDown ==
  \A s \in Sandboxes : call[s] = "stop" /\ Loads(env[s]) ~> call[s] = "deleted"

\* What the error of cmdAdd says: an ADD whose interfaces could not be configured
\* has no result and fails, so a successful one means that the pod is plugged.
AddedMeansPlugged ==
  \A s \in Sandboxes : call[s] = "added" /\ netns[s] # NoVal =>
    \A i \in DOMAIN answer[s].ann : Plugged(s, answer[s].ann, i)
=============================================================================

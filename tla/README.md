# ovn4nfv-k8s-plugin: TLA+ models, checks and proofs

`nfn-operator` turns Kubernetes objects into OVN configuration; `nfn-agent`, on
every node, sets up the links and bridges that provider networks need and the
node's own port; the CNI server in it configures the pods. This directory models
the whole of it in which several actors, failures and restarts meet: the four
controllers, the set-up of OVN, the notification server, the agents, and the CNI
server with its shim.

## 1. The system

| component | state it keeps | operations | talks to |
|---|---|---|---|
| Network controller (`pkg/controller/network`) | none of its own: the Network object, its finalizer and status | `Reconcile` → `reconcileFinalizers`, `createNetwork`, `deleteNetwork` | API server, OVN controller |
| Pod controller (`pkg/controller/pod`) | none of its own: the pod's `ovnInterfaces` annotation | event predicates of `add`, `Reconcile`, `addLogicalPorts`, `setPodAnnotation`, `deleteLogicalPorts` | API server, OVN controller; the CNI server reads the annotation |
| ProviderNetwork controller (`pkg/controller/providernetwork`) | as the Network controller | the same, and `SendNotif` | API server, OVN controller, notification server |
| NetworkChaining controller, route calculation (`pkg/controller/networkchaining`, `internal/pkg/utils/chain.go`) | `chainRoutingInfo` (package variable) | `CalculateRoutes`, `SendRouteNotif` | API server, OVN, notification server |
| OVN controller (`internal/pkg/ovn`) | `gatewayCache`; the OVN northbound database behind `ovn-nbctl` | `CreateNetwork`, `DeleteNetwork`, `CreateProviderNetwork`, `DeleteProviderNetwork`, `AddLogicalPorts`, `DeleteLogicalPorts`, `AddNodeLogicalPorts` | `ovn-nbctl`, called from all controllers and from `Subscribe` |
| Notification server (`internal/pkg/nfnNotify`) | `clientList`: node → gRPC stream | `Subscribe`, `SendNotif`, `SendRouteNotif` | one server stream per agent |
| nfn-agent (`cmd/nfn-agent`) | `inSync`, `pnCreateStore`; VLAN links, OVS bridges, bridge mappings of the node | `subscribeNotif`, `handleNotif`, the in-sync functions | `ip`, `ovs-vsctl` |
| OVN set-up and node ports (`internal/pkg/ovn`, `nfnNotify`) | the router, join switch and default network in OVN; a port per node | `NewOvnController`, `setupDistributedRouter`, `AddNodeLogicalPorts`, `getNodeLogicalPortIPAddr`, `createNodeOVSInternalPort` | `ovn-nbctl`, `ovs-vsctl`, netlink, iptables |
| CNI server (`internal/pkg/cniserver`) | none of its own: links and routes of the sandboxes, ports on `br-int` | `handleCNIShimRequest`, `cmdAdd`, `addMultipleInterfaces`, `addRoutes`, `cmdDel` | API server, netlink, OVS |
| CNI shim (`cnishim`, `cmd/ovn4nfvk8s-cni`) | none | `InitConfig`, `CmdAdd`, `CmdDel` | the container runtime, the CNI server's socket |

What is hard about it:

* **Stale copies.** Reconcile reads an informer cache that lags behind the API
  server; updates carry resource versions, the pod patch does not.
* **Several calls per request.** Each request is a sequence of API and
  `ovn-nbctl` calls. Each may fail, and may fail *after* it took effect (a lost
  answer; `--wait=hv` timing out behind a committed transaction); the process
  may die between any two.
* **Errors that are swallowed.** Several error paths neither requeue nor record.
* **Subscribing while objects change.** `Subscribe` runs beside the controller's
  worker; the order of registering, listing and sending decides whether a node
  misses a network. An agent that restarts has a second `Subscribe` running
  beside the one of its dead predecessor, which may still register its dead stream
  over the live one, or send into the live one.
* **Requests that outlive their callers.** The CNI server goes on with an ADD
  whose shim was killed by the runtime's time-out; the DEL of the same sandbox
  may run beside it.
* **Two operators.** There is no leader election, so that during a rolling update
  two processes set OVN up at a time, each with a MAC address of its own.

What makes each part correct: a switch never outlives its object unless its
deletion failed, and is never taken from a live one (Network); a running pod has
the addresses OVN has for it, ports have owners, a pod gets its annotation
(Pod); a selected node hears of every created network, and of every removal, unless
the `Subscribe` call of its agent's dead predecessor registers last
(ProviderNetwork, server, agent); a chain that is reported created carries packets
to every network of it and out at both ends, never in circles, and leaves the host
reachable (NetworkChaining); a sandbox that is answered is plugged and routed as
its annotation says, and one that is gone leaves no port (CNI); the router has one
link to the join switch and a node in sync has the gateway its pods were given
(set-up).

## 2. Modules

| module | models |
|---|---|
| `NetworkController` | Network controller, `CreateNetwork`/`DeleteNetwork`/`createOvnLS`, `gatewayCache` |
| `PodController` | Pod controller, `AddLogicalPorts`/`DeleteLogicalPorts`, the annotation, `cmdAdd` as its reader |
| `ProviderNetwork` | composition of the ProviderNetwork controller, the notification server and the agents |
| `ChainController` | NetworkChaining controller, `CalculateRoutes`, `SendRouteNotif`, `ContainerAddRoute` in the agents |
| `NodeSetup` | composition of `NewOvnController`, `Subscribe` with `AddNodeLogicalPorts`, and the agent's internal port |
| `CniServer` | composition of the CNI shim, the CNI server and the link plumbing |
| `SwitchLifecycle` | abstract: what the Network controller promises about switches |
| `ProviderLifecycle` | abstract: what the ProviderNetwork controller, the notification server and the agents promise together |
| `NetworkControllerProofs` | the inductive invariant of `NetworkController` and its theorems |
| `SwitchLifecycleProofs` | that `NetworkController` implements `SwitchLifecycle` |
| `NodeSetupProofs` | the inductive invariant of `NodeSetup` and its theorems |
| `CniServerProofs` | the inductive invariant of `CniServer` and its theorems |
| `PodControllerProofs` | the inductive invariants of `PodController` and its theorems |
| `ProviderNetworkProofs` | the inductive invariant of `ProviderNetwork` and its theorems |
| `ProviderLifecycleProofs` | that `ProviderNetwork` implements `ProviderLifecycle` |
| `ChainControllerProofs` | the inductive invariants of `ChainController` and its theorems |
| `MC...` | instances for TLC |

All follow one scheme. **One action is one call that leaves the process**,
with the code up to the next such call, because that is where other actors can
run. In the controllers `pc` names the next call, `req` the request, `cr`/`obj` the
worker's copy of the object. There is one worker per controller (`MaxConcurrentReconciles` is left
at 1). The API server, informer and work queue are external:
`api` holds the stored version of every object, `pending` the versions the watch
has not delivered, `cache` what the informer holds, `queue` the keys to
reconcile. `ApiCall` is one write: accepted, refused because of its resource
version, or lost before or after the server performed it. `Nbctl` is one OVN
command with the same three outcomes. Data is reduced to what the properties
tell apart: a subnet is a value that parses or does not, an address is the
switch it is on and a tag, a message is its type, network and spec.

`NetworkController` state and code: `ls`, `rtos`, `stor` are the logical switch
(with its subnet), the router port `rtos-<name>` and the switch port
`stor-<name>`. `AddFinalizer`, `FindLS`, `LsAdd`, `LrpAdd`, `LspAdd`,
`UpdateStatus` are the calls of a creation in their order; `LrpDel`, `LsDel`,
`UpdateDeleteStatus`, `RemoveFinalizer` those of a deletion. `ReconcileFinalizers` is
where a pass goes with the copy it has read.
`GetGatewayFromSwitch` is a pod or node port asking for a gateway. `Crash`
restarts nfn-operator: memory is lost, the informer lists afresh.

`PodController`: `Passes` is the event filter of `add`; `Todo` and `Decoded` are
what `AddLogicalPorts` makes of the `nfn-network` annotation, including the
fields one element inherits from the ones before it; `FindLogicalSwitch`,
`LspAdd`, `ReadAddress` are the calls per interface, `SetPodAnnotation` the
patch; `ListPorts`, `LspDel` the deletion. `Contains` is the substring relation
between names that `DeleteLogicalPorts` uses. `inc` tells pods of one name apart.

`ProviderNetwork`: `subs` are the running `Subscribe` calls with the step they
are at, `clients` is `clientList`, `chan` the messages in each stream (FIFO,
with a window), `stream` numbers an agent's streams so that a late `Subscribe`
is told from the current one. `SendNotif` has one disjunct per selector and
outcome; for a selector it does not know it sends nothing and reports no error. `HandleNotif` is the agent's switch over messages; `HandleInSync` is
what the two in-sync functions do as written. The OVN commands of one
`CreateProviderNetwork` are one action, since nothing else in the module reads
the switch. A bridge or link counts as present once it carries its nfn mark
(`external_ids:nfn`, the alias); one that lost the mark to a failed command is
not told apart from none.

`ChainController`: `info` is the package variable `chainRoutingInfo`, to which
`CalculateRoutes` appends one deployment per step and which `SendRouteNotif`
sends from its start; `rt` are the routes in each container. A pod stands for its
address and its container, `inc` tells the pods of a deployment apart.
`GetIPAdressForPod` answers nondeterministically where the code depends on which
ports OVN holds: none, that of a pod that is gone, or that of another deployment
whose name contains the label. A pod without container statuses ends
nfn-operator (`Die`), as `ContainerStatuses[0]` panics. Streams and subscriptions
are those of `ProviderNetwork` without the provider network messages, which do
not touch routes.

`NodeSetup`: `pc`, `mac` are the operators, `lr`, `join`, `rtoj`, `jtor`,
`defaultNw` what they set up. `LrAdd` ... `LsAdd` are the commands of
`NewOvnController` in their order: an error ends the process, which Kubernetes starts
again. `sub` is the `Subscribe` call of a node with its step, `lsp` the node's port
and its dynamic address, `agent` and `kernel` the node: `AddPort`, `LinkUp`,
`AddrAdd`, `EnsureIPTables` are the calls of `createNodeOVSInternalPort`, each of
which ends it when it fails. `GetNodeLogicalPortIPAddr` is the address the node's
pods get as their gateway. A reboot keeps the OVS row and loses what the kernel held.

`CniServer`: `call` is what the runtime knows of a sandbox, `add` and `del` are the
requests the server works on, `netns` the links and routes of the sandbox, `ovs` the
ports on `br-int`. `Poll` is one read of the pod in the back-off, `SetupInterface`
the work in the namespace (`DefaultGateway` and `HostRoute` are the rules for the
default route), `AddPort` the `ovs-vsctl` command, `AddRoute` one route of
`ovnNetworkRoutes`; `DelPort` is one of the names `cmdDel` goes through.
`ExitsWithoutRequest` is the shim that cannot read its configuration: `main` prints
the error and exits with status 0. An entry of the annotation is its name, its wish
for the default route, whether its gateway parses and whether it is complete.

`SwitchLifecycle` forgets the API server, the cache, the queue, copies and retries.
The mapping is in `NetworkController` (`Lifecycle`): the owners of a name are the
Networks of that name whose stored object has the finalizer (`Owners`), the switch is
`ls`, the links are `rtos`, the lost switches are `leaked`. A finalizer that is
written is a `Claim`, `ls-add` a `Build`, `lrp-add` a `Connect`, `lrp-del` a
`Disconnect`, `ls-del` a `Remove`, the finalizer's removal a `Release`; every other
step, and every call that failed before it took effect, is a stutter. That a switch is
built once rests on the Network worker being the only one to call `createOvnLS` for its
names: `ls-add` has `--may-exist` and is followed by `set`, so that a ProviderNetwork of
the same name, or a second operator, could come between the look-up and `ls-add` and
have its switch reconfigured.

`ProviderLifecycle` forgets in addition the streams, `clientList`, the `Subscribe` calls
and who a message is for: what is left of them are orders to set a network up and
removals, on their way and possibly lost. The mapping is in `ProviderNetwork`
(`Lifecycle`): a network is declared with the spec of its stored object, owned while that
has the finalizer, dying once it is marked; orders are the create messages in streams and
in `pnCreateStore`, and what `Subscribe` calls have listed and not sent (`Orders`). So
`SubscribeList` and `NotifyCreate` are an `Order`, `SubscribeSend` passes on what is
ordered already, `NotifyDelete` is a `Withdraw`, `HandleNotif` a `SetUp`, `TearDown` or
`Sync`, and whatever ends an agent or a call a `Lose`. A deletion worked on from a stale
copy may demolish and withdraw again after the object is gone, which is why both ask only
that no finalizer stands unmarked.

History variables, which no guard reads: `leaked` (switches whose deletion
failed), `cut` (pods that lost a port to `ls-del`), `missed` (pods whose deletion
went unnoticed or failed; in `ChainController`, pods whose last message was
skipped, lost or not carried out), `seen`, `unlisted`, `leftover` (what an agent was
told, and the nodes where a list or removal failed, InSync left a bridge or an old
`Subscribe` sent late), `displaced` (nodes whose running agent lost its entry in
`clientList` to the `Subscribe` of an earlier stream), `skipped`, `failed` (nodes whose last InSync message had no address; where
setting up the port was cut short), `stuck`, `late` (sandboxes whose DEL ended before
the last port name; whose DEL began before their ADD had ended).

## 3. Runs

| run | shows | bounds |
|---|---|---|
| `network` | `NoOrphanSwitch`, `CreatedHasSwitch`, `RouterPortHasSwitch`, `ImplementsLifecycle`, `DeletionCompletes`, `Converges` under stale caches, conflicts, failing calls and a restart | 1 Network, 3 subnets (one bad), 2 CNI types, 3 user operations, 2 failures, 1 restart |
| `pod` | `ConfiguredMatchesOvn`, `PortsHaveOwner`, `AnnotatedInTheEnd` for a pod of every kind, deleted and created again, while switches come and go | 1 pod, 5 specs, 2 pods of the name, 3 operations, 2 switch operations, 1 failure, 1 restart |
| `provider_safety` | `NoLostCreate`, `RemovalReachesNode`, `ImplementsProviderLifecycle` for every kind and selector | 1 network, 1 node, 6 specs (one with an unknown selector), window 2, 2 operations, 1 failure, 1 restart |
| `chain_safety` | `HostRouteKept`, `NoForwardingLoop`, `CreatedMeansRouted` | 3 deployments, 2 networks, 2 nodes, 6 routing infos, window 1, 2 operations, 1 failure, lost pod or restart; the pod in the middle is seen while it starts |
| `node` | `RouterJoined`, `GatewayServed`, `OperatorComesUp`, `NodeReady` | 2 operators, 2 MACs, 1 node, 2 reads of the address, 2 failures or restarts, 1 reboot |
| `cni` | `NoPortLeak`, `AnswerIsPlugged`, `AddressesMatchInterfaces`, `DefaultAndHostRoute`, `AddAnswered`, `TornDown` | 1 sandbox, 6 annotations, 3 route lists, 3 environments, 3 configuration files, 2 reads, 2 interface names, 2 failures, edits or restarts |
| `network_partial_create` | **violated**: a network reported Created without its router port | 1 failure |
| `pod_name_prefix` | **violated**: deleting `web` takes the ports of `web-1` | 2 pods, no failure |
| `pod_recreated` | **violated**: a new pod annotated for its predecessor | no failure |
| `provider_in_sync` | **violated**: the agent does not set up networks that exist when it subscribes | no failure |
| `provider_node_list` | **violated**: a failed node list blocks the worker for ever | 1 failure |
| `cni_routes` | **violated**: an ADD succeeds for a pod with routes although its interface could not be made | 2 sandboxes, 1 failure |

`provider_safety` reaches a known defect that its properties name as an exception:
`Subscribe` waits up to 30 s for the node port without looking at its context
(`server.go:67`), so the call of an agent that died meanwhile may write `clientList`
(`server.go:75`) after the agent that replaced it has registered and come in sync. The
live agent is then told of no network and no removal until it starts again.
`NoLostCreate` and `RemovalReachesNode` are stated for every running agent that is not
`displaced` in this way.

The six violated properties state what a comment or document of the
repository says; `PROJECT.json` quotes it for each.

*Why the bounds are enough.* Three operations on one object give create, delete
and re-create or an edit in between, hence a stale copy of every generation. Two
failures and one restart reach every partial state and a retry that fails again.
One key suffices in `NetworkController` because a request touches its own name
only, and the proofs cover any number of keys and shared names. One pod name with
two generations reaches every case of `PodController` but the substring, which has
a run of its own. Interfaces whose MAC is drawn are in no run, as each pass draws
another, which has no bound; the proofs cover them. A window of 2 in `provider_safety` makes `Send` block.
Three deployments are the fewest with a network that is not adjacent; six routing
infos let a second request send what the first one left; with two nodes the
routes of one chain are installed in either order. Two operators that draw two MACs
are the fewest that can disagree, and only set-up is shared, so that one node is
enough. The sandboxes of a pod share the process and the pod's object and nothing
else, so that one is enough for what `cni` states; `NameRoom + 1 = DelTries` keeps
the relation of the code's 9 host names and 10 deleted ones, and the annotations
include one entry more than has a name.
Deadlock checking is off everywhere: with its operations used up the system is
at rest, which is no error.

*Fairness.* The worker runs and the watch delivers (weak fairness). A key that
stays in the FIFO work queue is served in the end (strong fairness of
`Reconcile`, as requests that are requeued take turns). controller-runtime
resyncs every informer again and again (weak fairness of `Resync`); `Converges`
and `AnnotatedInTheEnd` need it, because an OVN error is not requeued. In
`PodController` ovn-northd keeps allocating addresses; in `NodeSetup` nothing is
assumed of it, as the code bounds its wait. Kubernetes restarts `nfn-operator` and
`nfn-agent` (`Start`, `Subscribe`), goroutines run (`Server`, `Serve`, `DelPort`), the
runtime executes the shim and the kubelet repeats a DEL that failed (`CmdAdd`,
`CmdDel`): weak fairness of each. Failures, restarts, time-outs and users are bounded
or free, and get no fairness. Weak fairness of `AddPort` and `DelPort` includes that
`ovs-vsctl`, which is called without `--timeout` (`helper_linux.go:218`, `:258`),
returns.

*Assumptions.* `OVN_SUBNET` is set and valid, so the set-up ends only by a command
that fails; `GetNodeIntfName` gives every node a port name of its own
(`ConstantsAssumption` of `NodeSetup`); the runtime passes the shim no flags. Only
`NodeSetup` has two operators: the other modules have one nfn-operator at a time, the
one that starts after a `Crash`. No ProviderNetwork has the name of a Network (see
`SwitchLifecycle` above). `AnnotatedInTheEnd` assumes that the logical port of the pod's
node exists, as a pod whose network has no gateway of its own reads its address
(`ovn.go:560-564`).

`Converges` says more than the types promise: `network_types.go:45` calls
`CreateInternalError` irrecoverable, while the controller tries such a Network again
at every resync. What it ends in may be the `Created` of `network_partial_create`.

Every property of a passing run has a mutant, a faulty variant of one
definition that stands just before it in its module, under which TLC finds the
property violated.

## 4. Proofs

`NetworkControllerProofs` and `SwitchLifecycleProofs` prove for **every** set of
Networks, names and subnets and every bound:

* `TypeCorrect`: `Spec => []TypeOK`; the part that is not a type is that the worker's
  copy is of an object that exists, with the finalizer if it is marked, and follows
  from what can be read from the cache (`Readable`)
* `NoOrphanSwitchHolds`, `RouterPortHasSwitchHolds`: also when several Networks
  share one switch name
* `CreatedHasSwitchHolds`: under the assumption `DistinctNames` (no two Networks
  share a name); with shared names it is false, as one deletion takes the other's
  switch
* `ImplementsLifecycleHolds`: `Spec => Lifecycle!Spec`, the refinement, also when
  Networks share a name

from `ConstantsAssumption` only. None of the properties is inductive. That no
switch is orphaned when the finalizer is added or removed depends on which
versions of the object may still be read, so `IInv` adds:

* `KubeInv`, about all versions in sight (stored, pending, cached): they are
  ordered by resource version (`VersionsOrdered`); as long as one that carries
  the finalizer unmarked can be read, the stored object has it
  (`FinalizerKept`); behind a version marked for deletion there is no way back to
  an unmarked one (`NoWayBack`); `Created` implies the finalizer
  (`CreatedHasFinalizer`);
* `CopyInv`, the worker's copy against the store: never newer, equal to it when
  the versions are equal, with the finalizer during a creation, and during a
  deletion no unmarked version is in sight;
* `WorkerInv`, the worker's place against the switch: no switch before `ls-add`
  and after `ls-del`, one in between, no router port at `ls-del`.

The key step is that a worker in the middle of a creation works for an object
that still has its finalizer, because only the (single) worker takes it off, and
that a worker in the middle of a deletion can meet no unmarked version of the
same object. `IInv` was checked with TLC on the bounds of `network` before
it was proved. There is one lemma per action.

The refinement needs the same invariant: that `ls-add` runs for a claimed name
without a switch, `lrp-add` for a switch that exists and `ls-del` for one without a
link is `WorkerInv`; that a status update leaves the finalizer as it is, and that the
worker's last update either deletes the object or changes nothing, is `CopyInv`. Each
action maps to one abstract action or to a stutter, with lemmas on what a stored
version does to `Owners`.

`NodeSetupProofs` proves for every number of operators and nodes, every set of MACs
and addresses and every bound, from `ConstantsAssumption` of `NodeSetup`:

* `TypeCorrect`: `Spec => []TypeOK`
* `RouterJoinedHolds`: operators that set OVN up side by side agree on the link's MAC
* `GatewayServedHolds`: pods are given the address of their node's port, and a node in
  sync has it, unless it is on record why not

Its `IInv` ties each actor's place to what it has passed: an operator's step to what
OVN holds (`OperatorInv`: at `jtorAdd` the router's port has the operator's own MAC,
because `lrp-add` rejects another), a `Subscribe` call's address to the port's
(`SubInv`), the agent's step to the node's port (`NodeInv`: outside the calls that set
it up, a port that is there is whole or on record as `failed`), a pod's gateway to the
port's address (`PodInv`). What carries these over the steps of all other actors is
that a port never loses or changes its address (`PortsKept`). TLC checked this
invariant on the bounds of `node` first.

`CniServerProofs` proves for every set of sandboxes, annotations, routes, environments
and every bound, from `ConstantsAssumption` of `CniServer`:

* `TypeCorrect`: `Spec => []TypeOK`
* `NoPortLeaks`: a sandbox torn down leaves no port on `br-int`, however its ADD, its
  DEL, time-outs, retries and restarts interleave, unless it is on record why
* `AnswersArePlugged`, `AddressesMatch`, `DefaultAndHostRoutes`: what an answered ADD
  left in the sandbox is what the annotation it read asks for

Its `IInv` describes each sandbox by itself (`SandboxInv`), as sandboxes share no link:
`CallInv` ties what the runtime knows to the requests the server works on; `LeakInv`
says which ports may be left at each step of a DEL; `RequestInv` follows an ADD through
its loop over the entries of the annotation (which links, addresses, default route and
host routes the entries before the current one have left, and what is collected for
the answer); `AnswerInv` keeps that for the answer, which outlives the request. No
property is inductive: each speaks of the end of a loop, and the loop's invariant needs
what an interface contributed when it was set up.

`PodControllerProofs` proves for every set of pods, specs, switches and addresses and
every bound, from `ConstantsAssumption` of `PodController`:

* `TypeCorrect`: `Spec => []TypeOK`
* `PortsHaveOwnerHolds`: a port that is left has a pod, or a worker at it, or its
  deletion went unnoticed
* `ConfiguredMatchesOvnHolds`: a pod that was configured has the addresses OVN has for
  it, under the assumption `NamesApart` (no pod's name contains another's); without it
  the statement is false, as `pod_name_prefix` shows

The first two need `IInv`, which ties the worker's place to its request, its list of
interfaces and the ports it has made. The third needs `MatchInv`, the argument being that
every version of a pod in sight (stored, pending, cached, the worker's copy) that is
annotated was annotated with addresses that were in OVN then, and that such an address
only changes with its port: `AnnInv` says it of stored annotations, `ListInv` of the
interfaces worked off so far, `RunInv` of the sandbox that runs, `VersionInv` and
`ObjInv` order the versions, `OwnPorts` keeps the ports of one pod apart from another's.
Excepted in the property itself are drawn MACs (a pod processed again from a stale copy
gets another one, whatever the running pod was given) and two entries for one port. `Latest`, the last entry that sets a
field, is a maximum of a finite set of indices; that it exists is proved from the
well-foundedness of the order on the natural numbers. `MatchInv` was checked with TLC on
the bounds of `pod`, with drawn MACs and with three interfaces before it was proved.

`ProviderNetworkProofs` proves for every set of provider networks and nodes, every
window of a stream and every bound, from `ConstantsAssumption` of `ProviderNetwork`:

* `TypeCorrect`: `Spec => []TypeOK`
* `NoLostCreateHolds`: for an agent that runs, no provider network reported `Created` is
  lost between `SendNotif` and the list of a `Subscribe` call
* `RemovalReachesNodeHolds`: an agent that runs in sync and has read its stream keeps no
  bridge of an object that is gone

both up to the exceptions in the properties, `displaced` among them.

Its `IInv` has three layers. `KubeInv` and `CopyInv` are those of `NetworkController`,
with `SameObject`: an object has the finalizer only once the cache has seen it, so that a
worker never notifies for the wrong object of a name. `StreamInv` and `SubsInv` number the
streams: each has at most one `Subscribe` call, whose last message is InSync. `ToldInv` is
`NoLostCreate` for networks about to be reported too, with `ListInv` on what `Subscribe`
has listed. For removals, `BridgeInv` and `QueueInv` say that a bridge which no message in
the stream will remove, and one which a message will bring, belong to an object whose
removal is yet to be sent to that node (`Owned`); they hold once `Subscribe` has ended.
These speak of agents whose stream is in `clientList`. `LinkInv` (`LinkInvariance`) ties
them to the agents that run: a running agent's stream is in `clientList`, or its
`Subscribe` call has yet to register it, or it was overwritten by that of an earlier
stream. So late registration is the only way in which a running agent is cut off.
The proof attempt corrected the model: with two networks the property was false, because
InSync keeps the bridges of stored VLAN networks when a DIRECT one is stored too, also of
one whose removal came before InSync. That case is now an exception, on record in
`leftover`. `IInv` was checked with TLC on the bounds of `provider_safety`, and with three
user operations and two objects of one name.

`ProviderLifecycleProofs` proves `ImplementsProviderLifecycleHolds`, `Spec =>
Lifecycle!Spec`, for the same constants and from the same `IInv`. `CopyInv` gives what
the abstract guards ask for: at `CreateProviderNetwork` and at the create messages the
stored object has its finalizer and the spec of the worker's copy, at
`DeleteProviderNetwork` and at the removals no version in sight carries it unmarked. That
InSync finds its agent out of sync is `StreamInv`. What is on its way is treated by node:
lemmas say what a message sent, taken or lost does to the orders and removals of one
stream (`LettersOf`, `PushMail`, `TakenMail`, `NothingNew`), and there is one lemma per
group of actions with the abstract steps it maps to. TLC checked the refinement on the
bounds of `provider_safety` and, by random simulation, with two networks and two nodes.

`ChainControllerProofs` proves for every set of chains of any length, every placement of
deployments on nodes and every bound, from `ConstantsAssumption` of `ChainController`:

* `TypeCorrect`: `Spec => []TypeOK`
* `HostRouteKeptHolds`: the host's network is never routed into the chain
* `NoForwardingLoopHolds`: no packet goes round in circles, under `ChainsApart`
* `CreatedMeansRoutedHolds`: a settled chain that is reported `Created` and whose pods
  missed no message carries packets to each of its networks and out at both ends, under
  `ChainsApart`

`ChainsApart` says that a deployment has one place in one chain, that a chain repeats no
network, and that no label occurs in the port names of another deployment. The code does
not enforce it and needs it: with two chains that name the same two deployments in
opposite order, TLC finds a loop. The instance of `chain_safety` satisfies it
(`InstanceApart`, evaluated by TLC).

The first two need `IInv`: `PlaceInv` keeps room in `chainRoutingInfo`, and `HostInv`
says that until the host's network is routed the default route is the pod's own, which is
why `ContainerAddRoute` may run again over a table whose default route it has replaced.
The third adds `LoopInv`: every message, listed or in a stream, carries the routes of its
deployment's place (`Placed`), and every table points to its sides, the default route
leading to a pod only once all other routes are there (`Pointed`). From a set of pods
that pass a packet on, the rightmost one that sends it right, or else the leftmost one,
sends it out of the set. The fourth adds three parts. `HopInv`: the next hops in messages
and tables are edge gateways at the ends of a chain and pods that the neighbouring
deployment has had elsewhere. `CreatedInv`: once any version of a chain says `Created`,
each of its first pods is gone, has all of its routes, or has a message that is on its way
or was missed (`Told`). `PassInv`: what the worker has calculated is listed until it is
sent, and what is sent is told, so that nothing is left when `Created` is written with
the last entry. The walk of a packet, and `ContainerAddRoute` itself, are recursive functions; what they
compute is proved by taking a least counterexample among the natural numbers. These
invariants were checked with TLC on the bounds of `chain_safety` first.

Only model-checked: the liveness properties (fairness is out of the prover's
reach), and `ChainController` for chains that share deployments, of which nothing but
`TypeOK` and `HostRouteKept` is claimed.

## 5. Not modelled, and the plan

Not modelled: the values of the configuration (log level, MTU, directories: only
whether they can be read), API wrappers, generated clients, and the helpers that
nothing calls (`CheckRoute`, `ForwardRules`, `DeleteIPTables`).
The data races on `clientList`, `gatewayCache` and on concurrent `Send` are not states
of the models: a race that ends the process is a restart. `gatewayCache` is modelled,
but no property is stated of it: it goes stale when a network is deleted and created
with another subnet, which only later pods notice. Chains whose deployments have
several pods are not modelled: the code takes the first pod. Routes are never removed,
as `deleteChain` is not implemented. A chain's `networkChain` and edge networks are fixed
per name, so that an edit or a re-creation with other networks over routes that stay
("File exists", `chain.go:211`) is not modelled. No liveness is stated of `ProviderNetwork`: the
worker can block for ever, as `provider_node_list` shows.

Input that ends the process before OVN or a container changes is left out as well: an empty
`ipv4Subnets` (`ovn.go:230`, `:289`), a label without "=" and empty lists of edge
networks (`chain.go:87-98`); nfn-operator then dies on the same object at every start.
`AddLogicalPorts` of `PodController` has a failing `ReadAddress`, but no cases of their
own for a node without a logical port (`ovn.go:440-442`, `:560-564`), which fails at
every try, and for an element of the annotation that `mapstructure.Decode` refuses
(`ovn.go:137-141`). In `NodeSetup` a crash of the agent ends its `Subscribe` call at once,
while in the code the call goes on adding the node's port; as `lsp-add` has
`--may-exist`, repeating it changes nothing.

What is left: a composition of the Network and ProviderNetwork controllers, and of two
operators, which share switch names; the race of two callers in `createOvnLS` belongs
there.

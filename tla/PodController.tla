--------------------------- MODULE PodController ---------------------------
(***************************************************************************)
(* The Pod controller of nfn-operator, with AddLogicalPorts and            *)
(* DeleteLogicalPorts of the OVN controller: a scheduled pod gets one      *)
(* logical switch port per requested interface and one on the default      *)
(* network, and the addresses OVN gave those ports are written into the    *)
(* pod's ovnInterfaces annotation, which the CNI server on the node waits  *)
(* for and configures the pod from.                                        *)
(*                                                                         *)
(* As in NetworkController an action is one call that leaves the process,  *)
(* with the code up to the next one; there is one worker.  The API server, *)
(* the informer, the scheduler, the kubelet, ovn-northd and the Network    *)
(* controller are external.                                                *)
(***************************************************************************)
EXTENDS Naturals, Sequences

CONSTANTS
  Pods,        \* namespaced pod names, as in reconcile.Request
  Switches,    \* logical switch names
  DefaultNw,   \* Ovn4nfvDefaultNw
  Intfs,       \* interface names a request may carry
  Ips, Macs,   \* static addresses a request may carry
  Tags,        \* what tells two dynamic addresses, or two drawn MACs, apart
  PodSpecs,    \* what a user may ask for: [host, nfn, ifs]
  Contains,    \* <<p, q>>: "<ns>_<name>" of p occurs in the port names of q
  NoVal,       \* an absent field, annotation, port, address or request
  MaxInc,      \* bound: pods created under one name
  MaxOps,      \* bound: pod creations, deletions, updates by users and kubelet
  MaxSwitchOps,\* bound: switches created or deleted
  MaxFaults,   \* bound: failing API or ovn-nbctl calls
  MaxCrashes   \* bound: restarts of nfn-operator

NfnTypes == {"none", "invalid", "ovn4nfv", "other"}

\* One element of the nfn-network annotation's "interface" list.
Requests ==
  [sw: Switches, intf: Intfs \cup {NoVal, "*"}, ip: Ips \cup {NoVal}, mac: Macs \cup {NoVal}]

PortNames == Pods \X (Intfs \cup {NoVal, "*"})
Addresses == [sw: Switches, ip: Ips \cup {NoVal}, mac: Macs \cup {NoVal}, tag: Tags \cup {NoVal}]
Entries   == [port: PortNames, addr: Addresses]

ASSUME ConstantsAssumption ==
  /\ DefaultNw \in Switches
  /\ \A x \in Pods \cup Switches \cup Intfs \cup Ips \cup Macs \cup Tags : x # NoVal
  /\ NoVal \notin Addresses
  /\ PodSpecs \subseteq [host: BOOLEAN, nfn: NfnTypes, ifs: Seq(Requests)]
  /\ Contains \subseteq Pods \X Pods
  /\ \A p \in Pods : <<p, p>> \in Contains
  /\ MaxInc \in Nat /\ MaxOps \in Nat /\ MaxSwitchOps \in Nat
  /\ MaxFaults \in Nat /\ MaxCrashes \in Nat

\* An annotation, with the incarnation of the pod its ports were made for.
Annotations == [inc: Nat, entries: Seq(Entries)]

\* A version of a pod; inc tells the pods of one name apart, as the UID does.
Versions ==
  [live: BOOLEAN, rv: Nat, inc: Nat, node: BOOLEAN, host: BOOLEAN,
   nfn: NfnTypes, ifs: Seq(Requests), ann: Annotations \cup {NoVal}]

Gone(rv, inc) ==
  [live |-> FALSE, rv |-> rv, inc |-> inc, node |-> FALSE, host |-> FALSE,
   nfn |-> "none", ifs |-> <<>>, ann |-> NoVal]

Pcs == {"idle", "find", "lspAdd", "readAddress", "patch", "listPorts", "lspDel"}

VARIABLES
  api, pending, cache, queue, \* as in NetworkController
  pc, req,       \* the worker: next call and request
  obj,           \* the instance Reconcile read
  todo,          \* the interfaces to add, decoded
  idx,           \* the one at hand
  entries,       \* the annotation's value so far
  toDel,         \* existing ports DeleteLogicalPorts still has to delete
  switches,      \* logical switches
  ports,         \* logical switch ports, with what they are configured with
  configured,    \* what the CNI server configured the pod with
  cut,           \* history: pods that lost a port to ls-del
  missed,        \* history: deleted pods whose delete event or lsp-del was lost
  faults, crashes, ops, switchOps

kubeVars   == <<api, pending, cache>>
workerVars == <<pc, req, obj, todo, idx, entries, toDel>>
ovnVars    == <<switches, ports>>
history    == <<cut, missed>>
bounds     == <<crashes, ops, switchOps>>
vars == <<kubeVars, queue, workerVars, ovnVars, configured, history, faults, bounds>>

(***************************************************************************)
(* API server, informer, users, scheduler and kubelet (external).          *)
(***************************************************************************)
Store(p, v) ==
  /\ api' = [api EXCEPT ![p] = v]
  /\ pending' = [pending EXCEPT ![p] = @ \cup {v}]

\* Faulty variant: delete events of pods that carry no nfn-network annotation
\* are ignored, as the code that add() has commented out would do.
PassesIgnoresDelete(old, new) ==
  /\ old.nfn # "none" \/ new.nfn # "none" \/ ~old.live
  /\ old.live /\ new.live => new.ann = NoVal

\* Faulty variant: no update event passes.
PassesNoUpdate(old, new) == ~(old.live /\ new.live)

\* The predicates of add(): updates pass for pods that ask for networks and have
\* no ports yet, creations and deletions always.
Passes(old, new) ==
  old.live /\ new.live => new.nfn # "none" /\ new.ann = NoVal

Deliver(p) ==
  /\ \E v \in pending[p] :
       /\ \A w \in pending[p] : v.rv <= w.rv
       /\ cache' = [cache EXCEPT ![p] = v]
       /\ pending' = [pending EXCEPT ![p] = @ \ {v}]
       /\ queue' = IF Passes(cache[p], v) THEN queue \cup {p} ELSE queue
  /\ UNCHANGED <<api, workerVars, ovnVars, configured, history, faults, bounds>>

\* A resync is an update event with nothing new.
Resync(p) ==
  /\ cache[p].live /\ Passes(cache[p], cache[p]) /\ p \notin queue
  /\ queue' = queue \cup {p}
  /\ UNCHANGED <<kubeVars, workerVars, ovnVars, configured, history, faults, bounds>>

UserStep(p, v) ==
  /\ ops < MaxOps /\ ops' = ops + 1
  /\ Store(p, v)
  /\ UNCHANGED <<cache, queue, workerVars, ovnVars, history, faults, crashes, switchOps>>

UserCreate(p) ==
  /\ ~api[p].live /\ api[p].inc < MaxInc
  /\ \E s \in PodSpecs :
       UserStep(p, [live |-> TRUE, rv |-> api[p].rv + 1, inc |-> api[p].inc + 1,
                    node |-> FALSE, host |-> s.host, nfn |-> s.nfn, ifs |-> s.ifs,
                    ann |-> NoVal])
  /\ UNCHANGED configured

\* The pod and its sandbox go.
UserDelete(p) ==
  /\ api[p].live
  /\ UserStep(p, Gone(api[p].rv + 1, api[p].inc))
  /\ configured' = [configured EXCEPT ![p] = NoVal]

\* Any other writer of the pod (conditions, labels).
KubeletUpdate(p) ==
  /\ api[p].live
  /\ UserStep(p, [api[p] EXCEPT !.rv = @ + 1])
  /\ UNCHANGED configured

Schedule(p) ==
  /\ api[p].live /\ ~api[p].node
  /\ Store(p, [api[p] EXCEPT !.rv = @ + 1, !.node = TRUE])
  /\ UNCHANGED <<cache, queue, workerVars, ovnVars, configured, history, faults, bounds>>

\* cmdAdd on the pod's node: wait for the annotation, read from the API server,
\* and configure the pod's interfaces from it.
CniAdd(p) ==
  /\ api[p].live /\ api[p].node /\ ~api[p].host /\ api[p].ann # NoVal /\ configured[p] = NoVal
  /\ configured' = [configured EXCEPT ![p] = api[p].ann]
  /\ UNCHANGED <<kubeVars, queue, workerVars, ovnVars, history, faults, bounds>>

(***************************************************************************)
(* OVN (external).                                                         *)
(***************************************************************************)
\* ovn-northd gives a dynamic port an address that is free on its switch.
Allocate(n) ==
  /\ ports[n] # NoVal /\ ports[n].ip = NoVal /\ ports[n].tag = NoVal
  /\ \E t \in Tags :
       /\ \A m \in PortNames :
            ports[m] # NoVal /\ ports[m].sw = ports[n].sw /\ ports[m].ip = NoVal =>
              ports[m].tag # t
       /\ ports' = [ports EXCEPT ![n].tag = t]
  /\ UNCHANGED <<kubeVars, queue, workerVars, switches, configured, history, faults, bounds>>

\* The Network and ProviderNetwork controllers.
CreateSwitch(s) ==
  /\ switchOps < MaxSwitchOps /\ switchOps' = switchOps + 1
  /\ s \notin switches /\ switches' = switches \cup {s}
  /\ UNCHANGED <<kubeVars, queue, workerVars, ports, configured, history, faults, crashes, ops>>

DeleteSwitch(s) ==
  LET on == {n \in PortNames : ports[n] # NoVal /\ ports[n].sw = s} IN
  /\ switchOps < MaxSwitchOps /\ switchOps' = switchOps + 1
  /\ s \in switches /\ switches' = switches \ {s}
  /\ ports' = [n \in PortNames |-> IF n \in on THEN NoVal ELSE ports[n]]
  /\ cut' = cut \cup {n[1] : n \in on}
  /\ UNCHANGED <<kubeVars, queue, workerVars, configured, missed, faults, crashes, ops>>

(***************************************************************************)
(* The worker.                                                             *)
(***************************************************************************)
DefaultRequest == [sw |-> DefaultNw, intf |-> NoVal, ip |-> NoVal, mac |-> NoVal]

\* The last of the first i values that is one.
Latest(x, i) ==
  LET js == {j \in 1..i : x[j] # NoVal}
  IN  IF js = {} THEN NoVal ELSE x[CHOOSE j \in js : \A k \in js : k <= j]

\* mapstructure.Decode writes the fields an element has into ns, which
\* AddLogicalPorts declares outside its loop: the others keep what the last
\* element that had them left there, and an interface that none has named is "*"
\* after the first.
Decoded(ifs) ==
  LET intf(i) == Latest([j \in 1..Len(ifs) |-> ifs[j].intf], i)
  IN  [i \in 1..Len(ifs) |->
         [sw   |-> ifs[i].sw,
          intf |-> IF intf(i) = NoVal /\ i > 1 THEN "*" ELSE intf(i),
          ip   |-> Latest([j \in 1..Len(ifs) |-> ifs[j].ip], i),
          mac  |-> Latest([j \in 1..Len(ifs) |-> ifs[j].mac], i)]]

\* The interfaces in order, and the default one last unless it was asked for.
Todo(v) ==
  LET ifs == IF v.nfn = "ovn4nfv" THEN v.ifs ELSE <<>>
  IN  IF \E i \in 1..Len(ifs) : ifs[i].sw = DefaultNw
        THEN Decoded(ifs) ELSE Append(Decoded(ifs), DefaultRequest)

\* The request at hand and its port, "<ns>_<pod>" or "<ns>_<pod>_<interface>".
now  == todo[idx]
port == <<req, now.intf>>

Finish ==
  /\ pc' = "idle" /\ req' = NoVal /\ obj' = Gone(0, 0)
  /\ todo' = <<>> /\ idx' = 0 /\ entries' = <<>> /\ toDel' = {}
Done  == Finish /\ UNCHANGED queue
\* "Failed to add ports": the one error Reconcile hands back, which requeues.
Retry == Finish /\ queue' = queue \cup {req}
Goto(l) == pc' = l /\ UNCHANGED <<req, obj, todo, idx, entries, toDel, queue>>

Fault == faults < MaxFaults /\ faults' = faults + 1
NoFault == UNCHANGED faults

\* addLogicalPorts: without an nfn-network annotation, or with one that is not
\* JSON, the pod is an ovn4nfv pod with no interfaces of its own.
Supported(v) == v.nfn # "other"

\* Where the loop of AddLogicalPorts goes on with interface i: the default
\* network's port that it appends itself is not looked up.
StepFor(v, i) ==
  IF v.nfn = "ovn4nfv" /\ i <= Len(v.ifs) THEN "find" ELSE "lspAdd"

Reconcile(p) ==
  LET v == cache[p]
      Begin(l, t) == /\ pc' = l /\ req' = p /\ obj' = v /\ todo' = t /\ idx' = 1
                     /\ queue' = queue \ {p} /\ UNCHANGED <<entries, toDel>>
      Skip == queue' = queue \ {p} /\ UNCHANGED workerVars
      eligible == v.live /\ ~v.host /\ v.node
  IN
  /\ pc = "idle" /\ p \in queue
  /\ \/ ~v.live /\ Begin("listPorts", <<>>)
     \/ v.live /\ v.host /\ Skip
     \/ v.live /\ ~v.host /\ ~v.node /\ UNCHANGED <<queue, workerVars>>  \* Requeue
     \/ eligible /\ (v.ann # NoVal \/ ~Supported(v)) /\ Skip
     \/ eligible /\ v.ann = NoVal /\ Supported(v) /\ Begin(StepFor(v, 1), Todo(v))
  /\ UNCHANGED <<kubeVars, ovnVars, configured, history, faults, bounds>>

\* FindLogicalSwitch answers "no" when the command fails.
FindLogicalSwitch ==
  /\ pc = "find"
  /\ \/ /\ NoFault
        /\ IF now.sw \in switches /\ (now.intf = NoVal => now.sw = DefaultNw)
             THEN Goto("lspAdd") ELSE Retry
     \/ Fault /\ Retry
  /\ UNCHANGED <<kubeVars, ovnVars, configured, history, bounds>>

\* Faulty variant: dynamic_addresses is cleared for a dynamic port too.
NewAddressAfresh(a) ==
  /\ a.sw = now.sw /\ a.ip = now.ip /\ a.mac = now.mac
  /\ IF now.ip = NoVal THEN a.tag = NoVal ELSE (a.tag = NoVal) <=> (now.mac # NoVal)

\* addLogicalPortWithSwitch: "--may-exist lsp-add -- lsp-set-addresses".  A port
\* of that name on another switch makes it fail; a dynamic one keeps the address
\* it has; a static address without a MAC gets a MAC drawn anew on every call.
NewAddress(a) ==
  /\ a.sw = now.sw /\ a.ip = now.ip
  /\ a.mac = IF now.ip = NoVal THEN NoVal ELSE now.mac
  /\ IF now.ip = NoVal
       THEN a.tag = IF ports[port] # NoVal /\ ports[port].ip = NoVal
                      THEN ports[port].tag ELSE NoVal
       ELSE (a.tag = NoVal) <=> (now.mac # NoVal)

LspAdd ==
  /\ pc = "lspAdd"
  /\ LET possible == now.sw \in switches /\ (ports[port] # NoVal => ports[port].sw = now.sw)
         Add == \E a \in Addresses : NewAddress(a) /\ ports' = [ports EXCEPT ![port] = a]
     IN  \/ possible /\ NoFault /\ Add /\ Goto("readAddress")
         \/ ~possible /\ NoFault /\ UNCHANGED ports /\ Retry
         \/ possible /\ Fault /\ Add /\ Retry
         \/ Fault /\ UNCHANGED ports /\ Retry
  /\ UNCHANGED <<kubeVars, switches, configured, history, bounds>>

\* Faulty variant: one interface too many.
ReadAddressOffByOne ==
  /\ pc = "readAddress" /\ NoFault
  /\ ports[port] # NoVal /\ (ports[port].ip = NoVal => ports[port].tag # NoVal)
  /\ entries' = Append(entries, [port |-> port, addr |-> ports[port]])
  /\ IF idx <= Len(todo)
       THEN pc' = StepFor(obj, idx + 1) /\ idx' = idx + 1
       ELSE pc' = "patch" /\ idx' = idx
  /\ UNCHANGED <<req, obj, todo, toDel, queue, kubeVars, ovnVars, configured, history, bounds>>

\* addLogicalPortWithSwitch: poll the port's address for 30 seconds, then read the
\* gateway; the next interface, or the annotation.
ReadAddress ==
  /\ pc = "readAddress"
  /\ \/ /\ NoFault /\ ports[port] # NoVal
        /\ ports[port].ip = NoVal => ports[port].tag # NoVal
        /\ entries' = Append(entries, [port |-> port, addr |-> ports[port]])
        /\ IF idx < Len(todo)
             THEN pc' = StepFor(obj, idx + 1) /\ idx' = idx + 1
             ELSE pc' = "patch" /\ idx' = idx
        /\ UNCHANGED <<req, obj, todo, toDel, queue>>
     \/ /\ NoFault                                      \* no such port, or no address
        /\ ports[port] # NoVal => ports[port].ip = NoVal /\ ports[port].tag = NoVal
        /\ Retry
     \/ Fault /\ Retry
  /\ UNCHANGED <<kubeVars, ovnVars, configured, history, bounds>>

\* setPodAnnotation: a merge patch by name, which carries no resource version and
\* no UID.  Its error is not the one Reconcile requeues for.
SetPodAnnotation ==
  LET v == [api[req] EXCEPT !.rv = @ + 1,
                            !.ann = [inc |-> obj.inc, entries |-> entries]]
      Patch == api[req].live /\ (IF v.ann = api[req].ann THEN UNCHANGED <<api, pending>>
                                                         ELSE Store(req, v))
  IN
  /\ pc = "patch"
  /\ \/ NoFault /\ Patch
     \/ NoFault /\ ~api[req].live /\ UNCHANGED <<api, pending>>
     \/ Fault /\ Patch
     \/ Fault /\ UNCHANGED <<api, pending>>
  /\ Done
  /\ UNCHANGED <<cache, ovnVars, configured, history, bounds>>

\* DeleteLogicalPorts: list the ports, pick those whose name contains
\* "<ns>_<name>"; an error is logged and that is all.
ListPorts ==
  /\ pc = "listPorts"
  /\ LET found == {n \in PortNames : ports[n] # NoVal /\ <<req, n[1]>> \in Contains}
     IN  \/ /\ NoFault /\ UNCHANGED missed
            /\ IF found = {} THEN Done
                 ELSE /\ pc' = "lspDel" /\ toDel' = found
                      /\ UNCHANGED <<req, obj, todo, idx, entries, queue>>
         \/ Fault /\ Done /\ missed' = missed \cup {req}
  /\ UNCHANGED <<kubeVars, ovnVars, configured, cut, bounds>>

LspDel ==
  /\ pc = "lspDel"
  /\ \E n \in toDel :
       /\ \/ NoFault /\ ports' = [ports EXCEPT ![n] = NoVal] /\ UNCHANGED missed
          \/ Fault /\ UNCHANGED ports /\ missed' = missed \cup {n[1]}
       /\ IF toDel = {n} THEN Done
            ELSE toDel' = toDel \ {n} /\ UNCHANGED <<pc, req, obj, todo, idx, entries, queue>>
  /\ UNCHANGED <<kubeVars, switches, configured, cut, bounds>>

\* nfn-operator dies and restarts.  Pods deleted meanwhile make no event.
Crash ==
  /\ crashes < MaxCrashes /\ crashes' = crashes + 1
  /\ Finish
  /\ cache' = api /\ pending' = [p \in Pods |-> {}]
  /\ queue' = {p \in Pods : api[p].live}
  /\ missed' = missed \cup
       {p \in Pods : ~api[p].live /\ \E n \in PortNames : n[1] = p /\ ports[n] # NoVal}
  /\ UNCHANGED <<api, ovnVars, configured, cut, faults, ops, switchOps>>

(***************************************************************************)
(* The specification.                                                      *)
(***************************************************************************)
Init ==
  /\ api = [p \in Pods |-> Gone(0, 0)]
  /\ pending = [p \in Pods |-> {}]
  /\ cache = api /\ queue = {}
  /\ pc = "idle" /\ req = NoVal /\ obj = Gone(0, 0)
  /\ todo = <<>> /\ idx = 0 /\ entries = <<>> /\ toDel = {}
  /\ switches = Switches
  /\ ports = [n \in PortNames |-> NoVal]
  /\ configured = [p \in Pods |-> NoVal]
  /\ cut = {} /\ missed = {}
  /\ faults = 0 /\ crashes = 0 /\ ops = 0 /\ switchOps = 0

WorkerStep ==
  \/ FindLogicalSwitch \/ LspAdd \/ ReadAddress \/ SetPodAnnotation
  \/ ListPorts \/ LspDel

Next ==
  \/ \E p \in Pods : UserCreate(p) \/ UserDelete(p) \/ KubeletUpdate(p) \/ Schedule(p)
  \/ \E p \in Pods : Deliver(p) \/ Resync(p) \/ Reconcile(p) \/ CniAdd(p)
  \/ WorkerStep
  \/ \E n \in PortNames : Allocate(n)
  \/ \E s \in Switches : CreateSwitch(s) \/ DeleteSwitch(s)
  \/ Crash

Spec == Init /\ [][Next]_vars

\* As in NetworkController; ovn-northd keeps serving new ports.
Fairness ==
  /\ WF_vars(WorkerStep)
  /\ \A n \in PortNames : WF_vars(Allocate(n))
  /\ \A p \in Pods : WF_vars(Deliver(p)) /\ WF_vars(Resync(p)) /\ SF_vars(Reconcile(p))

FairSpec == Spec /\ Fairness
(***************************************************************************)
(* Properties.                                                             *)
(***************************************************************************)

\* Every variable keeps its type, and the worker is at an interface of its list
\* whenever the next call is about one.
TypeOK ==
  /\ api \in [Pods -> Versions] /\ cache \in [Pods -> Versions]
  /\ pending \in [Pods -> SUBSET Versions]
  /\ queue \subseteq Pods
  /\ pc \in Pcs /\ req \in Pods \cup {NoVal} /\ (pc # "idle" => req \in Pods)
  /\ obj \in Versions /\ todo \in Seq(Requests) /\ idx \in Nat
  /\ pc \in {"find", "lspAdd", "readAddress"} => idx \in 1..Len(todo)
  /\ entries \in Seq(Entries) /\ toDel \subseteq PortNames
  /\ switches \subseteq Switches
  /\ ports \in [PortNames -> Addresses \cup {NoVal}]
  /\ configured \in [Pods -> Annotations \cup {NoVal}]
  /\ cut \subseteq Pods /\ missed \subseteq Pods
  /\ faults \in Nat /\ crashes \in Nat /\ ops \in Nat /\ switchOps \in Nat

\* A MAC that addLogicalPortWithSwitch drew.
Drawn(a) == a.ip # NoVal /\ a.mac = NoVal

\* The pod itself was configured, and each of its interfaces has its own port.
Configured(p) ==
  /\ configured[p] # NoVal /\ configured[p].inc = api[p].inc
  /\ LET e == configured[p].entries
     IN  \A i, j \in 1..Len(e) : e[i].port = e[j].port => i = j

\* SetPodAnnotation, cmdAdd: the addresses a running pod was configured with are
\* the ones OVN has for its ports, although AddLogicalPorts may run again on a
\* stale copy of a pod that is annotated already, and the ports of a pod before
\* it may still be deleted.  Excepted are ls-del, a pod that got the annotation
\* of the pod before it (AnnotationIsOwn), interfaces that share a port, and
\* drawn MACs, as addLogicalPortWithSwitch draws another one on every call.
ConfiguredMatchesOvn ==
  \A p \in Pods \ cut : Configured(p) =>
    \A i \in 1..Len(configured[p].entries) :
      LET e == configured[p].entries[i]
          a == ports[e.port]
      IN  a = e.addr \/ (Drawn(e.addr) /\ a # NoVal /\ a.sw = e.addr.sw /\ a.ip = e.addr.ip)

\* add(), Reconcile: a port outlives its pod only until the controller has seen
\* the pod go, also if the pod goes while its ports are being added.  Excepted
\* are a failed lsp-del, which is not retried, and a pod deleted while
\* nfn-operator is down.
PortsHaveOwner ==
  \A n \in PortNames :
    ports[n] # NoVal =>
      LET p == n[1] IN
        api[p].live \/ cache[p].live \/ p \in queue \/ req = p \/ p \in missed

\* Reconcile, UpdateFunc: a scheduled pod that asks for networks which are there
\* is annotated in the end, although a failed patch is not requeued.
Servable(p) ==
  LET v == api[p] IN
  /\ v.live /\ v.node /\ ~v.host
  /\ \A i \in 1..Len(Todo(v)) : Todo(v)[i].sw \in switches
  /\ \A i \in 1..Len(Todo(v)) :      \* no port of a pod before is on another switch
       LET n == <<p, Todo(v)[i].intf>> IN ports[n] # NoVal => ports[n].sw = Todo(v)[i].sw
  /\ Decoded(v.ifs) = v.ifs          \* no element takes a field from the one before
AnnotatedInTheEnd ==
  \A p \in Pods :
    <>[](Servable(p) /\ api[p].nfn = "ovn4nfv") => <>[](api[p].ann # NoVal)

\* Ovn4nfvAnnotationTag is the "tag on already processed Pods": the pod it is on is
\* the one whose ports it names, not a later pod of the same name.
AnnotationIsOwn ==
  \A p \in Pods : api[p].ann # NoVal => api[p].ann.inc = api[p].inc
=============================================================================

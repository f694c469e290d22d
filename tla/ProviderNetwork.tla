-------------------------- MODULE ProviderNetwork --------------------------
(***************************************************************************)
(* Provider networks from end to end: the ProviderNetwork controller of    *)
(* nfn-operator, its notification server (Subscribe, SendNotif) and the    *)
(* nfn-agents that configure VLANs and OVS bridges on the nodes.           *)
(*                                                                         *)
(* The controller works as in NetworkController; the OVN commands of one   *)
(* CreateProviderNetwork or DeleteProviderNetwork are one action here,     *)
(* since nothing else in this module touches the switch.  A gRPC stream is *)
(* a FIFO that ends with the agent or the operator; Send blocks when the   *)
(* stream's window (MaxChan) is full.  The node's own OVS port, which the  *)
(* InSync message also sets up, is left out.                               *)
(***************************************************************************)
EXTENDS Naturals, Sequences

CONSTANTS
  Pns,          \* names of ProviderNetwork objects, in namespace "default"
  Nodes,
  Labelled,     \* nodes that carry the labels of a SPECIFIC selector
  PnSpecs,      \* specs a user may write
  NoVal,        \* no client, no spec, no request
  MaxChan,      \* bound: messages in a stream's window
  MaxInc,       \* bound: objects created under one name
  MaxOps,       \* bound: user operations
  MaxFaults,    \* bound: failing API, ovn-nbctl, ip and ovs-vsctl calls
  MaxRestarts   \* bound: restarts, of an agent or of nfn-operator

\* cni: the CNI type is ovn4nfv; ln: vlan.logicalInterfaceName is given.  The CRD
\* takes any string for kind and sel.
Specs == [cni: BOOLEAN, kind: {"VLAN", "DIRECT", "OTHER"},
          sel: {"ALL", "ANY", "SPECIFIC", "OTHER"}, ln: BOOLEAN]

ASSUME ConstantsAssumption ==
  /\ Labelled \subseteq Nodes
  /\ PnSpecs \subseteq Specs
  /\ NoVal \notin Pns /\ NoVal \notin Nodes /\ NoVal \notin Nat /\ NoVal \notin Specs
  /\ MaxChan \in Nat \ {0}
  /\ MaxInc \in Nat /\ MaxOps \in Nat /\ MaxFaults \in Nat
  /\ MaxRestarts \in Nat

States == {"", "Created", "CreateInternalError", "DeleteInternalError"}

\* Versions of an object that exists, and the last one of an object that is gone.
Alive == [live: {TRUE}, rv: Nat, inc: Nat, del: BOOLEAN, fin: BOOLEAN,
          spec: PnSpecs, state: States]
Gone  == [live: {FALSE}, rv: Nat, inc: Nat, del: {FALSE}, fin: {FALSE},
          spec: {NoVal}, state: {""}]
Objects == Alive \cup Gone

Tombstone(rv, inc) ==
  [live |-> FALSE, rv |-> rv, inc |-> inc, del |-> FALSE, fin |-> FALSE,
   spec |-> NoVal, state |-> ""]

Pcs == {"idle", "addFinalizer", "ovnCreate", "notifyCreate", "statusCreated",
        "statusError", "notifyDelete", "ovnDelete", "statusDelete",
        "removeFinalizer", "hung"}

\* A notification; inc (history) says which object it is about.
Messages == [type: {"create", "remove"}, pn: Pns, inc: Nat, spec: Specs]
            \cup {[type |-> "inSync"]}

VARIABLES
  api, pending, cache, queue, pc, req, cr,  \* as in NetworkController
  ls, localnet,   \* names whose switch / localnet port exists
  clients,        \* notifServer.clientList: node -> stream, by its number
  broken,         \* nodes whose stream in clientList gRPC knows to be dead
  subs,           \* running Subscribe calls: [node, stream, step, list]
  stream,         \* node -> number of the agent's stream
  up, inSync, store,   \* nfn-agent: running, inSync, pnCreateStore
  chan,           \* node -> messages in its stream
  vlans, bridges, maps, \* node -> name -> spec it was set up for, or NoVal
                  \* (a bridge counts once it carries its external_ids:nfn)
  seen,           \* history: objects whose create message this agent took
  unlisted,       \* history: nodes whose Subscribe could not list
  leftover,       \* history: nodes where a removal failed, InSync left a bridge of an
                  \* earlier agent, or the Subscribe of that one sent a create message
  displaced,      \* history: nodes whose agent's stream the Subscribe of an earlier
                  \* one has replaced in clientList by its own, which is dead
  faults, restarts, ops

kubeVars   == <<api, pending, cache>>
workerVars == <<pc, req, cr>>
ovnVars    == <<ls, localnet>>
serverVars == <<clients, broken, subs>>
nodeVars   == <<vlans, bridges, maps>>
agentVars  == <<stream, up, inSync, store, nodeVars, seen>>
history    == <<unlisted, leftover, displaced>>
bounds     == <<restarts, ops>>
vars == <<kubeVars, queue, workerVars, ovnVars, serverVars, agentVars, chan,
          history, faults, bounds>>

Fault == faults < MaxFaults /\ faults' = faults + 1
NoFault == UNCHANGED faults

(***************************************************************************)
(* API server, informer and users (external), as in NetworkController.     *)
(***************************************************************************)
Store(k, o) ==
  /\ api' = [api EXCEPT ![k] = o]
  /\ pending' = [pending EXCEPT ![k] = @ \cup {o}]

Rejected(k, o) == ~api[k].live \/ api[k].rv # o.rv
Accepted(o) ==
  IF o.del /\ ~o.fin THEN Tombstone(o.rv + 1, o.inc) ELSE [o EXCEPT !.rv = @ + 1]
Write(k, o) ==
  IF o = api[k] THEN UNCHANGED <<api, pending>> ELSE Store(k, Accepted(o))

\* Deliver and Resync are taken while the worker is idle: nothing else reads the
\* cache and the queue, and they commute with every other step.
Deliver(k) ==
  /\ pc = "idle"
  /\ \E v \in pending[k] :
       /\ \A w \in pending[k] : v.rv <= w.rv
       /\ cache' = [cache EXCEPT ![k] = v]
       /\ pending' = [pending EXCEPT ![k] = @ \ {v}]
  /\ queue' = queue \cup {k}
  /\ UNCHANGED <<api, workerVars, ovnVars, serverVars, agentVars, chan, history, faults, bounds>>

Resync(k) ==
  /\ pc = "idle" /\ cache[k].live /\ k \notin queue
  /\ queue' = queue \cup {k}
  /\ UNCHANGED <<kubeVars, workerVars, ovnVars, serverVars, agentVars, chan, history,
                 faults, bounds>>

UserStep(k, o) ==
  /\ ops < MaxOps /\ ops' = ops + 1
  /\ Store(k, o)
  /\ UNCHANGED <<cache, queue, workerVars, ovnVars, serverVars, agentVars, chan, history,
                 faults, restarts>>

UserCreate(k) ==
  /\ ~api[k].live /\ api[k].inc < MaxInc
  /\ \E s \in PnSpecs :
       UserStep(k, [live |-> TRUE, rv |-> api[k].rv + 1, inc |-> api[k].inc + 1,
                    del |-> FALSE, fin |-> FALSE, spec |-> s, state |-> ""])

UserDelete(k) ==
  /\ api[k].live /\ ~api[k].del
  /\ UserStep(k, IF api[k].fin THEN [api[k] EXCEPT !.rv = @ + 1, !.del = TRUE]
                               ELSE Tombstone(api[k].rv + 1, api[k].inc))
(***************************************************************************)
(* The notification server.                                                *)
(***************************************************************************)
Registered(n) == clients[n] # NoVal
\* The stream in clientList is the one the agent reads.
Current(n) == up[n] /\ clients[n] = stream[n]

Push(S, m) ==
  /\ \A n \in S : Len(chan[n]) < MaxChan
  /\ chan' = [n \in Nodes |-> IF n \in S THEN Append(chan[n], m) ELSE chan[n]]

\* SendNotif and sendMsg: tell the selected nodes (only nodeReq, unless it is
\* NoVal or the selector is ANY) about version o of k.  Sending to a stream whose
\* agent is gone fails or, until gRPC notices, is lost.
\* updatePnStatus is an Update, which leaves the status subresource alone.
SendNotif(k, o, type, nodeReq, Ok, Err, Hang) ==
  LET m       == [type |-> type, pn |-> k, inc |-> o.inc, spec |-> o.spec]
      targets == IF nodeReq = NoVal THEN Nodes ELSE {nodeReq}
      chosen  == targets \cap Labelled
      Live(T) == {n \in T : Current(n)}
      known   == o.spec.cni /\ o.spec.kind # "OTHER"
  IN
  \/ ~known /\ UNCHANGED chan /\ NoFault /\ Err
  \/ known /\ o.spec.sel = "OTHER" /\ UNCHANGED chan /\ NoFault /\ Ok
  \/ known /\ o.spec.sel = "ALL" /\ Push(Live(targets), m) /\ NoFault /\ Ok
  \/ /\ known /\ o.spec.sel = "SPECIFIC" /\ NoFault /\ chosen \cap broken = {}
     /\ Push(Live(chosen), m) /\ Ok
  \/ /\ known /\ o.spec.sel = "SPECIFIC" /\ NoFault /\ chosen \cap broken # {}
     /\ \E S \in SUBSET Live(chosen) : Push(S, m)  \* up to the first error
     /\ Err
  \* nodeListIterator returns a nil channel when the node list fails, and the
  \* range over it never ends.
  \/ known /\ o.spec.sel = "SPECIFIC" /\ Fault /\ UNCHANGED chan /\ Hang
  \/ known /\ o.spec.sel = "ANY" /\ o.state = "Created" /\ UNCHANGED chan /\ NoFault /\ Ok
  \/ /\ known /\ o.spec.sel = "ANY" /\ o.state # "Created" /\ NoFault
     /\ \/ \E n \in {x \in Nodes : Registered(x)} \ broken : Push(Live({n}), m) /\ Ok
        \/ broken # {} /\ UNCHANGED chan /\ Err
        \/ (\A n \in Nodes : ~Registered(n)) /\ UNCHANGED chan /\ Ok

\* gRPC's transport finds out that the agent is gone.
NoticeBroken(n) ==
  /\ Registered(n) /\ ~Current(n) /\ n \notin broken
  /\ broken' = broken \cup {n}
  /\ UNCHANGED <<kubeVars, queue, workerVars, ovnVars, clients, subs, agentVars, chan,
                 history, faults, bounds>>

\* The agents of S are gone, with their streams and what they held in memory.
Die(S) ==
  /\ up' = [n \in Nodes |-> up[n] /\ n \notin S]
  /\ chan' = [n \in Nodes |-> IF n \in S THEN <<>> ELSE chan[n]]
  /\ inSync' = [n \in Nodes |-> inSync[n] /\ n \notin S]
  /\ store' = [n \in Nodes |-> IF n \in S THEN {} ELSE store[n]]
  /\ seen' = [n \in Nodes |-> IF n \in S THEN {} ELSE seen[n]]
  /\ unlisted' = unlisted \ S /\ leftover' = leftover \ S /\ displaced' = displaced \ S

\* The agent starts and calls Subscribe.
AgentSubscribe(n) ==
  /\ ~up[n]
  /\ up' = [up EXCEPT ![n] = TRUE]
  /\ stream' = [stream EXCEPT ![n] = @ + 1]
  /\ subs' = subs \cup {[node |-> n, stream |-> stream[n] + 1, step |-> "register", list |-> {}]}
  /\ UNCHANGED <<kubeVars, queue, workerVars, ovnVars, clients, broken, inSync, store, seen,
                 nodeVars, chan, history, faults, bounds>>

Replace(s, t) == subs' = (subs \ {s}) \cup {t}

\* Faulty variant: the stream goes into clientList after the list was read.
SubscribeRegisterLate(s) ==
  /\ \/ /\ s.step = "register" /\ Replace(s, [s EXCEPT !.step = "list"])
        /\ UNCHANGED <<clients, broken>>
     \/ /\ s.step = "send" /\ clients[s.node] # s.stream
        /\ clients' = [clients EXCEPT ![s.node] = s.stream]
        /\ broken' = broken \ {s.node} /\ UNCHANGED subs
  /\ UNCHANGED <<kubeVars, queue, workerVars, ovnVars, agentVars, chan, history, faults, bounds>>

\* Subscribe: add the node's logical port (a failure ends the call, the stream
\* and with it the agent), then put the stream into clientList, where that of an
\* agent started since is lost: AddNodeLogicalPorts polls on when the stream is dead.
SubscribeRegister(s) ==
  /\ s.step = "register"
  /\ \/ /\ NoFault
        /\ clients' = [clients EXCEPT ![s.node] = s.stream]
        /\ broken' = broken \ {s.node}
        /\ Replace(s, [s EXCEPT !.step = "list"])
        /\ displaced' = IF s.stream # stream[s.node] /\ Current(s.node)
                          THEN displaced \cup {s.node} ELSE displaced
        /\ UNCHANGED <<up, inSync, store, seen, chan, unlisted, leftover>>
     \/ /\ Fault
        /\ subs' = subs \ {s}
        /\ Die({n \in {s.node} : stream[n] = s.stream})
        /\ UNCHANGED <<clients, broken>>
  /\ UNCHANGED <<kubeVars, queue, workerVars, ovnVars, stream, nodeVars, bounds>>

\* Subscribe: list the provider networks from the API server; an error is ignored.
SubscribeList(s) ==
  /\ s.step = "list"
  /\ \/ /\ NoFault /\ UNCHANGED unlisted
        /\ Replace(s, [s EXCEPT !.step = "send",
                                !.list = {<<k, api[k]>> : k \in {j \in Pns : api[j].live}}])
     \/ /\ Fault /\ Replace(s, [s EXCEPT !.step = "send"])
        /\ unlisted' = unlisted \cup {s.node}
  /\ UNCHANGED <<kubeVars, queue, workerVars, ovnVars, clients, broken, agentVars, chan,
                 leftover, displaced, bounds>>

\* Subscribe: one create message per provider network; errors are ignored.
SubscribeSend(s) ==
  /\ s.step = "send"
  /\ \E x \in s.list :
       LET Next1 == Replace(s, [s EXCEPT !.list = @ \ {x}])
       IN  SendNotif(x[1], x[2], "create", s.node, Next1, Next1,
                     Replace(s, [s EXCEPT !.step = "hung"]))
  /\ leftover' = IF s.stream # stream[s.node] THEN leftover \cup {s.node} ELSE leftover
  /\ UNCHANGED <<kubeVars, queue, workerVars, ovnVars, clients, broken, agentVars, unlisted,
                 displaced, bounds>>

\* Subscribe: InSync goes to the stream of this call, which then stays open.
SubscribeInSync(s) ==
  /\ s.step = "send" /\ s.list = {}
  /\ IF up[s.node] /\ stream[s.node] = s.stream
       THEN Push({s.node}, [type |-> "inSync"]) ELSE UNCHANGED chan
  /\ subs' = subs \ {s}
  /\ UNCHANGED <<kubeVars, queue, workerVars, ovnVars, clients, broken, agentVars, history,
                 faults, bounds>>

(***************************************************************************)
(* The controller's worker.                                                *)
(***************************************************************************)
Goto(l) == pc' = l /\ UNCHANGED <<req, cr, queue>>
Finish == pc' = "idle" /\ req' = NoVal /\ cr' = Tombstone(0, 0)
Done  == Finish /\ UNCHANGED queue
Retry == Finish /\ queue' = queue \cup {req}

\* reconcileFinalizers and createNetwork up to their first call, for copy o of k.
ReconcileFinalizers(k, o) ==
  LET Begin(l) == pc' = l /\ req' = k /\ cr' = o /\ queue' = queue \ {k} IN
  \/ o.del /\ ~o.fin /\ queue' = queue \ {k} /\ UNCHANGED workerVars
  \/ o.del /\ o.fin /\ o.spec.cni  /\ Begin("notifyDelete")
  \/ o.del /\ o.fin /\ ~o.spec.cni /\ Begin("removeFinalizer")
  \/ ~o.del /\ ~o.fin              /\ Begin("addFinalizer")
  \/ ~o.del /\ o.fin /\ o.spec.cni  /\ Begin("ovnCreate")
  \/ ~o.del /\ o.fin /\ ~o.spec.cni /\ UNCHANGED <<queue, workerVars>>

\* Faulty variant: no return when the object is not found.
ReconcileNotFoundGoesOn(k) ==
  /\ pc = "idle" /\ k \in queue
  /\ ReconcileFinalizers(k, cache[k])
  /\ UNCHANGED <<kubeVars, ovnVars, serverVars, agentVars, chan, history, faults, bounds>>

Reconcile(k) ==
  /\ pc = "idle" /\ k \in queue
  /\ \/ ~cache[k].live /\ queue' = queue \ {k} /\ UNCHANGED workerVars  \* NotFound
     \/ cache[k].live /\ ReconcileFinalizers(k, cache[k])
  /\ UNCHANGED <<kubeVars, ovnVars, serverVars, agentVars, chan, history, faults, bounds>>

ApiCall(o, Ok, Fail) ==
  \/ /\ ~Rejected(req, o) /\ Write(req, o) /\ NoFault /\ Ok
  \/ /\ Rejected(req, o) /\ UNCHANGED <<api, pending>> /\ NoFault /\ Fail
  \/ /\ ~Rejected(req, o) /\ (Write(req, o) \/ UNCHANGED <<api, pending>>)
     /\ Fault /\ Fail

\* Faulty variant: what the API server answers to the finalizer is not looked at.
AddFinalizerUnchecked ==
  /\ pc = "addFinalizer"
  /\ LET Go == IF cr.spec.cni THEN Goto("ovnCreate") ELSE Retry
     IN  ApiCall([cr EXCEPT !.fin = TRUE], Go, Go)
  /\ UNCHANGED <<cache, ovnVars, serverVars, agentVars, chan, history, bounds>>

AddFinalizer ==
  /\ pc = "addFinalizer"
  /\ ApiCall([cr EXCEPT !.fin = TRUE],
             IF cr.spec.cni
               THEN pc' = "ovnCreate" /\ cr' = api'[req] /\ UNCHANGED <<req, queue>>
               ELSE Retry,
             Retry)
  /\ UNCHANGED <<cache, ovnVars, serverVars, agentVars, chan, history, bounds>>

\* CreateProviderNetwork.  "LS exists" counts as success; any other error ends the
\* request without a word in the status.
OvnCreate ==
  /\ pc = "ovnCreate"
  /\ \/ /\ NoFault /\ Goto("notifyCreate")
        /\ ls' = ls \cup {req}
        /\ localnet' = IF req \in ls THEN localnet ELSE localnet \cup {req}
     \/ /\ Fault /\ Done
        /\ \/ UNCHANGED ovnVars
           \/ ls' = ls \cup {req} /\ UNCHANGED localnet
           \/ req \notin ls /\ ls' = ls \cup {req} /\ localnet' = localnet \cup {req}
  /\ UNCHANGED <<kubeVars, serverVars, agentVars, chan, history, bounds>>

NotifyCreate ==
  /\ pc = "notifyCreate"
  /\ SendNotif(req, cr, "create", NoVal, Goto("statusCreated"), Goto("statusError"), Goto("hung"))
  /\ UNCHANGED <<kubeVars, ovnVars, serverVars, agentVars, history, bounds>>

UpdateStatus ==
  /\ pc \in {"statusCreated", "statusError"}
  /\ LET s == IF pc = "statusCreated" THEN "Created" ELSE "CreateInternalError"
     IN  ApiCall([cr EXCEPT !.state = s], Done, Retry)
  /\ UNCHANGED <<cache, ovnVars, serverVars, agentVars, chan, history, bounds>>

\* Faulty variant: only the switch is deleted.
NotifyDeleteSkipped ==
  /\ pc = "notifyDelete" /\ Goto("ovnDelete")
  /\ UNCHANGED <<kubeVars, ovnVars, serverVars, agentVars, chan, history, faults, bounds>>

\* deleteNetwork: what SendNotif returns is not looked at.
NotifyDelete ==
  /\ pc = "notifyDelete"
  /\ SendNotif(req, cr, "remove", NoVal, Goto("ovnDelete"), Goto("ovnDelete"), Goto("hung"))
  /\ leftover' = IF cr.spec.sel = "SPECIFIC" /\ Labelled \cap broken # {}
                   THEN leftover \cup Labelled ELSE leftover
  /\ UNCHANGED <<kubeVars, ovnVars, serverVars, agentVars, unlisted, displaced, bounds>>

OvnDelete ==
  /\ pc = "ovnDelete"
  /\ LET Del == ls' = ls \ {req} /\ localnet' = localnet \ {req}
     IN  \/ Del /\ NoFault /\ Goto("removeFinalizer")
         \/ (Del \/ UNCHANGED ovnVars) /\ Fault /\ Goto("statusDelete")
  /\ UNCHANGED <<kubeVars, serverVars, agentVars, chan, history, bounds>>

UpdateDeleteStatus ==
  /\ pc = "statusDelete"
  /\ LET o == [cr EXCEPT !.state = "DeleteInternalError"]
     IN  ApiCall(o, cr' = api'[req], cr' = o)
  /\ pc' = "removeFinalizer"
  /\ UNCHANGED <<cache, queue, req, ovnVars, serverVars, agentVars, chan, history, bounds>>

RemoveFinalizer ==
  /\ pc = "removeFinalizer"
  /\ ApiCall([cr EXCEPT !.fin = FALSE], Done, Retry)
  /\ UNCHANGED <<cache, ovnVars, serverVars, agentVars, chan, history, bounds>>
(***************************************************************************)
(* nfn-agent.                                                              *)
(***************************************************************************)
\* Set entry k of node n to x in one of the node's tables.
Put(f, n, k, x) == [f EXCEPT ![n][k] = x]

\* The node after ip and ovs-vsctl did what CreateVlan, DeleteVlan, CreatePnBridge,
\* DeletePnBridge and updateOvnBridgeMapping ask for.
CreateVlan(n, m)     == Put(vlans, n, m.pn, m.spec)
DeleteVlan(n, m)     == Put(vlans, n, m.pn, NoVal)
CreatePnBridge(n, m) == Put(bridges, n, m.pn, m.spec)
DeletePnBridge(n, m) == Put(bridges, n, m.pn, NoVal)
UpdateOvnBridgeMapping(n, m, x) == Put(maps, n, m.pn, x)
\* The networks whose bridge is found by its external_ids:nfn.
GetPnBridge(n) == {k \in Pns : bridges[n][k] # NoVal}
\* The networks of one kind in pnCreateStore, and table f without node n's entries
\* for other networks than those of S.
Stored(n, kind) == {m.pn : m \in {x \in store[n] : x.spec.kind = kind}}
Only(f, n, S) == [f EXCEPT ![n] = [k \in Pns |-> IF k \in S THEN f[n][k] ELSE NoVal]]

\* createVlanProvidernetwork, createDirectProvidernetwork: the VLAN link if there
\* is one, the bridge, the bridge mapping (whose error is ignored).
HandleCreate(n, m) ==
  LET vlan == m.spec.kind = "VLAN"
      v    == IF vlan THEN CreateVlan(n, m) ELSE vlans
      b    == CreatePnBridge(n, m)
  IN
  \/ NoFault /\ vlans' = v /\ bridges' = b /\ maps' = UpdateOvnBridgeMapping(n, m, m.spec)
  \/ Fault /\ vlans' = v /\ bridges' = b /\ UNCHANGED maps
  \/ Fault /\ vlans' = v /\ UNCHANGED <<bridges, maps>>
  \/ Fault /\ vlan /\ UNCHANGED nodeVars

\* handleNotif sorts removals by the interface name they carry: a VLAN whose
\* logicalInterfaceName was left out carries none and is not removed.
Removable(sp) == sp.kind = "DIRECT" \/ sp.ln

\* deleteVlanProvidernetwork, deleteDirectProvidernetwork (which names no link):
\* the link, the bridge, the bridge mapping; no error stops the next call but
\* that of del-br.
HandleRemove(n, m) ==
  LET vlan == m.spec.kind = "VLAN"
      v    == IF vlan THEN DeleteVlan(n, m) ELSE vlans
      b    == DeletePnBridge(n, m)
      mp   == UpdateOvnBridgeMapping(n, m, NoVal)
  IN
  \/ ~Removable(m.spec) /\ NoFault /\ UNCHANGED nodeVars
  \/ /\ Removable(m.spec)
     /\ \/ NoFault /\ vlans' = v /\ bridges' = b /\ maps' = mp
        \/ Fault /\ vlan /\ UNCHANGED vlans /\ bridges' = b /\ maps' = mp
        \/ Fault /\ vlans' = v /\ UNCHANGED <<bridges, maps>>
        \/ Fault /\ vlans' = v /\ bridges' = b /\ UNCHANGED maps

\* inSyncVlanProvidernetwork then inSyncDirectProvidernetwork, as coded: the first
\* skips the VLAN networks of the store and gives up at the first other one, for
\* which CreateVlan has no parameters; if there is none, it deletes every VLAN
\* link and bridge.  The second skips the DIRECT ones, cannot make a bridge for the
\* others, and deletes every bridge not named like one of those.
HandleInSync(n) ==
  LET wipe  == Stored(n, "DIRECT") = {}
      kept  == IF wipe THEN {} ELSE Stored(n, "VLAN")
      \* Entries that outlive a listing or a deletion that failed.
      Leave(V, B, M) ==
        /\ vlans' = IF wipe THEN Only(vlans, n, V) ELSE vlans
        /\ bridges' = Only(bridges, n, kept \cup B)
        /\ maps' = Only(maps, n, kept \cup M \cup (Pns \ GetPnBridge(n)))
  IN
  \/ NoFault /\ Leave({}, {}, {})
  \/ Fault /\ \E V, B, M \in SUBSET Pns : B \subseteq M /\ Leave(V, B, M)

\* handleNotif.
HandleNotif(n) ==
  LET m == Head(chan[n]) IN
  /\ up[n] /\ chan[n] # <<>>
  /\ chan' = [chan EXCEPT ![n] = Tail(@)]
  /\ \/ /\ m.type = "create" /\ ~inSync[n] /\ NoFault
        /\ store' = [store EXCEPT ![n] = @ \cup {m}]
        /\ UNCHANGED <<inSync, nodeVars>>
     \/ m.type = "create" /\ inSync[n] /\ HandleCreate(n, m) /\ UNCHANGED <<inSync, store>>
     \/ m.type = "remove" /\ ~inSync[n] /\ NoFault /\ UNCHANGED <<inSync, store, nodeVars>>
     \/ m.type = "remove" /\ inSync[n] /\ HandleRemove(n, m) /\ UNCHANGED <<inSync, store>>
     \/ /\ m.type = "inSync" /\ HandleInSync(n)
        /\ store' = [store EXCEPT ![n] = {}]
        /\ inSync' = [inSync EXCEPT ![n] = TRUE]
  /\ seen' = IF m.type = "create" THEN [seen EXCEPT ![n] = @ \cup {<<m.pn, m.inc>>}] ELSE seen
  /\ leftover' = IF \/ m.type = "remove" /\ faults' # faults
                    \/ m.type = "inSync" /\ GetPnBridge(n)' # {}
                   THEN leftover \cup {n} ELSE leftover
  /\ UNCHANGED <<kubeVars, queue, workerVars, ovnVars, serverVars, stream, up, unlisted,
                 displaced, bounds>>

\* The agent dies, and its stream with it; the server keeps the stream in
\* clientList.
AgentDie(n) ==
  /\ restarts < MaxRestarts /\ restarts' = restarts + 1
  /\ up[n] /\ Die({n})
  /\ UNCHANGED <<kubeVars, queue, workerVars, ovnVars, serverVars, stream, nodeVars, faults,
                 ops>>

\* nfn-operator dies and restarts: every agent sees its stream end and exits
\* (shutDownAgent).
Crash ==
  /\ restarts < MaxRestarts /\ restarts' = restarts + 1
  /\ Finish
  /\ cache' = api /\ pending' = [k \in Pns |-> {}]
  /\ queue' = {k \in Pns : api[k].live}
  /\ clients' = [n \in Nodes |-> NoVal] /\ broken' = {} /\ subs' = {}
  /\ Die(Nodes)
  /\ UNCHANGED <<api, ovnVars, stream, nodeVars, faults, ops>>

(***************************************************************************)
(* The specification.                                                      *)
(***************************************************************************)
Init ==
  /\ api = [k \in Pns |-> Tombstone(0, 0)] /\ cache = api
  /\ pending = [k \in Pns |-> {}] /\ queue = {}
  /\ pc = "idle" /\ req = NoVal /\ cr = Tombstone(0, 0)
  /\ ls = {} /\ localnet = {}
  /\ clients = [n \in Nodes |-> NoVal] /\ broken = {} /\ subs = {}
  /\ stream = [n \in Nodes |-> 0]
  /\ up = [n \in Nodes |-> FALSE] /\ inSync = [n \in Nodes |-> FALSE]
  /\ store = [n \in Nodes |-> {}] /\ chan = [n \in Nodes |-> <<>>]
  /\ vlans = [n \in Nodes |-> [k \in Pns |-> NoVal]]
  /\ bridges = vlans /\ maps = vlans
  /\ seen = [n \in Nodes |-> {}] /\ unlisted = {} /\ leftover = {} /\ displaced = {}
  /\ faults = 0 /\ restarts = 0 /\ ops = 0

WorkerStep ==
  \/ AddFinalizer \/ OvnCreate \/ NotifyCreate \/ UpdateStatus
  \/ NotifyDelete \/ OvnDelete \/ UpdateDeleteStatus \/ RemoveFinalizer

SubscribeStep(s) ==
  SubscribeRegister(s) \/ SubscribeList(s) \/ SubscribeSend(s) \/ SubscribeInSync(s)

Next ==
  \/ \E k \in Pns : UserCreate(k) \/ UserDelete(k) \/ Deliver(k) \/ Resync(k) \/ Reconcile(k)
  \/ WorkerStep
  \/ \E s \in subs : SubscribeStep(s)
  \/ \E n \in Nodes : AgentSubscribe(n) \/ HandleNotif(n) \/ AgentDie(n) \/ NoticeBroken(n)
  \/ Crash

Spec == Init /\ [][Next]_vars

\* The processes run and the watch delivers; agents are restarted by their
\* DaemonSet and read their streams.
Fairness ==
  /\ WF_vars(WorkerStep)
  /\ WF_vars(\E s \in subs : SubscribeStep(s))
  /\ \A n \in Nodes : WF_vars(HandleNotif(n)) /\ WF_vars(AgentSubscribe(n))
  /\ \A k \in Pns : WF_vars(Deliver(k)) /\ SF_vars(Reconcile(k))

FairSpec == Spec /\ Fairness

(***************************************************************************)
(* Properties.                                                             *)
(***************************************************************************)

\* Running Subscribe calls.
Calls == [node: Nodes, stream: Nat, step: {"register", "list", "send", "hung"},
          list: SUBSET (Pns \X Alive)]

\* Every variable keeps its type, the worker works on an object that existed when it
\* was read, and streams stay within their window.
TypeOK ==
  /\ api \in [Pns -> Objects] /\ cache \in [Pns -> Objects]
  /\ pending \in [Pns -> SUBSET Objects] /\ queue \subseteq Pns
  /\ pc \in Pcs /\ req \in Pns \cup {NoVal} /\ cr \in Objects
  /\ pc # "idle" => req \in Pns /\ cr \in Alive
  /\ ls \subseteq Pns /\ localnet \subseteq Pns
  /\ clients \in [Nodes -> Nat \cup {NoVal}] /\ stream \in [Nodes -> Nat]
  /\ broken \subseteq Nodes
  /\ subs \subseteq Calls
  /\ up \in [Nodes -> BOOLEAN] /\ inSync \in [Nodes -> BOOLEAN]
  /\ store \in [Nodes -> SUBSET Messages]
  /\ chan \in [Nodes -> Seq(Messages)] /\ \A n \in Nodes : Len(chan[n]) <= MaxChan
  /\ vlans \in [Nodes -> [Pns -> Specs \cup {NoVal}]]
  /\ bridges \in [Nodes -> [Pns -> Specs \cup {NoVal}]]
  /\ maps \in [Nodes -> [Pns -> Specs \cup {NoVal}]]
  /\ seen \in [Nodes -> SUBSET (Pns \X Nat)] /\ unlisted \subseteq Nodes
  /\ leftover \subseteq Nodes /\ displaced \subseteq Nodes
  /\ faults \in Nat /\ restarts \in Nat /\ ops \in Nat

\* The nodes a provider network is for, ANY apart.
Selected(sp) == IF sp.sel = "ALL" THEN Nodes ELSE IF sp.sel = "SPECIFIC" THEN Labelled ELSE {}

\* Subscribe puts the stream into clientList before it lists, so a provider network
\* reported Created is never lost between the two: every selected node whose agent
\* runs was told, or will be by its running Subscribe, or that could not list.
\* Excepted is an agent whose entry in clientList the Subscribe of its dead
\* predecessor has replaced: it is told of nothing any more.
NoLostCreate ==
  \A k \in Pns, n \in Nodes :
    LET o == api[k] IN
    (/\ o.live /\ ~o.del /\ o.state = "Created" /\ n \in Selected(o.spec)
     /\ up[n] /\ n \notin displaced)
    => \/ <<k, o.inc>> \in seen[n]
       \/ \E i \in 1..Len(chan[n]) :
            chan[n][i].type = "create" /\ chan[n][i].pn = k /\ chan[n][i].inc = o.inc
       \/ \E s \in subs : s.node = n /\ s.stream = stream[n] /\
            (s.step \in {"register", "list", "hung"} \/ \E x \in s.list : x[1] = k /\ x[2].inc = o.inc)
       \/ n \in unlisted

\* deleteNetwork sends the removal before the finalizer goes, behind every create
\* on the same stream, and nothing after InSync brings it back: once the object is
\* gone, an agent in sync that has read its stream keeps no bridge of it, however
\* often agents and operator restarted.  Excepted are removals that are not sent
\* (ANY), not understood (no logical interface name) or failed, creates that the
\* Subscribe of an earlier stream sends late, agents whose entry in clientList that
\* Subscribe has replaced, and nodes where InSync did not wipe the bridges: with
\* DIRECT networks in the store it keeps those of its VLAN ones, also of one whose
\* removal came before InSync.
RemovalReachesNode ==
  \A k \in Pns, n \in Nodes :
    LET sp == bridges[n][k] IN
    (/\ ~api[k].live /\ up[n] /\ inSync[n] /\ n \notin leftover \cup displaced
     /\ sp # NoVal /\ sp.sel # "ANY" /\ Removable(sp))
      => \E i \in 1..Len(chan[n]) : chan[n][i].type = "remove" /\ chan[n][i].pn = k

\* README.md: nfn-agent "Configures VLAN"; inSyncVlanProvidernetwork's comment:
\* "Provider Network not found" is to be created, those "not in the list" deleted.
\* An agent in sync that has read its stream has a bridge for every provider
\* network that is Created and selects its node.
InSyncConfigures ==
  \A k \in Pns, n \in Nodes :
    LET o == api[k] IN
    (/\ o.live /\ ~o.del /\ o.state = "Created" /\ n \in Selected(o.spec)
     /\ Current(n) /\ inSync[n] /\ chan[n] = <<>> /\ faults = 0)
      => bridges[n][k] # NoVal

\* nodeListIterator: with no nodes to tell, SendNotif returns, and so does Reconcile.
ReconcileReturns == (pc # "idle") ~> (pc = "idle")

\* What ProviderLifecycle sees of the state.  Orders on their way are the create
\* messages in streams and in pnCreateStore, and what Subscribe calls have listed and
\* not yet sent.
Declared  == [k \in Pns |-> api[k].spec]
Finalized == {k \in Pns : api[k].fin}
Deleting  == {k \in Pns : api[k].del}
Letters(n)  == {chan[n][i] : i \in 1..Len(chan[n])}
Creating(n) == {m \in store[n] \cup Letters(n) : m.type = "create"}
Removing(n) == {m \in Letters(n) : m.type = "remove"}
Listed   == UNION {s.list : s \in subs}
Orders   == {<<m.pn, m.spec>> : m \in UNION {Creating(n) : n \in Nodes}}
            \cup {<<x[1], x[2].spec>> : x \in Listed}
Removals == {m.pn : m \in UNION {Removing(n) : n \in Nodes}}
SyncedNodes == {n \in Nodes : inSync[n]}

\* Controller, notification server and agents keep the promise of ProviderLifecycle:
\* whatever is stale, late, lost or fails, each of their steps is a step of a provider
\* network's life or changes nothing of it.
Lifecycle ==
  INSTANCE ProviderLifecycle WITH None <- NoVal,
    declared <- Declared, owned <- Finalized, dying <- Deleting,
    switch <- ls, ports <- localnet, orders <- Orders, removals <- Removals,
    synced <- SyncedNodes, bridge <- bridges

ImplementsProviderLifecycle == Lifecycle!Spec
=============================================================================

-------------------------- MODULE NetworkController --------------------------
(***************************************************************************)
(* The Network controller of nfn-operator and the part of the OVN         *)
(* controller it drives: a Network custom resource is reconciled into a   *)
(* logical switch, a router port "rtos-<name>" and a switch port          *)
(* "stor-<name>" in the OVN northbound database.                          *)
(*                                                                         *)
(* One action is one call that leaves the process (the API server or      *)
(* ovn-nbctl) together with the code up to the next such call, because    *)
(* other actors run between two calls.  The controller has one worker     *)
(* (controller.Options leaves MaxConcurrentReconciles at its default, 1). *)
(*                                                                         *)
(* The API server, the informer cache and the work queue are external;    *)
(* they are modelled from how the controller uses them: an update is      *)
(* refused when the resource version it carries is not the stored one,    *)
(* the cache follows the store one version at a time, and every version   *)
(* that reaches the cache enqueues the object's key.                      *)
(***************************************************************************)
EXTENDS Naturals

CONSTANTS
  Keys,        \* namespaced names of Network objects, as in reconcile.Request
  Names,       \* logical switch names
  NameOf,      \* Keys -> Names: cr.Name, which drops the namespace
  Subnets,     \* values of spec.ipv4Subnets[0].subnet
  BadSubnets,  \* the ones net.ParseCIDR refuses
  CniTypes,    \* values of spec.cniType a user may write
  NoKey, NoSubnet,
  MaxFaults,   \* bound: failing API or ovn-nbctl calls
  MaxCrashes,  \* bound: restarts of nfn-operator
  MaxOps       \* bound: user operations on Network objects

ASSUME ConstantsAssumption ==
  /\ NameOf \in [Keys -> Names]
  /\ BadSubnets \subseteq Subnets
  /\ NoKey \notin Keys
  /\ NoSubnet \notin Subnets
  /\ MaxFaults \in Nat /\ MaxCrashes \in Nat /\ MaxOps \in Nat

Ovn4nfv == "ovn4nfv"
States  == {"", "Created", "CreateInternalError", "DeleteInternalError"}

\* A version of an object.  A tombstone has live = FALSE and the version at
\* which the object went away.
Objects ==
  [live: BOOLEAN, rv: Nat, del: BOOLEAN, fin: BOOLEAN,
   cni: CniTypes \cup {""}, subnet: Subnets \cup {NoSubnet}, state: States]

Tombstone(rv) ==
  [live |-> FALSE, rv |-> rv, del |-> FALSE, fin |-> FALSE,
   cni |-> "", subnet |-> NoSubnet, state |-> ""]

Pcs == {"idle", "addFinalizer", "find", "lsAdd", "lrpAdd", "lspAdd",
        "statusCreated", "statusError", "lrpDel", "lsDel", "statusDelete",
        "removeFinalizer", "removeFinalizerErr"}

VARIABLES
  api,          \* the stored version of every Network
  pending,      \* versions stored but not yet in the informer cache
  cache,        \* the informer cache r.client.Get reads from
  queue,        \* keys in the controller's work queue
  pc, req, cr,  \* the worker: next call, request, its copy of the object
  ls,           \* logical switch -> subnet configured on it
  rtos, stor,   \* names whose router port / switch-to-router port exists
  gatewayCache, \* Controller.gatewayCache, by switch
  leaked,       \* history: switches whose DeleteNetwork failed for good
  faults, crashes, ops

kubeVars   == <<api, pending, cache>>
workerVars == <<pc, req, cr>>
ovnVars    == <<ls, rtos, stor>>
bounds     == <<crashes, ops>>
vars == <<api, pending, cache, queue, pc, req, cr, ls, rtos, stor,
          gatewayCache, leaked, faults, crashes, ops>>

\* The switch the worker's request is about.
name == NameOf[req]

(***************************************************************************)
(* API server and informer (external).                                     *)
(***************************************************************************)
Store(k, o) ==
  /\ api' = [api EXCEPT ![k] = o]
  /\ pending' = [pending EXCEPT ![k] = @ \cup {o}]

\* Optimistic concurrency: the carried resource version must be the stored one.
Rejected(k, o) == ~api[k].live \/ api[k].rv # o.rv

\* What the server stores for an accepted update: removing the last finalizer
\* of an object that is being deleted deletes it.
Accepted(o) ==
  IF o.del /\ ~o.fin THEN Tombstone(o.rv + 1) ELSE [o EXCEPT !.rv = @ + 1]

\* An update that changes nothing makes no new version and no event.
Write(k, o) ==
  IF o = api[k] THEN UNCHANGED <<api, pending>> ELSE Store(k, Accepted(o))

\* The watch delivers versions in order; the event handler enqueues the key.
Deliver(k) ==
  /\ \E v \in pending[k] :
       /\ \A w \in pending[k] : v.rv <= w.rv
       /\ cache' = [cache EXCEPT ![k] = v]
       /\ pending' = [pending EXCEPT ![k] = @ \ {v}]
  /\ queue' = queue \cup {k}
  /\ UNCHANGED <<api, workerVars, ovnVars, gatewayCache, leaked, faults, bounds>>

\* The periodic resync of the informer replays what it holds.
Resync(k) ==
  /\ cache[k].live /\ k \notin queue
  /\ queue' = queue \cup {k}
  /\ UNCHANGED <<kubeVars, workerVars, ovnVars, gatewayCache, leaked, faults, bounds>>

(***************************************************************************)
(* The user.                                                               *)
(***************************************************************************)
UserStep(k, o) ==
  /\ ops < MaxOps
  /\ ops' = ops + 1
  /\ Store(k, o)
  /\ UNCHANGED <<cache, queue, workerVars, ovnVars, gatewayCache, leaked, faults, crashes>>

UserCreate(k) ==
  /\ ~api[k].live
  /\ \E t \in CniTypes, s \in Subnets :
       UserStep(k, [live |-> TRUE, rv |-> api[k].rv + 1, del |-> FALSE,
                    fin |-> FALSE, cni |-> t, subnet |-> s, state |-> ""])

UserEdit(k) ==
  /\ api[k].live
  /\ \E t \in CniTypes, s \in Subnets :
       /\ <<t, s>> # <<api[k].cni, api[k].subnet>>
       /\ UserStep(k, [api[k] EXCEPT !.rv = @ + 1, !.cni = t, !.subnet = s])

UserDelete(k) ==
  /\ api[k].live /\ ~api[k].del
  /\ UserStep(k, IF api[k].fin THEN [api[k] EXCEPT !.rv = @ + 1, !.del = TRUE]
                               ELSE Tombstone(api[k].rv + 1))

(***************************************************************************)
(* The worker.                                                             *)
(***************************************************************************)
Goto(l) == pc' = l /\ UNCHANGED req

\* Reconcile returns; with an error the request goes back to the queue.
Finish == pc' = "idle" /\ req' = NoKey /\ cr' = Tombstone(0)
Done  == Finish /\ UNCHANGED queue
Retry == Finish /\ queue' = queue \cup {req}

Fault == faults < MaxFaults /\ faults' = faults + 1
NoFault == UNCHANGED faults

\* reconcileFinalizers and createNetwork up to their first call, for copy o of k.
ReconcileFinalizers(k, o) ==
  LET supported == o.cni = Ovn4nfv
      Begin(l) == pc' = l /\ req' = k /\ cr' = o /\ queue' = queue \ {k}
  IN
  \/ o.del /\ ~o.fin /\ queue' = queue \ {k} /\ UNCHANGED workerVars
  \/ o.del /\ o.fin /\ supported  /\ Begin("lrpDel")
  \/ o.del /\ o.fin /\ ~supported /\ Begin("removeFinalizerErr")
  \/ ~o.del /\ ~o.fin             /\ Begin("addFinalizer")
  \/ ~o.del /\ o.fin /\ supported /\ Begin("find")
  \/ ~o.del /\ o.fin /\ ~supported /\ UNCHANGED <<queue, workerVars>>

\* Faulty variant: no return when the object is not found.
ReconcileNotFoundGoesOn(k) ==
  /\ pc = "idle" /\ k \in queue
  /\ ReconcileFinalizers(k, cache[k])
  /\ UNCHANGED <<kubeVars, ovnVars, gatewayCache, leaked, faults, bounds>>

\* Reconcile: Get from the cache.
Reconcile(k) ==
  /\ pc = "idle" /\ k \in queue
  /\ \/ ~cache[k].live /\ queue' = queue \ {k} /\ UNCHANGED workerVars  \* NotFound
     \/ cache[k].live /\ ReconcileFinalizers(k, cache[k])
  /\ UNCHANGED <<kubeVars, ovnVars, gatewayCache, leaked, faults, bounds>>

\* One write of object o to the API server by the worker.  On success Ok runs,
\* with the worker's copy replaced by the answer; Fail runs when the write is
\* refused, or is lost before or after the server performs it.
ApiCall(o, Ok, Fail) ==
  \/ /\ ~Rejected(req, o) /\ Write(req, o) /\ NoFault /\ Ok
  \/ /\ Rejected(req, o) /\ UNCHANGED <<api, pending>> /\ NoFault /\ Fail
  \/ /\ ~Rejected(req, o) /\ (Write(req, o) \/ UNCHANGED <<api, pending>>)
     /\ Fault /\ Fail

\* Faulty variant: a failed update of the finalizers is only logged.
AddFinalizerIgnoresError ==
  /\ pc = "addFinalizer"
  /\ ApiCall([cr EXCEPT !.fin = TRUE],
             Goto("find") /\ cr' = api'[req] /\ UNCHANGED queue,
             Goto("find") /\ UNCHANGED <<cr, queue>>)
  /\ UNCHANGED <<cache, ovnVars, gatewayCache, leaked, bounds>>

\* reconcileFinalizers, object not being deleted; createNetwork then refuses an
\* unsupported CNI type, which requeues the request.
AddFinalizer ==
  /\ pc = "addFinalizer"
  /\ ApiCall([cr EXCEPT !.fin = TRUE],
             IF cr.cni = Ovn4nfv
               THEN Goto("find") /\ cr' = api'[req] /\ UNCHANGED queue
               ELSE Retry,
             Retry)
  /\ UNCHANGED <<cache, ovnVars, gatewayCache, leaked, bounds>>

\* Faulty variants of the look-up: its error taken for "LS exists", and "LS exists"
\* reported like any other error.
FindLSIgnoresError ==
  /\ pc = "find"
  /\ \/ NoFault /\ Goto(IF ls[name] = NoSubnet THEN "lsAdd" ELSE "statusCreated")
     \/ Fault /\ Goto("statusCreated")
  /\ UNCHANGED <<kubeVars, queue, cr, ovnVars, gatewayCache, leaked, bounds>>
FindLSExistsIsError ==
  /\ pc = "find" /\ NoFault
  /\ Goto(IF ls[name] = NoSubnet THEN "lsAdd" ELSE "statusError")
  /\ UNCHANGED <<kubeVars, queue, cr, ovnVars, gatewayCache, leaked, bounds>>

\* createOvnLS: look the switch up; an existing one is reported as "LS exists",
\* which createNetwork counts as success.
FindLS ==
  /\ pc = "find"
  /\ \/ /\ NoFault /\ ls[name] # NoSubnet /\ Goto("statusCreated")
     \/ /\ NoFault /\ ls[name] = NoSubnet
        /\ Goto(IF cr.subnet \in BadSubnets THEN "statusError" ELSE "lsAdd")
     \/ Fault /\ Goto("statusError")
  /\ UNCHANGED <<kubeVars, queue, cr, ovnVars, gatewayCache, leaked, bounds>>

\* One ovn-nbctl command.  It may fail before it commits, or after (--wait=hv
\* runs into --timeout=15 while the transaction is already committed).
Nbctl(Effect, ok, fail) ==
  \/ Effect /\ NoFault /\ Goto(ok)
  \/ (Effect \/ UNCHANGED ovnVars) /\ Fault /\ Goto(fail)

\* createOvnLS: "ls-add -- set logical_switch" in one transaction.
LsAdd ==
  /\ pc = "lsAdd"
  /\ Nbctl(ls' = [ls EXCEPT ![name] = cr.subnet] /\ UNCHANGED <<rtos, stor>>,
           "lrpAdd", "statusError")
  /\ UNCHANGED <<kubeVars, queue, cr, gatewayCache, leaked, bounds>>

\* CreateNetwork: read the MAC of the router port, then lrp-add --may-exist.
LrpAdd ==
  /\ pc = "lrpAdd"
  /\ Nbctl(rtos' = rtos \cup {name} /\ UNCHANGED <<ls, stor>>,
           "lspAdd", "statusError")
  /\ UNCHANGED <<kubeVars, queue, cr, gatewayCache, leaked, bounds>>

\* CreateNetwork: connect the switch to the router.
LspAdd ==
  /\ pc = "lspAdd"
  /\ Nbctl(stor' = stor \cup {name} /\ UNCHANGED <<ls, rtos>>,
           "statusCreated", "statusError")
  /\ UNCHANGED <<kubeVars, queue, cr, gatewayCache, leaked, bounds>>

\* createNetwork: record the outcome in the status subresource.
UpdateStatus ==
  /\ pc \in {"statusCreated", "statusError"}
  /\ LET s == IF pc = "statusCreated" THEN "Created" ELSE "CreateInternalError"
     IN  ApiCall([cr EXCEPT !.state = s], Done, Retry)
  /\ UNCHANGED <<cache, ovnVars, gatewayCache, leaked, bounds>>

\* Faulty variant: a failed lrp-del is only logged.
LrpDelIgnoresError ==
  /\ pc = "lrpDel"
  /\ Nbctl(rtos' = rtos \ {name} /\ UNCHANGED <<ls, stor>>, "lsDel", "lsDel")
  /\ UNCHANGED <<kubeVars, queue, cr, gatewayCache, leaked, bounds>>

\* DeleteNetwork: the router port first.
LrpDel ==
  /\ pc = "lrpDel"
  /\ Nbctl(rtos' = rtos \ {name} /\ UNCHANGED <<ls, stor>>,
           "lsDel", "statusDelete")
  /\ UNCHANGED <<kubeVars, queue, cr, gatewayCache, leaked, bounds>>

\* DeleteNetwork: then the switch, which takes its ports with it.
LsDel ==
  /\ pc = "lsDel"
  /\ Nbctl(/\ ls' = [ls EXCEPT ![name] = NoSubnet]
           /\ stor' = stor \ {name}
           /\ UNCHANGED rtos,
           "removeFinalizer", "statusDelete")
  /\ leaked' = IF ls'[name] = NoSubnet THEN leaked \ {name} ELSE leaked
  /\ UNCHANGED <<kubeVars, queue, cr, gatewayCache, bounds>>

\* deleteNetwork failed: record it and go on, whether or not that worked.
UpdateDeleteStatus ==
  /\ pc = "statusDelete"
  /\ LET o == [cr EXCEPT !.state = "DeleteInternalError"]
     IN  ApiCall(o, cr' = api'[req], cr' = o)
  /\ Goto("removeFinalizerErr")
  /\ UNCHANGED <<cache, queue, ovnVars, gatewayCache, leaked, bounds>>

\* Faulty variant: the finalizer stays until deleteNetwork succeeds.
RemoveFinalizerOnSuccess ==
  /\ \/ pc = "removeFinalizer" /\ ApiCall([cr EXCEPT !.fin = FALSE], Done, Retry)
     \/ pc = "removeFinalizerErr" /\ Retry /\ NoFault /\ UNCHANGED <<api, pending>>
  /\ UNCHANGED <<cache, ovnVars, gatewayCache, leaked, bounds>>

\* reconcileFinalizers: the finalizer goes even if deleteNetwork failed.
RemoveFinalizer ==
  /\ pc \in {"removeFinalizer", "removeFinalizerErr"}
  /\ ApiCall([cr EXCEPT !.fin = FALSE], Done, Retry)
  /\ leaked' = IF pc = "removeFinalizerErr" /\ ~api'[req].live /\ ls[name] # NoSubnet
                 THEN leaked \cup {name} ELSE leaked
  /\ UNCHANGED <<cache, ovnVars, gatewayCache, bounds>>

(***************************************************************************)
(* The pod controller and Subscribe share the OVN controller:              *)
(* getGatewayFromSwitch fills gatewayCache on a miss, and a hit answers    *)
(* from it.  A missing switch is an error that caches nothing.             *)
(***************************************************************************)
GetGatewayFromSwitch(n) ==
  /\ gatewayCache[n] = NoSubnet /\ ls[n] # NoSubnet
  /\ gatewayCache' = [gatewayCache EXCEPT ![n] = ls[n]]
  /\ UNCHANGED <<kubeVars, queue, workerVars, ovnVars, leaked, faults, bounds>>

\* nfn-operator dies and restarts: memory is lost, the informer lists afresh.
Crash ==
  /\ crashes < MaxCrashes
  /\ crashes' = crashes + 1
  /\ Finish
  /\ cache' = api
  /\ pending' = [k \in Keys |-> {}]
  /\ queue' = {k \in Keys : api[k].live}
  /\ gatewayCache' = [n \in Names |-> NoSubnet]
  /\ UNCHANGED <<api, ovnVars, leaked, faults, ops>>

(***************************************************************************)
(* The specification.                                                      *)
(***************************************************************************)
Init ==
  /\ api = [k \in Keys |-> Tombstone(0)]
  /\ pending = [k \in Keys |-> {}]
  /\ cache = api
  /\ queue = {}
  /\ pc = "idle" /\ req = NoKey /\ cr = Tombstone(0)
  /\ ls = [n \in Names |-> NoSubnet]
  /\ rtos = {} /\ stor = {}
  /\ gatewayCache = [n \in Names |-> NoSubnet]
  /\ leaked = {}
  /\ faults = 0 /\ crashes = 0 /\ ops = 0

WorkerStep ==
  \/ AddFinalizer \/ FindLS \/ LsAdd \/ LrpAdd \/ LspAdd \/ UpdateStatus
  \/ LrpDel \/ LsDel \/ UpdateDeleteStatus \/ RemoveFinalizer

Next ==
  \/ \E k \in Keys : UserCreate(k) \/ UserEdit(k) \/ UserDelete(k)
  \/ \E k \in Keys : Deliver(k) \/ Resync(k) \/ Reconcile(k)
  \/ WorkerStep
  \/ \E n \in Names : GetGatewayFromSwitch(n)
  \/ Crash

Spec == Init /\ [][Next]_vars

\* The process is scheduled and the watch delivers; the work queue is a FIFO,
\* so a key that stays in it is not passed over for ever; the manager keeps the
\* default SyncPeriod, so every informer resyncs again and again.
Fairness ==
  /\ WF_vars(WorkerStep)
  /\ \A k \in Keys : WF_vars(Deliver(k)) /\ SF_vars(Reconcile(k)) /\ WF_vars(Resync(k))

FairSpec == Spec /\ Fairness

(***************************************************************************)
(* Properties.                                                             *)
(***************************************************************************)

\* Every variable keeps its type; while Reconcile runs, the worker has a request and
\* works on an object that existed when it was read, and that has the finalizer if
\* it is being deleted.
TypeOK ==
  /\ api \in [Keys -> Objects]
  /\ pending \in [Keys -> SUBSET Objects]
  /\ cache \in [Keys -> Objects]
  /\ queue \subseteq Keys
  /\ pc \in Pcs
  /\ req \in Keys \cup {NoKey} /\ cr \in Objects
  /\ pc # "idle" => req \in Keys /\ cr.live /\ (cr.del => cr.fin)
  /\ ls \in [Names -> Subnets \cup {NoSubnet}]
  /\ rtos \subseteq Names /\ stor \subseteq Names
  /\ gatewayCache \in [Names -> Subnets \cup {NoSubnet}]
  /\ leaked \subseteq Names
  /\ faults \in Nat /\ crashes \in Nat /\ ops \in Nat

\* reconcileFinalizers: the finalizer is on the stored object before the switch
\* exists and as long as it exists, so a user's delete never strands a switch.
\* The one way out is a DeleteNetwork that failed: the finalizer goes all the same.
NoOrphanSwitch ==
  \A n \in Names :
    ls[n] # NoSubnet /\ n \notin leaked =>
      \E k \in Keys : NameOf[k] = n /\ api[k].live /\ api[k].fin

\* createNetwork and deleteNetwork work on a cached copy.  A stale copy of a
\* deleted object, or the retry of a delete whose answer was lost, never takes
\* the switch from under an object that is reported Created: this holds when no
\* two Networks share a name.
CreatedHasSwitch ==
  \A k \in Keys :
    api[k].live /\ ~api[k].del /\ api[k].state = "Created" => ls[NameOf[k]] # NoSubnet

\* CreateNetwork adds the switch before its router port and DeleteNetwork deletes
\* the router port first, so no failure or crash in between leaves a router port
\* of a switch that is gone (lrp-add of a later network of that name, with another
\* MAC or gateway, would then fail).
RouterPortHasSwitch ==
  \A n \in rtos \cup stor : ls[n] # NoSubnet

\* reconcileFinalizers: a Network marked for deletion goes away in the end, whatever
\* calls failed, although each conflicting update throws the work done so far away.
DeletionCompletes ==
  \A k \in Keys : (api[k].live /\ api[k].del) ~> ~(api[k].live /\ api[k].del)

\* createNetwork: a Network with a supported type and a good subnet that nobody
\* touches any more ends up Created and stays so, although an OVN error is not
\* requeued and a repeated error status makes no event.
Wanted(k) ==
  api[k].live /\ ~api[k].del /\ api[k].cni = Ovn4nfv /\ api[k].subnet \notin BadSubnets
Converges ==
  \A k \in Keys : <>[]Wanted(k) => <>[](api[k].state = "Created")

\* network_types.go: "Created indicates the status of success", that is, the
\* network has its switch, its router port and the port that joins them.
CreatedMeansConnected ==
  \A k \in Keys :
    api[k].live /\ ~api[k].del /\ api[k].state = "Created" =>
      NameOf[k] \in rtos \cap stor

\* The controller keeps the promise of SwitchLifecycle: a Network's finalizer
\* claims its name, and every step of the controller, whatever is stale, fails or
\* is lost, is a step of the switch's life or changes nothing of it.
Owners == [n \in Names |-> {k \in Keys : NameOf[k] = n /\ api[k].live /\ api[k].fin}]

Lifecycle ==
  INSTANCE SwitchLifecycle WITH Configs <- Subnets, None <- NoSubnet,
    owners <- Owners, switch <- ls, links <- rtos, lost <- leaked

ImplementsLifecycle == Lifecycle!Spec
=============================================================================

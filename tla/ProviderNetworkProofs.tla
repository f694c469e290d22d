----------------------- MODULE ProviderNetworkProofs -----------------------
(***************************************************************************)
(* Safety of ProviderNetwork for every set of provider networks and nodes  *)
(* and every bound, by one inductive invariant.                            *)
(***************************************************************************)
EXTENDS ProviderNetwork, TLAPS

\* Versions of k that are stored, on their way to the cache, or in it.
Versions(k) == {cache[k], api[k]} \cup pending[k]

\* A version on which Reconcile goes on to create the network at once.
Holds(v) == v.live /\ v.fin /\ ~v.del

\* The cache follows the store, and resource versions tell versions apart.
VersionsOrdered(k) ==
  \A v \in Versions(k) :
    cache[k].rv <= v.rv /\ v.rv <= api[k].rv /\ (v.rv = api[k].rv => v = api[k])

\* While a version with the finalizer may still be read, the stored object has it.
FinalizerKept(k) == \A v \in Versions(k) : Holds(v) => api[k].fin

\* Behind a version marked for deletion, no later one carries the finalizer unmarked.
NoWayBack(k) ==
  \A v, w \in Versions(k) : v.live /\ v.del /\ v.rv <= w.rv => ~Holds(w)

\* An object has the finalizer only once the cache has seen it.
SameObject(k) ==
  api[k].fin => \A v \in Versions(k) : v.inc = api[k].inc /\ v.spec = api[k].spec

KubeInv ==
  \A k \in Pns : VersionsOrdered(k) /\ FinalizerKept(k) /\ NoWayBack(k) /\ SameObject(k)

CreatePcs == {"ovnCreate", "notifyCreate", "statusCreated", "statusError"}
DeletePcs == {"notifyDelete", "ovnDelete", "statusDelete", "removeFinalizer"}

\* The worker's copy of the object against the stored one.
CopyInv ==
  pc # "idle" =>
    /\ cr.rv <= api[req].rv
    /\ cr.rv = api[req].rv =>
         /\ cr.inc = api[req].inc /\ cr.spec = api[req].spec
         /\ cr.fin = api[req].fin /\ cr.del = api[req].del
    /\ cr.rv = api[req].rv /\ pc # "removeFinalizer" => cr = api[req]
    /\ api[req].fin => cr.inc = api[req].inc /\ cr.spec = api[req].spec
    /\ pc = "addFinalizer" => ~cr.del /\ ~cr.fin /\ cr.rv <= cache[req].rv
    /\ pc \in CreatePcs => ~cr.del /\ cr.fin /\ api[req].fin
    /\ pc \in DeletePcs => cr.del /\ cr.fin /\ \A v \in Versions(req) : ~Holds(v)

\* The Subscribe call of the agent's stream is running.
Running(n) == \E s \in subs : s.node = n /\ s.stream = stream[n]

\* A sequence holds an InSync message; it holds no two.
Synced(c) == \E i \in 1..Len(c) : c[i].type = "inSync"
OneSync(c) ==
  \A i, j \in 1..Len(c) : c[i].type = "inSync" /\ c[j].type = "inSync" => i = j

\* Streams are numbered in their order, each has one Subscribe call, and that one's
\* last message is InSync.
StreamInv(n) ==
  /\ clients[n] # NoVal => clients[n] <= stream[n]
  /\ n \in broken => ~Current(n)
  /\ ~up[n] => chan[n] = <<>> /\ ~inSync[n]
  /\ Running(n) => ~inSync[n] /\ ~Synced(chan[n])
  /\ inSync[n] => ~Synced(chan[n])
  /\ OneSync(chan[n])

SubsInv ==
  /\ \A s \in subs : s.stream <= stream[s.node]
  /\ \A s, t \in subs : s.node = t.node /\ s.stream = t.stream => s = t

\* The messages of c include the creation of object i of k.
Creates(c, k, i) ==
  \E x \in 1..Len(c) : c[x].type = "create" /\ c[x].pn = k /\ c[x].inc = i

\* Subscribe call s has yet to tell of object i of k.
WillTell(s, k, i) ==
  s.step \in {"list", "hung"} \/ \E x \in s.list : x[1] = k /\ x[2].inc = i

\* The agent of n was told of object i of k, or will be, or could not be.
Told(k, i, n) ==
  \/ <<k, i>> \in seen[n]
  \/ Creates(chan[n], k, i)
  \/ \E s \in subs : s.node = n /\ s.stream = stream[n] /\ WillTell(s, k, i)
  \/ n \in unlisted

\* Reported Created, or about to be.
Announced(k) ==
  /\ api[k].live
  /\ api[k].state = "Created" \/ (pc = "statusCreated" /\ req = k /\ cr.rv = api[k].rv)

\* SendNotif sends messages about such a network.
Known(sp) == sp.cni /\ sp.kind # "OTHER"

\* What Subscribe has listed is what was stored then.
ListInv ==
  \A s \in subs : \A x \in s.list :
    /\ x[2].inc <= api[x[1]].inc
    /\ x[2].inc = api[x[1]].inc /\ api[x[1]].live => x[2].spec = api[x[1]].spec

ToldInv ==
  \A k \in Pns : Announced(k) =>
    /\ Known(api[k].spec)
    /\ \A n \in Selected(api[k].spec) : Current(n) => Told(k, api[k].inc, n)

\* Networks whose removal is sent and understood.
Removed(sp) == sp # NoVal /\ sp.sel # "ANY" /\ Removable(sp)
Removes(m, k) == m.type = "remove" /\ m.pn = k /\ Removable(m.spec)

\* The removal of k was sent in this request.
Past(k) == pc \in {"ovnDelete", "statusDelete", "removeFinalizer"} /\ req = k

\* The object of spec sp is there, and its removal, which has not been sent, will be
\* sent to n.
Owned(k, sp, n) ==
  api[k].fin /\ api[k].spec = sp /\ Known(sp) /\ n \in Selected(sp) /\ ~Past(k)

\* The agent reads the stream in clientList, whose Subscribe call has ended.
Settled(n) == Current(n) /\ ~Running(n) /\ n \notin leftover

\* No removal of k is in c; a creation of k with spec sp is, and behind it there is
\* neither the removal nor InSync.
Stays(c, k) == \A i \in 1..Len(c) : ~Removes(c[i], k)
Comes(c, k, sp) ==
  \E i \in 1..Len(c) :
    /\ c[i].type = "create" /\ c[i].pn = k /\ c[i].spec = sp
    /\ \A j \in (i + 1)..Len(c) : c[j].type # "inSync" /\ ~Removes(c[j], k)

\* A bridge that stays or will come belongs to an object.
BridgeInv(n) ==
  Settled(n) /\ inSync[n] =>
    \A k \in Pns :
      Removed(bridges[n][k]) /\ Stays(chan[n], k) => Owned(k, bridges[n][k], n)
QueueInv(n) ==
  Settled(n) =>
    \A k \in Pns, sp \in Specs : Removed(sp) /\ Comes(chan[n], k, sp) => Owned(k, sp, n)

NodeInv == \A n \in Nodes : StreamInv(n) /\ BridgeInv(n) /\ QueueInv(n)

IInv == TypeOK /\ KubeInv /\ CopyInv /\ SubsInv /\ ListInv /\ ToldInv /\ NodeInv

(***************************************************************************)
(* Facts about the constants and the operators of the model.               *)
(***************************************************************************)
\* The assumptions on the constants that the proofs use.
LEMMA Constants ==
  /\ Labelled \subseteq Nodes /\ PnSpecs \subseteq Specs
  /\ NoVal \notin Pns /\ NoVal \notin Nodes /\ NoVal \notin Nat /\ NoVal \notin Specs
  /\ MaxChan \in Nat /\ MaxChan # 0
BY ConstantsAssumption

\* The fields of a version.
LEMMA ObjectFields ==
  ASSUME NEW o \in Objects
  PROVE  /\ o.rv \in Nat /\ o.inc \in Nat /\ o.live \in BOOLEAN /\ o.del \in BOOLEAN
         /\ o.fin \in BOOLEAN /\ o.state \in States
         /\ o.live => o \in Alive
         /\ o.fin => o \in Alive
         /\ o \in Alive => o.live /\ o.spec \in PnSpecs
BY DEF Objects, Alive, Gone, States

\* A deleted object's last version is a version.
LEMMA TombstoneType ==
  ASSUME NEW rv \in Nat, NEW inc \in Nat
  PROVE  /\ Tombstone(rv, inc) \in Objects
         /\ Tombstone(rv, inc).rv = rv /\ Tombstone(rv, inc).inc = inc
         /\ ~Tombstone(rv, inc).live /\ ~Tombstone(rv, inc).fin
BY DEF Tombstone, Objects, Gone

\* What the API server stores for an accepted update.
LEMMA AcceptedType ==
  ASSUME NEW o \in Alive
  PROVE  /\ Accepted(o) \in Objects
         /\ Accepted(o).rv = o.rv + 1 /\ Accepted(o).inc = o.inc
         /\ o.del /\ ~o.fin => ~Accepted(o).live /\ ~Accepted(o).fin
         /\ ~(o.del /\ ~o.fin) =>
              /\ Accepted(o) \in Alive /\ Accepted(o).live
              /\ Accepted(o).del = o.del /\ Accepted(o).fin = o.fin
              /\ Accepted(o).spec = o.spec /\ Accepted(o).state = o.state
<1>1. o.rv + 1 \in Nat /\ o.inc \in Nat
  BY DEF Alive
<1>2. ASSUME NEW r \in Nat
      PROVE  /\ [o EXCEPT !.rv = r] \in Alive /\ [o EXCEPT !.rv = r].rv = r
             /\ [o EXCEPT !.rv = r].inc = o.inc /\ [o EXCEPT !.rv = r].live
             /\ [o EXCEPT !.rv = r].del = o.del /\ [o EXCEPT !.rv = r].fin = o.fin
             /\ [o EXCEPT !.rv = r].spec = o.spec /\ [o EXCEPT !.rv = r].state = o.state
  BY DEF Alive
<1>. DEFINE u == [o EXCEPT !.rv = o.rv + 1]
            t == Tombstone(o.rv + 1, o.inc)
<1>3. Accepted(o) = IF o.del /\ ~o.fin THEN t ELSE u
  BY DEF Accepted
<1>4. /\ u \in Alive /\ u.rv = o.rv + 1 /\ u.inc = o.inc /\ u.live
      /\ u.del = o.del /\ u.fin = o.fin /\ u.spec = o.spec /\ u.state = o.state
  BY <1>1, <1>2
<1>5. t \in Objects /\ t.rv = o.rv + 1 /\ t.inc = o.inc /\ ~t.live /\ ~t.fin
  BY <1>1, TombstoneType
<1>. HIDE DEF u, t
<1>. QED
  BY <1>3, <1>4, <1>5 DEF Objects

(***************************************************************************)
(* Type correctness, by parts of the state.                                *)
(***************************************************************************)
KubeType ==
  api \in [Pns -> Objects] /\ cache \in [Pns -> Objects] /\ pending \in [Pns -> SUBSET Objects]
WorkerType ==
  /\ queue \subseteq Pns
  /\ pc \in Pcs /\ req \in Pns \cup {NoVal} /\ cr \in Objects
  /\ pc # "idle" => req \in Pns /\ cr \in Alive
OvnType == ls \subseteq Pns /\ localnet \subseteq Pns
ServerType ==
  /\ clients \in [Nodes -> Nat \cup {NoVal}] /\ stream \in [Nodes -> Nat]
  /\ broken \subseteq Nodes /\ subs \subseteq Calls
AgentType ==
  /\ up \in [Nodes -> BOOLEAN] /\ inSync \in [Nodes -> BOOLEAN]
  /\ store \in [Nodes -> SUBSET Messages] /\ seen \in [Nodes -> SUBSET (Pns \X Nat)]
  /\ unlisted \subseteq Nodes /\ leftover \subseteq Nodes /\ displaced \subseteq Nodes
ChanType == chan \in [Nodes -> Seq(Messages)] /\ \A n \in Nodes : Len(chan[n]) <= MaxChan
Tables == [Nodes -> [Pns -> Specs \cup {NoVal}]]
TablesType == vlans \in Tables /\ bridges \in Tables /\ maps \in Tables
CountType == faults \in Nat /\ restarts \in Nat /\ ops \in Nat

\* The parts together are TypeOK.
LEMMA TypeParts ==
  TypeOK <=> /\ KubeType /\ WorkerType /\ OvnType /\ ServerType /\ AgentType /\ ChanType
             /\ TablesType /\ CountType
BY DEF TypeOK, KubeType, WorkerType, OvnType, ServerType, AgentType, ChanType, TablesType,
       Tables, CountType

\* Also in the next state.
LEMMA TypePartsNext ==
  ASSUME KubeType', WorkerType', OvnType', ServerType', AgentType', ChanType', TablesType',
         CountType'
  PROVE  TypeOK'
BY DEF TypeOK, KubeType, WorkerType, OvnType, ServerType, AgentType, ChanType, TablesType,
       Tables, CountType

\* Parts that a step leaves alone keep their types.
LEMMA TypeKept ==
  /\ KubeType /\ UNCHANGED kubeVars => KubeType'
  /\ WorkerType /\ UNCHANGED <<queue, workerVars>> => WorkerType'
  /\ OvnType /\ UNCHANGED ovnVars => OvnType'
  /\ ServerType /\ UNCHANGED <<serverVars, stream>> => ServerType'
  /\ AgentType /\ UNCHANGED <<up, inSync, store, seen, history>> => AgentType'
  /\ ChanType /\ UNCHANGED chan => ChanType'
  /\ TablesType /\ UNCHANGED nodeVars => TablesType'
  /\ CountType /\ UNCHANGED <<faults, bounds>> => CountType'
BY DEF KubeType, WorkerType, OvnType, ServerType, AgentType, ChanType, TablesType, CountType,
       kubeVars, workerVars, ovnVars, serverVars, history, nodeVars, bounds

\* A failure is counted.
LEMMA FaultCounted ==
  ASSUME CountType, UNCHANGED bounds, Fault \/ NoFault PROVE CountType'
BY DEF CountType, bounds, Fault, NoFault

(***************************************************************************)
(* The store and the watch.                                                *)
(***************************************************************************)

\* Storing a version keeps the store and the watch well typed.
LEMMA StoreType ==
  ASSUME KubeType, NEW k \in Pns, NEW o \in Objects, Store(k, o), cache' = cache
  PROVE  /\ KubeType' /\ api'[k] = o /\ Versions(k)' \subseteq Versions(k) \cup {o}
         /\ \A j \in Pns : j # k => /\ api'[j] = api[j] /\ cache'[j] = cache[j]
                                    /\ pending'[j] = pending[j]
BY DEF KubeType, Store, Versions

\* Every version in sight is a version.
LEMMA VersionType ==
  ASSUME KubeType, NEW k \in Pns
  PROVE  /\ api[k] \in Objects /\ cache[k] \in Objects
         /\ cache[k] \in Versions(k) /\ api[k] \in Versions(k)
         /\ \A v \in Versions(k) : v \in Objects /\ v.rv \in Nat
<1>1. \A v \in Versions(k) : v \in Objects
  BY DEF KubeType, Versions
<1>. QED
  BY <1>1, ObjectFields DEF KubeType, Versions

VersionsInv(k) == VersionsOrdered(k) /\ FinalizerKept(k) /\ NoWayBack(k) /\ SameObject(k)

\* A name whose versions are left alone.
LEMMA KubeSame ==
  ASSUME NEW k \in Pns, VersionsInv(k),
         api'[k] = api[k], cache'[k] = cache[k], pending'[k] = pending[k]
  PROVE  VersionsInv(k)'
BY DEF VersionsInv, VersionsOrdered, FinalizerKept, NoWayBack, SameObject, Versions, Holds

\* A step that leaves store, watch and cache alone keeps KubeInv.
LEMMA KubeStutter == ASSUME KubeInv, UNCHANGED kubeVars PROVE KubeInv'
BY KubeSame DEF KubeInv, VersionsInv, kubeVars

\* A new stored version o of k keeps KubeInv, if o carries the finalizer unmarked
\* only when the one before did or when no version in sight is marked, gives the
\* finalizer up only when no version in sight carries it unmarked, and has it only
\* when all of them are of the same object.
LEMMA StoreKube ==
  ASSUME KubeType, KubeInv, NEW k \in Pns, NEW o \in Objects, Store(k, o), cache' = cache,
         o.rv = api[k].rv + 1,
         Holds(o) => Holds(api[k]) \/ \A v \in Versions(k) : ~(v.live /\ v.del),
         (\E v \in Versions(k) : Holds(v)) => o.fin,
         o.fin => \A v \in Versions(k) : v.inc = o.inc /\ v.spec = o.spec
  PROVE  KubeInv'
<1>1. api'[k] = o /\ cache'[k] = cache[k]
  BY StoreType
<1>2. Versions(k)' \subseteq Versions(k) \cup {o}
  BY StoreType
<1>3. cache[k] \in Versions(k) /\ api[k] \in Versions(k)
  BY DEF Versions
<1>4. \A v \in Versions(k) : v.rv \in Nat
  BY VersionType
<1>5. \A v \in Versions(k) : cache[k].rv <= v.rv /\ v.rv <= api[k].rv
  BY DEF KubeInv, VersionsOrdered
<1>6. o.rv \in Nat /\ \A v \in Versions(k) : v.rv < o.rv
  BY <1>3, <1>4, <1>5
<1>7. VersionsOrdered(k)'
  BY <1>1, <1>2, <1>3, <1>4, <1>5, <1>6 DEF VersionsOrdered
<1>8. FinalizerKept(k)'
  BY <1>1, <1>2 DEF FinalizerKept, Holds
<1>9. NoWayBack(k)'
  <2>. SUFFICES ASSUME NEW v \in Versions(k)', NEW w \in Versions(k)',
                       v.live, v.del, v.rv <= w.rv, Holds(w)
                PROVE  FALSE
    BY DEF NoWayBack, Holds
  <2>1. CASE v = o
    <3>1. w = o
      BY <1>2, <1>4, <1>6, <2>1
    <3>. QED
      BY <2>1, <3>1 DEF Holds
  <2>2. CASE v \in Versions(k) /\ w \in Versions(k)
    BY <2>2 DEF KubeInv, NoWayBack
  <2>3. CASE v \in Versions(k) /\ w = o
    BY <1>3, <1>5, <2>3 DEF KubeInv, NoWayBack
  <2>. QED
    BY <1>2, <2>1, <2>2, <2>3
<1>10. SameObject(k)'
  BY <1>1, <1>2 DEF SameObject
<1>11. ASSUME NEW j \in Pns, j # k PROVE VersionsInv(j)'
  <2>1. api'[j] = api[j] /\ cache'[j] = cache[j] /\ pending'[j] = pending[j]
    BY <1>11, StoreType
  <2>2. VersionsInv(j)
    BY DEF KubeInv, VersionsInv
  <2>. QED
    BY <2>1, <2>2, KubeSame
<1>. QED
  BY <1>7, <1>8, <1>9, <1>10, <1>11 DEF KubeInv, VersionsInv

\* The watch hands the oldest pending version to the cache.
LEMMA DeliverKube ==
  ASSUME KubeType, KubeInv, NEW k \in Pns, Deliver(k) PROVE KubeType' /\ KubeInv'
<1>1. PICK v \in pending[k] :
        /\ \A w \in pending[k] : v.rv <= w.rv
        /\ cache' = [cache EXCEPT ![k] = v]
        /\ pending' = [pending EXCEPT ![k] = @ \ {v}]
  BY DEF Deliver
<1>2. api' = api
  BY DEF Deliver
<1>3. ASSUME NEW j \in Pns, j # k PROVE VersionsInv(j)'
  <2>1. api'[j] = api[j] /\ cache'[j] = cache[j] /\ pending'[j] = pending[j]
    BY <1>1, <1>2, <1>3 DEF KubeType
  <2>2. VersionsInv(j)
    BY DEF KubeInv, VersionsInv
  <2>. QED
    BY <2>1, <2>2, KubeSame
<1>4. Versions(k)' \subseteq Versions(k) /\ api'[k] = api[k] /\ cache'[k] = v
  BY <1>1, <1>2 DEF Versions, KubeType
<1>5. \A w \in Versions(k)' : v.rv <= w.rv
  <2>1. Versions(k)' = {v, api[k]} \cup (pending[k] \ {v})
    BY <1>1, <1>2 DEF Versions, KubeType
  <2>2. v.rv <= api[k].rv
    BY DEF KubeInv, VersionsOrdered, Versions
  <2>3. v \in Objects
    BY DEF KubeType
  <2>4. v.rv <= v.rv
    BY <2>3, ObjectFields
  <2>. QED
    BY <1>1, <2>1, <2>2, <2>4
<1>6. VersionsOrdered(k)'
  BY <1>4, <1>5 DEF KubeInv, VersionsOrdered
<1>7. FinalizerKept(k)' /\ NoWayBack(k)' /\ SameObject(k)'
  BY <1>4 DEF KubeInv, FinalizerKept, NoWayBack, SameObject, Holds
<1>8. KubeType'
  BY <1>1, <1>2 DEF KubeType
<1>. QED
  BY <1>3, <1>6, <1>7, <1>8 DEF KubeInv, VersionsInv

(***************************************************************************)
(* Steps of users, watch and worker that send nothing.                     *)
(***************************************************************************)

\* The object is there, and its removal is still to be sent.
Kept(k) == api[k].fin /\ Known(api[k].spec) /\ ~Past(k)

\* What a step may do to the stored object k and the worker's place, if it tells no node.
QuietOn(k) ==
  /\ api[k].inc <= api'[k].inc
  /\ api'[k].live /\ api'[k].inc = api[k].inc => api[k].live /\ api'[k].spec = api[k].spec
  /\ Announced(k)' => Announced(k) /\ api'[k].inc = api[k].inc
  /\ Kept(k) => Kept(k)' /\ api'[k].spec = api[k].spec

serverState == <<serverVars, agentVars, chan, history>>

\* Such a step keeps what is said of the server and the agents.
LEMMA Quiet ==
  ASSUME IInv, KubeType', UNCHANGED serverState, \A k \in Pns : QuietOn(k)
  PROVE  SubsInv' /\ ListInv' /\ ToldInv' /\ NodeInv'
<1>1. UNCHANGED <<clients, broken, subs, stream, up, inSync, bridges, seen, chan, unlisted, leftover>>
  BY DEF serverState, serverVars, agentVars, nodeVars, history
<1>2. SubsInv'
  BY <1>1 DEF IInv, SubsInv
<1>3. KubeType /\ ServerType
  BY TypeParts DEF IInv
<1>4. ListInv'
  <2>. SUFFICES ASSUME NEW s \in subs, NEW x \in s.list
                PROVE  /\ x[2].inc <= api'[x[1]].inc
                       /\ x[2].inc = api'[x[1]].inc /\ api'[x[1]].live
                            => x[2].spec = api'[x[1]].spec
    BY <1>1 DEF ListInv
  <2>1. s \in Calls /\ x \in Pns \X Alive
    BY <1>3 DEF ServerType, Calls
  <2>2. x[1] \in Pns /\ x[2] \in Objects
    BY <2>1 DEF Objects
  <2>3. x[2].inc \in Nat /\ api[x[1]].inc \in Nat /\ api'[x[1]].inc \in Nat
    BY <1>3, <2>2, ObjectFields DEF KubeType
  <2>4. /\ x[2].inc <= api[x[1]].inc
        /\ x[2].inc = api[x[1]].inc /\ api[x[1]].live => x[2].spec = api[x[1]].spec
    BY DEF IInv, ListInv
  <2>5. QuietOn(x[1])
    BY <2>2
  <2>. QED
    BY <2>3, <2>4, <2>5 DEF QuietOn
<1>5. ToldInv'
  <2>. SUFFICES ASSUME NEW k \in Pns, Announced(k)'
                PROVE  (/\ Known(api[k].spec)
                        /\ \A n \in Selected(api[k].spec) :
                             Current(n) => Told(k, api[k].inc, n))'
    BY DEF ToldInv
  <2>1. Announced(k) /\ api'[k].inc = api[k].inc /\ api'[k].spec = api[k].spec
    BY DEF QuietOn, Announced
  <2>. QED
    BY <1>1, <2>1 DEF IInv, ToldInv, Current, Told
<1>6. ASSUME NEW k \in Pns, NEW sp, NEW n, Owned(k, sp, n) PROVE Owned(k, sp, n)'
  BY <1>6 DEF QuietOn, Kept, Owned
<1>7. ASSUME NEW n \in Nodes PROVE StreamInv(n)'
  BY <1>1 DEF IInv, NodeInv, StreamInv, Running, Current
<1>8. ASSUME NEW n \in Nodes PROVE BridgeInv(n)'
  BY <1>1, <1>6 DEF IInv, NodeInv, BridgeInv, Settled, Running, Current
<1>9. ASSUME NEW n \in Nodes PROVE QueueInv(n)'
  BY <1>1, <1>6 DEF IInv, NodeInv, QueueInv, Settled, Running, Current
<1>. QED
  BY <1>2, <1>4, <1>5, <1>7, <1>8, <1>9 DEF NodeInv

\* The stored versions are left alone, and the worker goes to no place that counts.
LEMMA QuietWorker ==
  ASSUME KubeType, api' = api, pc' # "statusCreated" \/ UNCHANGED <<pc, req, cr>>,
         NEW k \in Pns, Kept(k) => ~Past(k)'
  PROVE  QuietOn(k)
<1>1. api[k].inc \in Nat
  BY ObjectFields DEF KubeType
<1>. QED
  BY <1>1 DEF QuietOn, Announced, Kept

\* A user's write.
LEMMA UserStepInv ==
  ASSUME IInv, NEW k \in Pns, NEW o \in Objects, UserStep(k, o),
         o.rv = api[k].rv + 1, api[k].inc <= o.inc,
         o.live /\ o.inc = api[k].inc =>
           /\ api[k].live /\ o.spec = api[k].spec /\ o.fin = api[k].fin
           /\ o.state = api[k].state /\ (api[k].del => o.del),
         o.live \/ ~o.fin,
         o.live /\ o.inc # api[k].inc => ~o.fin /\ o.state # "Created",
         api[k].fin => o.fin /\ o.inc = api[k].inc
  PROVE  IInv'
<1>1. KubeType /\ WorkerType /\ OvnType /\ ServerType /\ AgentType /\ ChanType /\ TablesType
      /\ CountType
  BY TypeParts DEF IInv
<1>2. Store(k, o) /\ cache' = cache
      /\ UNCHANGED <<queue, workerVars, ovnVars, serverVars, agentVars, chan, history, faults, restarts>>
  BY DEF UserStep
<1>3. KubeType' /\ api'[k] = o /\ Versions(k)' \subseteq Versions(k) \cup {o}
      /\ \A j \in Pns : j # k => /\ api'[j] = api[j] /\ cache'[j] = cache[j]
                                 /\ pending'[j] = pending[j]
  BY <1>1, <1>2, StoreType
<1>4. CountType'
  BY <1>1, <1>2 DEF CountType, UserStep
<1>5. TypeOK'
  BY <1>1, <1>2, <1>3, <1>4, TypeKept, TypePartsNext DEF agentVars
<1>6. o.fin => o.live /\ api[k].fin /\ o.inc = api[k].inc /\ o.spec = api[k].spec
  OBVIOUS
<1>7. KubeInv'
  <2>1. api[k] \in Objects /\ (api[k].fin => api[k].live)
    BY <1>1, VersionType, ObjectFields
  <2>2. Holds(o) => Holds(api[k])
    BY <1>6, <2>1 DEF Holds
  <2>3. (\E v \in Versions(k) : Holds(v)) => o.fin
    BY DEF IInv, KubeInv, FinalizerKept
  <2>4. o.fin => \A v \in Versions(k) : v.inc = o.inc /\ v.spec = o.spec
    BY <1>6 DEF IInv, KubeInv, SameObject
  <2>. QED
    BY <1>1, <1>2, <2>2, <2>3, <2>4, StoreKube DEF IInv
<1>8. CopyInv'
  <2>. SUFFICES ASSUME pc # "idle" PROVE CopyInv'
    BY <1>2 DEF CopyInv, workerVars
  <2>0. UNCHANGED <<pc, req, cr>> /\ req \in Pns /\ CopyInv /\ cr \in Objects
    BY <1>1, <1>2 DEF workerVars, WorkerType, IInv
  <2>1. CASE req # k
    <3>1. api'[req] = api[req] /\ cache'[req] = cache[req] /\ Versions(req)' = Versions(req)
      BY <1>3, <2>0, <2>1 DEF Versions
    <3>. QED
      BY <2>0, <3>1 DEF CopyInv
  <2>2. CASE req = k
    <3>1. cr.rv \in Nat /\ cr.rv <= api[k].rv /\ api[k].rv \in Nat
      BY <1>1, <2>0, <2>2, ObjectFields DEF CopyInv, KubeType
    <3>2. cr.rv <= o.rv /\ cr.rv # o.rv
      BY <3>1
    <3>3. api[k].fin => o.fin
      OBVIOUS
    <3>4. o.fin => cr.inc = o.inc /\ cr.spec = o.spec
      BY <1>6, <2>0, <2>2 DEF CopyInv
    <3>5. (\A v \in Versions(k) : ~Holds(v)) => \A v \in Versions(k)' : ~Holds(v)
      <4>1. api[k] \in Versions(k) /\ (Holds(o) => Holds(api[k]))
        BY <1>6 DEF Versions, Holds
      <4>. QED
        BY <1>3, <4>1 
    <3>6. cache'[k] = cache[k]
      BY <1>2
    <3>. QED
      BY <1>3, <2>0, <2>2, <3>2, <3>3, <3>4, <3>5, <3>6 DEF CopyInv
  <2>. QED
    BY <2>1, <2>2
<1>9. ASSUME NEW j \in Pns PROVE QuietOn(j)
  <2>0. UNCHANGED <<pc, req, cr>>
    BY <1>2 DEF workerVars
  <2>1. CASE j # k
    <3>1. api'[j] = api[j] /\ api[j].inc \in Nat
      BY <1>1, <1>3, <2>1, ObjectFields DEF KubeType
    <3>. QED
      BY <2>0, <3>1 DEF QuietOn, Announced, Kept, Past
  <2>2. CASE j = k
    <3>1. cr \in Objects /\ cr.rv \in Nat /\ (pc # "idle" /\ req = k => cr.rv <= api[k].rv)
          /\ api[k].rv \in Nat
      BY <1>1, ObjectFields DEF WorkerType, KubeType, IInv, CopyInv
    <3>2. pc # "idle" /\ req = k => cr.rv # o.rv
      BY <3>1
    <3>3. Announced(k)' => Announced(k) /\ o.inc = api[k].inc
      BY <1>3, <2>0, <3>2 DEF Announced
    <3>4. Kept(k) => Kept(k)' /\ o.spec = api[k].spec
      BY <1>3, <1>6, <2>0 DEF Kept, Past
    <3>. QED
      BY <1>3, <2>2, <3>3, <3>4 DEF QuietOn
  <2>. QED
    BY <2>1, <2>2
<1>10. UNCHANGED serverState
  BY <1>2 DEF serverState
<1>. QED
  BY <1>3, <1>5, <1>7, <1>8, <1>9, <1>10, Quiet DEF IInv

\* Users create and delete.
LEMMA UserInv ==
  ASSUME IInv, NEW k \in Pns, UserCreate(k) \/ UserDelete(k) PROVE IInv'
<1>1. api[k] \in Objects /\ api[k].rv \in Nat /\ api[k].inc \in Nat
  BY ObjectFields DEF IInv, TypeOK
<1>2. CASE UserCreate(k)
  <2>1. PICK s \in PnSpecs :
          UserStep(k, [live |-> TRUE, rv |-> api[k].rv + 1, inc |-> api[k].inc + 1,
                       del |-> FALSE, fin |-> FALSE, spec |-> s, state |-> ""])
    BY <1>2 DEF UserCreate
  <2>. DEFINE o == [live |-> TRUE, rv |-> api[k].rv + 1, inc |-> api[k].inc + 1,
                    del |-> FALSE, fin |-> FALSE, spec |-> s, state |-> ""]
  <2>2. api[k].rv + 1 \in Nat /\ api[k].inc + 1 \in Nat /\ api[k].inc <= api[k].inc + 1
        /\ api[k].inc + 1 # api[k].inc
    BY <1>1
  <2>3. ASSUME NEW r \in Nat, NEW i \in Nat
        PROVE  [live |-> TRUE, rv |-> r, inc |-> i,
                del |-> FALSE, fin |-> FALSE, spec |-> s, state |-> ""] \in Objects
    BY DEF Objects, Alive, States
  <2>4. o \in Objects
    BY <2>2, <2>3
  <2>5. o.rv = api[k].rv + 1 /\ o.inc = api[k].inc + 1 /\ ~o.fin /\ o.live /\ o.state # "Created"
    OBVIOUS
  <2>6. ~api[k].fin
    BY <1>1, <1>2, ObjectFields DEF UserCreate
  <2>. HIDE DEF o
  <2>. QED
    BY <2>1, <2>2, <2>4, <2>5, <2>6, UserStepInv DEF o
<1>3. CASE UserDelete(k) /\ api[k].fin
  <2>. DEFINE o == [api[k] EXCEPT !.rv = api[k].rv + 1, !.del = TRUE]
  <2>1. api[k] \in Alive
    BY <1>1, <1>3, ObjectFields
  <2>2. ASSUME NEW r \in Nat
        PROVE  /\ [api[k] EXCEPT !.rv = r, !.del = TRUE] \in Alive
               /\ [api[k] EXCEPT !.rv = r, !.del = TRUE].rv = r
    BY <2>1 DEF Alive
  <2>0. api[k].rv + 1 \in Nat
    BY <1>1
  <2>3. o \in Objects /\ o.rv = api[k].rv + 1
    BY <2>0, <2>2 DEF Objects
  <2>4. /\ o.live = api[k].live /\ o.del /\ o.inc = api[k].inc /\ o.fin = api[k].fin
        /\ o.spec = api[k].spec /\ o.state = api[k].state /\ api[k].live
    BY <2>1 DEF Alive
  <2>5. UserStep(k, o)
    BY <1>3 DEF UserDelete
  <2>. HIDE DEF o
  <2>6. api[k].inc <= o.inc /\ o.inc = api[k].inc /\ o.live /\ o.fin
    BY <1>1, <1>3, <2>4
  <2>. QED
    BY <2>3, <2>4, <2>5, <2>6, UserStepInv
<1>4. CASE UserDelete(k) /\ ~api[k].fin
  <2>. DEFINE o == Tombstone(api[k].rv + 1, api[k].inc)
  <2>1. api[k].rv + 1 \in Nat
    BY <1>1
  <2>2. o \in Objects /\ o.rv = api[k].rv + 1 /\ o.inc = api[k].inc /\ ~o.live /\ ~o.fin
    BY <1>1, <2>1, TombstoneType
  <2>3. UserStep(k, o)
    BY <1>4 DEF UserDelete
  <2>. HIDE DEF o
  <2>. QED
    BY <1>1, <1>4, <2>2, <2>3, UserStepInv
<1>. QED
  BY <1>2, <1>3, <1>4

\* The watch delivers, and a resync enqueues, while the worker is idle.
LEMMA WatchInv ==
  ASSUME IInv, NEW k \in Pns, Deliver(k) \/ Resync(k) PROVE IInv'
<1>1. KubeType /\ WorkerType /\ OvnType /\ ServerType /\ AgentType /\ ChanType /\ TablesType
      /\ CountType
  BY TypeParts DEF IInv
<1>2. UNCHANGED <<api, workerVars, ovnVars, serverVars, agentVars, chan, history, faults, bounds>>
      /\ queue' = queue \cup {k} /\ pc = "idle"
  BY DEF Deliver, Resync, kubeVars
<1>3. KubeType' /\ KubeInv'
  <2>1. CASE Deliver(k)
    BY <1>1, <2>1, DeliverKube DEF IInv
  <2>2. CASE Resync(k)
    BY <1>1, <2>2, KubeStutter, TypeKept DEF IInv, Resync
  <2>. QED
    BY <2>1, <2>2
<1>4. WorkerType'
  BY <1>1, <1>2 DEF WorkerType, workerVars
<1>5. TypeOK'
  BY <1>1, <1>2, <1>3, <1>4, TypeKept, TypePartsNext DEF agentVars
<1>6. CopyInv'
  BY <1>2 DEF CopyInv, workerVars
<1>7. UNCHANGED <<pc, req, cr>>
  BY <1>2 DEF workerVars
<1>8. \A j \in Pns : QuietOn(j)
  BY <1>1, <1>2, <1>7, QuietWorker DEF Kept, Past
<1>9. UNCHANGED serverState
  BY <1>2 DEF serverState
<1>. QED
  BY <1>3, <1>5, <1>6, <1>8, <1>9, Quiet DEF IInv

\* Reconcile starts from a cached version, which KubeInv relates to the stored one.
LEMMA ReconcileInv == ASSUME IInv, NEW k \in Pns, Reconcile(k) PROVE IInv'
<1>1. KubeType /\ WorkerType /\ OvnType /\ ServerType /\ AgentType /\ ChanType /\ TablesType
      /\ CountType
  BY TypeParts DEF IInv
<1>2. UNCHANGED <<kubeVars, ovnVars, serverVars, agentVars, chan, history, faults, bounds>>
      /\ pc = "idle" /\ queue' \subseteq queue
  BY DEF Reconcile, ReconcileFinalizers
<1>3. KubeType' /\ KubeInv' /\ UNCHANGED serverState /\ UNCHANGED <<api, cache, pending>>
  BY <1>1, <1>2, KubeStutter, TypeKept DEF IInv, serverState, kubeVars
<1>4. CASE UNCHANGED workerVars
  <2>1. UNCHANGED <<pc, req, cr>>
    BY <1>4 DEF workerVars
  <2>2. WorkerType'
    BY <1>1, <1>2, <2>1 DEF WorkerType
  <2>3. TypeOK'
    BY <1>1, <1>2, <1>3, <2>2, TypeKept, TypePartsNext DEF agentVars
  <2>4. CopyInv'
    BY <1>2, <2>1 DEF CopyInv
  <2>5. \A j \in Pns : QuietOn(j)
    BY <1>1, <1>3, <2>1, QuietWorker DEF Kept, Past
  <2>. QED
    BY <1>3, <2>3, <2>4, <2>5, Quiet DEF IInv
<1>5. CASE ~UNCHANGED workerVars
  <2>. DEFINE o == cache[k]
  <2>1. /\ pc' \in {"notifyDelete", "removeFinalizer", "addFinalizer", "ovnCreate"}
        /\ req' = k /\ cr' = o /\ o.live
        /\ pc' = "addFinalizer" => ~o.del /\ ~o.fin
        /\ pc' = "ovnCreate" => ~o.del /\ o.fin
        /\ pc' \in {"notifyDelete", "removeFinalizer"} => o.del /\ o.fin
        /\ pc' = "removeFinalizer" => ~o.spec.cni
    BY <1>5 DEF Reconcile, ReconcileFinalizers
  <2>2. o \in Versions(k) /\ o \in Objects /\ o.rv \in Nat /\ o \in Alive
    BY <1>1, <2>1, VersionType, ObjectFields
  <2>. HIDE DEF o
  <2>3. WorkerType'
    BY <1>1, <1>2, <2>1, <2>2 DEF WorkerType, Pcs
  <2>4. TypeOK'
    BY <1>1, <1>2, <1>3, <2>3, TypeKept, TypePartsNext DEF agentVars
  <2>5. /\ o.rv <= api[k].rv /\ (o.rv = api[k].rv => o = api[k])
        /\ o.rv <= cache[k].rv
        /\ Holds(o) => api[k].fin
        /\ api[k].fin => o.inc = api[k].inc /\ o.spec = api[k].spec
    BY <2>2 DEF IInv, KubeInv, VersionsOrdered, FinalizerKept, SameObject, o
  <2>6. o.del => \A v \in Versions(k) : ~Holds(v)
    BY <2>1, <2>2 DEF IInv, KubeInv, NoWayBack, VersionsOrdered, o
  <2>7. Versions(k)' = Versions(k)
    BY <1>3 DEF Versions
  <2>8. CopyInv'
    BY <1>3, <2>1, <2>5, <2>6, <2>7 DEF CopyInv, CreatePcs, DeletePcs, Holds
  <2>9. ASSUME NEW j \in Pns PROVE QuietOn(j)
    <3>1. Kept(j) => ~Past(j)'
      BY <2>1, <2>5 DEF Kept, Past, Known
    <3>. QED
      BY <1>1, <1>3, <2>1, <3>1, QuietWorker
  <2>. QED
    BY <1>3, <2>4, <2>8, <2>9, Quiet DEF IInv
<1>. QED
  BY <1>4, <1>5

(***************************************************************************)
(* The worker's calls of the API server and of OVN.                        *)
(***************************************************************************)

\* Either the store is as it was, or the write was accepted.
LEMMA ApiCallCases ==
  ASSUME NEW o, ApiCall(o, TRUE, TRUE)
  PROVE  /\ \/ UNCHANGED <<api, pending>>
            \/ api[req].live /\ api[req].rv = o.rv /\ Store(req, Accepted(o))
         /\ Fault \/ NoFault
BY DEF ApiCall, Write, Rejected

\* The worker writes its copy with a finalizer added, with another status, or with the
\* finalizer removed.
Writable(o) ==
  /\ o.rv = cr.rv /\ o.inc = cr.inc /\ o.spec = cr.spec /\ o.del = cr.del
  /\ \/ pc = "addFinalizer" /\ o.fin /\ o.state = cr.state
     \/ o.fin /\ cr.fin /\ (o.state = "Created" => pc = "statusCreated")
     \/ pc = "removeFinalizer" /\ ~o.fin

\* What such a write stores, when it is accepted.
LEMMA WriteStores ==
  ASSUME IInv, pc # "idle", NEW o \in Alive, Writable(o), cache' = cache,
         api[req].live, api[req].rv = o.rv, Store(req, Accepted(o))
  PROVE  /\ KubeType' /\ KubeInv' /\ api'[req] = Accepted(o)
         /\ Accepted(o) \in Objects /\ Accepted(o).rv = api[req].rv + 1
         /\ Accepted(o).inc = api[req].inc
         /\ o.fin => /\ Accepted(o) \in Alive /\ Accepted(o).fin
                     /\ Accepted(o).spec = o.spec /\ o.spec = api[req].spec
                     /\ Accepted(o).state = o.state /\ Accepted(o).del = o.del
                     /\ o.del = api[req].del
         /\ ~o.fin => ~Accepted(o).live /\ ~Accepted(o).fin
         /\ \A j \in Pns : j # req => /\ api'[j] = api[j] /\ cache'[j] = cache[j]
                                      /\ pending'[j] = pending[j]
         /\ \A k \in Pns : k = req => Versions(k)' \subseteq Versions(k) \cup {Accepted(o)}
<1>. DEFINE a == Accepted(o)
<1>1. KubeType /\ req \in Pns /\ cr \in Alive
  BY TypeParts DEF IInv, WorkerType
<1>2. /\ api[req] \in Objects /\ cache[req] \in Objects
      /\ \A v \in Versions(req) : v \in Objects /\ v.rv \in Nat
  BY <1>1, VersionType
<1>3. /\ cr.rv = api[req].rv /\ cr.inc = api[req].inc /\ cr.spec = api[req].spec
      /\ cr.fin = api[req].fin /\ cr.del = api[req].del
  BY DEF IInv, CopyInv, Writable
<1>4. /\ a \in Objects /\ a.rv = o.rv + 1 /\ a.inc = o.inc
      /\ o.del /\ ~o.fin => ~a.live /\ ~a.fin
      /\ ~(o.del /\ ~o.fin) =>
              /\ a \in Alive /\ a.live /\ a.del = o.del /\ a.fin = o.fin
              /\ a.spec = o.spec /\ a.state = o.state
  BY AcceptedType
<1>. HIDE DEF a
<1>5. ~o.fin => o.del
  BY DEF IInv, CopyInv, Writable, DeletePcs
<1>6. /\ o.fin => /\ a \in Alive /\ a.fin /\ a.spec = o.spec /\ o.spec = api[req].spec
                  /\ a.state = o.state /\ a.del = o.del /\ o.del = api[req].del
      /\ ~o.fin => ~a.live /\ ~a.fin
  BY <1>3, <1>4, <1>5 DEF Writable
<1>7. KubeInv'
  <2>1. CASE pc = "addFinalizer" /\ o.fin
    <3>1. \A v \in Versions(req) : cache[req].rv <= v.rv /\ v.rv <= api[req].rv
                                     /\ (v.rv = api[req].rv => v = api[req])
      BY <1>1 DEF IInv, KubeInv, VersionsOrdered
    <3>2. cr.rv <= cache[req].rv /\ ~cr.del
      BY <2>1 DEF IInv, CopyInv
    <3>3. cache[req].rv \in Nat /\ api[req].rv \in Nat
      BY <1>2, ObjectFields
    <3>4. \A v \in Versions(req) : v = api[req]
      BY <1>2, <1>3, <3>1, <3>2, <3>3
    <3>5. \A v \in Versions(req) : ~(v.live /\ v.del) /\ v.inc = a.inc /\ v.spec = a.spec
      BY <1>3, <1>4, <1>6, <2>1, <3>2, <3>4 DEF Writable
    <3>. QED
      BY <1>1, <1>4, <1>6, <2>1, <3>5, StoreKube DEF IInv, a
  <2>2. CASE o.fin /\ cr.fin
    <3>1. Holds(a) => Holds(api[req])
      BY <1>3, <1>4, <1>6, <2>2 DEF Holds
    <3>2. \A v \in Versions(req) : v.inc = a.inc /\ v.spec = a.spec
      BY <1>1, <1>3, <1>4, <1>6, <2>2 DEF IInv, KubeInv, SameObject, Writable
    <3>. QED
      BY <1>1, <1>4, <1>6, <2>2, <3>1, <3>2, StoreKube DEF IInv, a
  <2>3. CASE pc = "removeFinalizer" /\ ~o.fin
    <3>1. \A v \in Versions(req) : ~Holds(v)
      BY <2>3 DEF IInv, CopyInv, DeletePcs
    <3>. QED
      BY <1>1, <1>4, <1>6, <2>3, <3>1, StoreKube DEF IInv, a, Holds
  <2>. QED
    BY <2>1, <2>2, <2>3 DEF Writable
<1>8. /\ KubeType' /\ api'[req] = a
      /\ \A k \in Pns : k = req => Versions(k)' \subseteq Versions(k) \cup {a}
      /\ \A j \in Pns : j # req => /\ api'[j] = api[j] /\ cache'[j] = cache[j]
                                   /\ pending'[j] = pending[j]
  BY <1>1, <1>4, StoreType DEF a
<1>. QED
  BY <1>3, <1>4, <1>6, <1>7, <1>8 DEF a, Writable

\* Whatever becomes of the write, no node is told, and none is forgotten.
LEMMA ApiStep ==
  ASSUME IInv, pc # "idle", NEW o \in Alive, Writable(o), ApiCall(o, TRUE, TRUE),
         cache' = cache, UNCHANGED serverState,
         pc' # "statusCreated", \A k \in Pns : Past(k)' => Past(k)
  PROVE  KubeType' /\ KubeInv' /\ SubsInv' /\ ListInv' /\ ToldInv' /\ NodeInv'
<1>1. KubeType /\ req \in Pns /\ cr \in Alive
  BY TypeParts DEF IInv, WorkerType
<1>3. CASE UNCHANGED <<api, pending>>
  <2>1. KubeType' /\ KubeInv'
    BY <1>1, <1>3, TypeKept, KubeStutter DEF kubeVars, IInv
  <2>2. ASSUME NEW j \in Pns PROVE QuietOn(j)
    BY <1>1, <1>3, QuietWorker DEF Kept
  <2>. QED
    BY <2>1, <2>2, Quiet
<1>4. CASE api[req].live /\ api[req].rv = o.rv /\ Store(req, Accepted(o))
  <2>. DEFINE a == Accepted(o)
  <2>1. /\ KubeType' /\ KubeInv' /\ api'[req] = a
        /\ a \in Objects /\ a.rv = api[req].rv + 1 /\ a.inc = api[req].inc
        /\ o.fin => /\ a \in Alive /\ a.fin /\ a.spec = o.spec /\ o.spec = api[req].spec
                    /\ a.state = o.state /\ a.del = o.del
        /\ ~o.fin => ~a.live /\ ~a.fin
        /\ \A j \in Pns : j # req => api'[j] = api[j]
    BY <1>4, WriteStores
  <2>. HIDE DEF a
  <2>2. ASSUME NEW j \in Pns, j # req PROVE QuietOn(j)
    <3>1. api'[j] = api[j] /\ api[j].inc \in Nat
      BY <1>1, <2>1, <2>2, ObjectFields DEF KubeType
    <3>. QED
      BY <3>1 DEF QuietOn, Announced, Kept
  <2>3. ASSUME NEW k \in Pns, k = req PROVE QuietOn(k)
    <3>1. api[k].inc \in Nat /\ api[k].inc <= api[k].inc
      BY <1>1, ObjectFields DEF KubeType
    <3>2. cr.rv = api[k].rv /\ cr.inc = api[k].inc /\ cr.spec = api[k].spec
          /\ (pc # "removeFinalizer" => cr = api[k])
      BY <1>4, <2>3 DEF IInv, CopyInv, Writable
    <3>3. a.live /\ a.state = "Created" => Announced(k)
      BY <1>4, <2>3, <2>1, <3>2 DEF Writable, Announced
    <3>4. Announced(k)' => Announced(k)
      BY <2>1, <2>3, <3>3 DEF Announced
    <3>5. Kept(k) => Kept(k)' /\ api'[k].spec = api[k].spec
      BY <2>1, <2>3, <1>1 DEF Kept, Past, Writable
    <3>6. a.live => a.spec = api[k].spec
      BY <2>1, <2>3
    <3>. QED
      BY <1>4, <2>3, <2>1, <3>1, <3>4, <3>5, <3>6 DEF QuietOn
  <2>4. \A j \in Pns : QuietOn(j)
    BY <2>2, <2>3
  <2>. QED
    BY <2>1, <2>4, Quiet
<1>. QED
  BY <1>3, <1>4, ApiCallCases

\* The worker is idle after its last call.
LEMMA FinishType ==
  ASSUME WorkerType, pc # "idle", Done \/ Retry PROVE WorkerType' /\ CopyInv'
<1>1. Tombstone(0, 0) \in Objects
  BY TombstoneType
<1>. QED
  BY <1>1 DEF WorkerType, Done, Retry, Finish, CopyInv, Pcs

\* It goes on with the same copy.
LEMMA GotoType ==
  ASSUME WorkerType, pc # "idle", NEW l \in Pcs, Goto(l) PROVE WorkerType'
BY DEF WorkerType, Goto

\* A finalizer is only put on the version the worker read, so it stands when creation goes on.
LEMMA AddFinalizerInv == ASSUME IInv, AddFinalizer PROVE IInv'
<1>. DEFINE o == [cr EXCEPT !.fin = TRUE]
<1>1. KubeType /\ WorkerType /\ OvnType /\ ServerType /\ AgentType /\ ChanType /\ TablesType
      /\ CountType
  BY TypeParts DEF IInv
<1>2. pc = "addFinalizer" /\ req \in Pns /\ cr \in Alive /\ ~cr.del /\ ~cr.fin
  BY <1>1 DEF AddFinalizer, WorkerType, IInv, CopyInv
<1>3. o \in Alive /\ o.fin /\ o.del = cr.del /\ Writable(o)
  BY <1>2 DEF Alive, Writable
<1>4. ApiCall(o, TRUE, TRUE)
  BY DEF AddFinalizer, ApiCall
<1>5. \/ Retry
      \/ /\ pc' = "ovnCreate" /\ cr' = api'[req] /\ UNCHANGED <<req, queue>>
         /\ api[req].rv = o.rv /\ Write(req, o)
  BY DEF AddFinalizer, ApiCall, Rejected
<1>6. UNCHANGED <<cache, ovnVars, serverVars, agentVars, chan, history, bounds>>
  BY DEF AddFinalizer
<1>. HIDE DEF o
<1>7. KubeType' /\ KubeInv' /\ SubsInv' /\ ListInv' /\ ToldInv' /\ NodeInv'
  <2>1. pc' # "statusCreated" /\ \A k \in Pns : ~Past(k)'
    BY <1>5 DEF Retry, Finish, Past
  <2>. QED
    BY <1>2, <1>3, <1>4, <1>6, <2>1, ApiStep DEF serverState
<1>8. CountType'
  BY <1>1, <1>4, <1>6, ApiCallCases, FaultCounted
<1>9. CASE Retry
  BY <1>1, <1>2, <1>6, <1>7, <1>8, <1>9, FinishType, TypeKept, TypePartsNext DEF agentVars, IInv
<1>10. CASE /\ pc' = "ovnCreate" /\ cr' = api'[req] /\ UNCHANGED <<req, queue>>
            /\ api[req].rv = o.rv /\ Write(req, o)
  <2>. DEFINE a == Accepted(o)
  <2>1. cr = api[req] /\ o # api[req]
    BY <1>2, <1>3, <1>10 DEF IInv, CopyInv, Writable
  <2>2. Store(req, a) /\ api[req].live
    BY <1>2, <1>10, <2>1, ObjectFields DEF Write, Objects
  <2>3. api'[req] = a /\ a \in Alive /\ a.fin /\ ~a.del
    BY <1>2, <1>3, <1>6, <1>10, <2>2, WriteStores
  <2>. HIDE DEF a
  <2>4. WorkerType'
    BY <1>1, <1>2, <1>10, <2>3 DEF WorkerType, Pcs, Objects
  <2>5. a.rv \in Nat
    BY <2>3 DEF Alive
  <2>6. CopyInv'
    BY <1>10, <2>3, <2>5 DEF CopyInv, CreatePcs, DeletePcs
  <2>. QED
    BY <1>1, <1>6, <1>7, <1>8, <2>4, <2>6, TypeKept, TypePartsNext DEF agentVars, IInv
<1>. QED
  BY <1>5, <1>9, <1>10

\* The status of a creation, written to the version the worker holds or refused.
LEMMA UpdateStatusInv == ASSUME IInv, UpdateStatus PROVE IInv'
<1>. DEFINE s == IF pc = "statusCreated" THEN "Created" ELSE "CreateInternalError"
            o == [cr EXCEPT !.state = s]
<1>1. KubeType /\ WorkerType /\ OvnType /\ ServerType /\ AgentType /\ ChanType /\ TablesType
      /\ CountType
  BY TypeParts DEF IInv
<1>2. pc \in {"statusCreated", "statusError"} /\ req \in Pns /\ cr \in Alive /\ cr.fin
  BY <1>1 DEF UpdateStatus, WorkerType, IInv, CopyInv, CreatePcs
<1>3. o \in Alive /\ Writable(o)
  BY <1>2 DEF Alive, Writable, States
<1>4. ApiCall(o, TRUE, TRUE) /\ (Done \/ Retry)
  BY DEF UpdateStatus, ApiCall
<1>5. UNCHANGED <<cache, ovnVars, serverVars, agentVars, chan, history, bounds>>
  BY DEF UpdateStatus
<1>. HIDE DEF o
<1>6. pc' # "statusCreated" /\ \A k \in Pns : ~Past(k)'
  BY <1>4 DEF Done, Retry, Finish, Past
<1>7. KubeType' /\ KubeInv' /\ SubsInv' /\ ListInv' /\ ToldInv' /\ NodeInv'
  BY <1>2, <1>3, <1>4, <1>5, <1>6, ApiStep DEF serverState
<1>8. CountType'
  BY <1>1, <1>4, <1>5, ApiCallCases, FaultCounted
<1>. QED
  BY <1>1, <1>2, <1>4, <1>5, <1>7, <1>8, FinishType, TypeKept, TypePartsNext DEF agentVars, IInv

\* The finalizer goes, and with it the object.
LEMMA RemoveFinalizerInv == ASSUME IInv, RemoveFinalizer PROVE IInv'
<1>. DEFINE o == [cr EXCEPT !.fin = FALSE]
<1>1. KubeType /\ WorkerType /\ OvnType /\ ServerType /\ AgentType /\ ChanType /\ TablesType
      /\ CountType
  BY TypeParts DEF IInv
<1>2. pc = "removeFinalizer" /\ req \in Pns /\ cr \in Alive
  BY <1>1 DEF RemoveFinalizer, WorkerType
<1>3. o \in Alive /\ Writable(o)
  BY <1>2 DEF Alive, Writable
<1>4. ApiCall(o, TRUE, TRUE) /\ (Done \/ Retry)
  BY DEF RemoveFinalizer, ApiCall
<1>5. UNCHANGED <<cache, ovnVars, serverVars, agentVars, chan, history, bounds>>
  BY DEF RemoveFinalizer
<1>. HIDE DEF o
<1>6. pc' # "statusCreated" /\ \A k \in Pns : ~Past(k)'
  BY <1>4 DEF Done, Retry, Finish, Past
<1>7. KubeType' /\ KubeInv' /\ SubsInv' /\ ListInv' /\ ToldInv' /\ NodeInv'
  BY <1>2, <1>3, <1>4, <1>5, <1>6, ApiStep DEF serverState
<1>8. CountType'
  BY <1>1, <1>4, <1>5, ApiCallCases, FaultCounted
<1>. QED
  BY <1>1, <1>2, <1>4, <1>5, <1>7, <1>8, FinishType, TypeKept, TypePartsNext DEF agentVars, IInv

\* The status of a deletion; the worker goes on, with the version that was stored or
\* with its own.
LEMMA UpdateDeleteStatusInv == ASSUME IInv, UpdateDeleteStatus PROVE IInv'
<1>. DEFINE o == [cr EXCEPT !.state = "DeleteInternalError"]
<1>1. KubeType /\ WorkerType /\ OvnType /\ ServerType /\ AgentType /\ ChanType /\ TablesType
      /\ CountType
  BY TypeParts DEF IInv
<1>2. /\ pc = "statusDelete" /\ req \in Pns /\ cr \in Alive /\ cr.fin /\ cr.del
      /\ \A v \in Versions(req) : ~Holds(v)
  BY <1>1 DEF UpdateDeleteStatus, WorkerType, IInv, CopyInv, DeletePcs
<1>3. o \in Alive /\ Writable(o) /\ o.fin /\ o.del
  BY <1>2 DEF Alive, Writable, States
<1>4. ApiCall(o, TRUE, TRUE)
      /\ (cr' = o \/ (cr' = api'[req] /\ api[req].live /\ api[req].rv = o.rv /\ Write(req, o)))
  BY DEF UpdateDeleteStatus, ApiCall, Rejected
<1>5. UNCHANGED <<cache, ovnVars, serverVars, agentVars, chan, history, bounds>>
      /\ pc' = "removeFinalizer" /\ req' = req /\ queue' = queue
  BY DEF UpdateDeleteStatus
<1>. HIDE DEF o
<1>6. pc' # "statusCreated" /\ \A k \in Pns : Past(k)' => Past(k)
  BY <1>2, <1>5 DEF Past
<1>7. KubeType' /\ KubeInv' /\ SubsInv' /\ ListInv' /\ ToldInv' /\ NodeInv'
  BY <1>2, <1>3, <1>4, <1>5, <1>6, ApiStep DEF serverState
<1>8. CountType'
  BY <1>1, <1>4, <1>5, ApiCallCases, FaultCounted
<1>9. api[req] \in Objects /\ api[req].rv \in Nat /\ o.rv \in Nat
  BY <1>1, <1>2, <1>3, VersionType, ObjectFields DEF Objects
<1>10. WorkerType' /\ CopyInv'
  <2>1. CASE UNCHANGED <<api, pending>>
    <3>1. Versions(req)' = Versions(req) /\ api'[req] = api[req]
      BY <1>5, <2>1 DEF Versions
    <3>2. cr' = o \/ (cr' = api[req] /\ api[req].live)
      BY <1>4, <3>1
    <3>3. /\ o.rv = cr.rv /\ o.inc = cr.inc /\ o.spec = cr.spec /\ o.del = cr.del
          /\ o.fin = cr.fin
      BY <1>2, <1>3 DEF Writable
    <3>4. /\ o.rv <= api[req].rv
          /\ o.rv = api[req].rv => /\ o.inc = api[req].inc /\ o.spec = api[req].spec
                                   /\ o.fin = api[req].fin /\ o.del = api[req].del
          /\ api[req].fin => o.inc = api[req].inc /\ o.spec = api[req].spec
      BY <1>2, <3>3 DEF IInv, CopyInv
    <3>5. cr' = api[req] => api[req].fin /\ api[req].del
      BY <1>3, <1>4, <3>1, <3>2, <3>4, <1>9
    <3>6. cr' \in Alive
      BY <1>3, <1>9, <3>2, ObjectFields
    <3>7. WorkerType'
      BY <1>1, <1>2, <1>5, <3>6 DEF WorkerType, Pcs, Objects
    <3>8. api[req].rv <= api[req].rv /\ \A v \in Versions(req)' : ~Holds(v)
      BY <1>2, <1>9, <3>1
    <3>9. ASSUME cr' = o PROVE CopyInv'
      BY <1>3, <1>5, <3>1, <3>4, <3>8, <3>9 DEF CopyInv, CreatePcs, DeletePcs
    <3>10. ASSUME cr' = api[req] PROVE CopyInv'
      BY <1>5, <3>1, <3>5, <3>8, <3>10 DEF CopyInv, CreatePcs, DeletePcs
    <3>. QED
      BY <3>2, <3>7, <3>9, <3>10
  <2>2. CASE api[req].live /\ api[req].rv = o.rv /\ Store(req, Accepted(o))
    <3>. DEFINE a == Accepted(o)
    <3>1. /\ api'[req] = a /\ a \in Alive /\ a.fin /\ a.del /\ a.rv = api[req].rv + 1
          /\ a.inc = api[req].inc /\ a.spec = o.spec
          /\ Versions(req)' \subseteq Versions(req) \cup {a}
      BY <1>2, <1>3, <1>5, <2>2, WriteStores
    <3>. HIDE DEF a
    <3>2. cr' = o \/ cr' = a
      BY <1>4, <3>1
    <3>3. o.inc = a.inc /\ o.spec = a.spec /\ o.rv <= a.rv /\ o.rv # a.rv /\ a.rv <= a.rv
      BY <1>2, <1>3, <1>9, <2>2, <3>1 DEF Writable, IInv, CopyInv
    <3>4. WorkerType'
      BY <1>1, <1>2, <1>3, <1>5, <3>1, <3>2 DEF WorkerType, Pcs, Objects
    <3>5. \A v \in Versions(req)' : ~Holds(v)
      BY <1>2, <3>1 DEF Holds
    <3>6. CopyInv'
      BY <1>3, <1>5, <3>1, <3>2, <3>3, <3>5 DEF CopyInv, CreatePcs, DeletePcs
    <3>. QED
      BY <3>4, <3>6
  <2>. QED
    BY <1>4, <2>1, <2>2, ApiCallCases
<1>. QED
  BY <1>1, <1>5, <1>7, <1>8, <1>10, TypeKept, TypePartsNext DEF agentVars, IInv

\* The OVN commands of a creation and of a deletion.
LEMMA OvnInv == ASSUME IInv, OvnCreate \/ OvnDelete PROVE IInv'
<1>1. KubeType /\ WorkerType /\ OvnType /\ ServerType /\ AgentType /\ ChanType /\ TablesType
      /\ CountType
  BY TypeParts DEF IInv
<1>2. /\ pc \in {"ovnCreate", "ovnDelete"} /\ req \in Pns
      /\ UNCHANGED <<kubeVars, serverVars, agentVars, chan, history, bounds>>
      /\ Fault \/ NoFault
      /\ \/ Done \/ (pc = "ovnCreate" /\ Goto("notifyCreate"))
         \/ pc = "ovnDelete" /\ (Goto("removeFinalizer") \/ Goto("statusDelete"))
  BY <1>1 DEF OvnCreate, OvnDelete, WorkerType
<1>3. OvnType'
  BY <1>1, <1>2 DEF OvnCreate, OvnDelete, OvnType, ovnVars
<1>4. CountType'
  BY <1>1, <1>2, FaultCounted
<1>5. WorkerType'
  BY <1>1, <1>2, FinishType, GotoType DEF Pcs
<1>6. KubeType' /\ KubeInv' /\ UNCHANGED serverState
  BY <1>1, <1>2, TypeKept, KubeStutter DEF IInv, serverState
<1>7. TypeOK'
  BY <1>1, <1>2, <1>3, <1>4, <1>5, <1>6, TypeKept, TypePartsNext DEF agentVars
<1>8. CopyInv'
  <2>1. CASE Done
    BY <1>1, <1>2, <2>1, FinishType
  <2>2. CASE ~Done
    <3>1. /\ UNCHANGED <<req, cr, api, cache, pending>>
          /\ \/ pc = "ovnCreate" /\ pc' = "notifyCreate"
             \/ pc = "ovnDelete" /\ pc' \in {"removeFinalizer", "statusDelete"}
      BY <1>2, <2>2 DEF Goto, kubeVars
    <3>2. Versions(req)' = Versions(req)
      BY <3>1 DEF Versions
    <3>. QED
      BY <3>1, <3>2 DEF IInv, CopyInv, CreatePcs, DeletePcs
  <2>. QED
    BY <2>1, <2>2
<1>9. ASSUME NEW j \in Pns PROVE QuietOn(j)
  <2>1. api' = api /\ pc' # "statusCreated" /\ (Past(j)' => Past(j))
    BY <1>2 DEF kubeVars, Done, Finish, Goto, Past
  <2>. QED
    BY <1>1, <2>1, QuietWorker DEF Kept
<1>. QED
  BY <1>6, <1>7, <1>8, <1>9, Quiet DEF IInv

(***************************************************************************)
(* Messages in a stream.                                                   *)
(***************************************************************************)

\* A message is put at the end.
LEMMA AppendFacts ==
  ASSUME NEW c \in Seq(Messages), NEW m \in Messages, NEW k, NEW i, NEW sp
  PROVE  /\ Creates(c, k, i) => Creates(Append(c, m), k, i)
         /\ m.type = "create" /\ m.pn = k /\ m.inc = i => Creates(Append(c, m), k, i)
         /\ Synced(Append(c, m)) => Synced(c) \/ m.type = "inSync"
         /\ OneSync(c) /\ (m.type = "inSync" => ~Synced(c)) => OneSync(Append(c, m))
         /\ Stays(Append(c, m), k) => Stays(c, k) /\ ~Removes(m, k)
         /\ Comes(Append(c, m), k, sp) =>
              \/ m.type = "create" /\ m.pn = k /\ m.spec = sp
              \/ Comes(c, k, sp) /\ m.type # "inSync" /\ ~Removes(m, k)
<1>. DEFINE d == Append(c, m)
<1>1. /\ Len(c) \in Nat /\ Len(d) = Len(c) + 1 /\ d[Len(c) + 1] = m
      /\ \A x \in 1..Len(c) : d[x] = c[x] /\ x \in 1..Len(d)
      /\ Len(c) + 1 \in 1..Len(d)
      /\ \A x \in 1..Len(d) : x \in 1..Len(c) \/ x = Len(c) + 1
  OBVIOUS
<1>. HIDE DEF d
<1>2. /\ Creates(c, k, i) => Creates(d, k, i)
      /\ m.type = "create" /\ m.pn = k /\ m.inc = i => Creates(d, k, i)
  BY <1>1 DEF Creates
<1>3. Synced(d) => Synced(c) \/ m.type = "inSync"
  BY <1>1 DEF Synced
<1>4. OneSync(c) /\ (m.type = "inSync" => ~Synced(c)) => OneSync(d)
  BY <1>1 DEF Synced, OneSync
<1>5. Stays(d, k) => Stays(c, k) /\ ~Removes(m, k)
  BY <1>1 DEF Stays
<1>6. ASSUME Comes(d, k, sp)
      PROVE  \/ m.type = "create" /\ m.pn = k /\ m.spec = sp
             \/ Comes(c, k, sp) /\ m.type # "inSync" /\ ~Removes(m, k)
  <2>1. PICK x \in 1..Len(d) :
          /\ d[x].type = "create" /\ d[x].pn = k /\ d[x].spec = sp
          /\ \A j \in (x + 1)..Len(d) : d[j].type # "inSync" /\ ~Removes(d[j], k)
    BY <1>6 DEF Comes
  <2>2. CASE x \in 1..Len(c)
    <3>1. Len(c) + 1 \in (x + 1)..Len(d) /\ \A j \in (x + 1)..Len(c) : j \in (x + 1)..Len(d) /\ d[j] = c[j]
      BY <1>1, <2>2
    <3>. QED
      BY <1>1, <2>1, <2>2, <3>1 DEF Comes
  <2>. QED
    BY <1>1, <2>1, <2>2
<1>. QED
  BY <1>2, <1>3, <1>4, <1>5, <1>6 DEF d

\* The same for all streams of a Push.
LEMMA PushFacts ==
  ASSUME ChanType, NEW S, NEW m \in Messages, NEW n \in Nodes,
         chan'[n] = IF n \in S THEN Append(chan[n], m) ELSE chan[n]
  PROVE  /\ \A k, i : Creates(chan[n], k, i) => Creates(chan'[n], k, i)
         /\ \A k, i : n \in S /\ m.type = "create" /\ m.pn = k /\ m.inc = i
                       => Creates(chan'[n], k, i)
         /\ Synced(chan'[n]) => Synced(chan[n]) \/ m.type = "inSync"
         /\ OneSync(chan[n]) /\ (m.type = "inSync" => ~Synced(chan[n])) => OneSync(chan'[n])
         /\ \A k : Stays(chan'[n], k) => Stays(chan[n], k) /\ (n \in S => ~Removes(m, k))
         /\ \A k, sp : Comes(chan'[n], k, sp) =>
              \/ n \in S /\ m.type = "create" /\ m.pn = k /\ m.spec = sp
              \/ Comes(chan[n], k, sp) /\ (n \in S => m.type # "inSync" /\ ~Removes(m, k))
<1>. DEFINE c == chan[n]
            d == chan'[n]
<1>1. c \in Seq(Messages) /\ d = IF n \in S THEN Append(c, m) ELSE c
  BY DEF ChanType
<1>. HIDE DEF c, d
<1>2. ASSUME NEW k, NEW i PROVE Creates(c, k, i) => Creates(d, k, i)
  BY <1>1, AppendFacts
<1>3. ASSUME NEW k, NEW i, n \in S, m.type = "create", m.pn = k, m.inc = i
      PROVE  Creates(d, k, i)
  BY <1>1, <1>3, AppendFacts
<1>4. /\ Synced(d) => Synced(c) \/ m.type = "inSync"
      /\ OneSync(c) /\ (m.type = "inSync" => ~Synced(c)) => OneSync(d)
  BY <1>1, AppendFacts
<1>5. ASSUME NEW k, Stays(d, k) PROVE Stays(c, k) /\ (n \in S => ~Removes(m, k))
  BY <1>1, <1>5, AppendFacts
<1>6. ASSUME NEW k, NEW sp, Comes(d, k, sp)
      PROVE  \/ n \in S /\ m.type = "create" /\ m.pn = k /\ m.spec = sp
             \/ Comes(c, k, sp) /\ (n \in S => m.type # "inSync" /\ ~Removes(m, k))
  BY <1>1, <1>6, AppendFacts
<1>. QED
  BY <1>2, <1>3, <1>4, <1>5, <1>6 DEF c, d

\* The first message is taken.
LEMMA TailFacts ==
  ASSUME NEW c \in Seq(Messages), c # <<>>, NEW k, NEW i, NEW sp
  PROVE  LET m == Head(c) IN
         /\ m \in Messages /\ Tail(c) \in Seq(Messages) /\ Len(Tail(c)) <= Len(c)
         /\ Creates(c, k, i) =>
              Creates(Tail(c), k, i) \/ (m.type = "create" /\ m.pn = k /\ m.inc = i)
         /\ Synced(Tail(c)) => Synced(c)
         /\ OneSync(c) => OneSync(Tail(c)) /\ (m.type = "inSync" => ~Synced(Tail(c)))
         /\ Stays(Tail(c), k) /\ ~Removes(m, k) => Stays(c, k)
         /\ Comes(Tail(c), k, sp) => Comes(c, k, sp)
         /\ (/\ m.type = "create" /\ m.pn = k /\ m.spec = sp
             /\ Stays(Tail(c), k) /\ ~Synced(Tail(c)))
              => Comes(c, k, sp)
<1>. DEFINE m == Head(c)
            d == Tail(c)
<1>1. /\ Len(c) \in Nat /\ Len(c) # 0 /\ Len(d) = Len(c) - 1 /\ m = c[1] /\ m \in Messages
      /\ d \in Seq(Messages) /\ Len(d) \in Nat
      /\ \A x \in 1..Len(d) : d[x] = c[x + 1]
  OBVIOUS
<1>. HIDE DEF m, d
<1>2. /\ \A x \in 1..Len(d) : x + 1 \in 1..Len(c) /\ x + 1 # 1
      /\ \A x \in 1..Len(c) : x = 1 \/ (x - 1 \in 1..Len(d) /\ d[x - 1] = c[x])
      /\ 1 \in 1..Len(c) /\ Len(d) <= Len(c)
  BY <1>1
<1>3. Creates(c, k, i) => Creates(d, k, i) \/ (m.type = "create" /\ m.pn = k /\ m.inc = i)
  BY <1>1, <1>2 DEF Creates
<1>4. Synced(d) => Synced(c)
  BY <1>1, <1>2 DEF Synced
<1>5. OneSync(c) => OneSync(d) /\ (m.type = "inSync" => ~Synced(d))
  <2>1. ASSUME OneSync(c), NEW x \in 1..Len(d), NEW y \in 1..Len(d),
               d[x].type = "inSync", d[y].type = "inSync"
        PROVE  x = y
    <3>1. x + 1 = y + 1
      <4>1. /\ x + 1 \in 1..Len(c) /\ y + 1 \in 1..Len(c)
            /\ c[x + 1].type = "inSync" /\ c[y + 1].type = "inSync"
        BY <1>1, <1>2, <2>1
      <4>. QED
        BY <2>1, <4>1 DEF OneSync
    <3>. QED
      BY <3>1
  <2>. QED
    BY <1>1, <1>2, <2>1 DEF OneSync, Synced
<1>6. Stays(d, k) /\ ~Removes(m, k) => Stays(c, k)
  BY <1>1, <1>2 DEF Stays
<1>7. ASSUME Comes(d, k, sp) PROVE Comes(c, k, sp)
  <2>1. PICK x \in 1..Len(d) :
          /\ d[x].type = "create" /\ d[x].pn = k /\ d[x].spec = sp
          /\ \A j \in (x + 1)..Len(d) : d[j].type # "inSync" /\ ~Removes(d[j], k)
    BY <1>7 DEF Comes
  <2>2. ASSUME NEW j \in (x + 2)..Len(c)
        PROVE  c[j].type # "inSync" /\ ~Removes(c[j], k)
    <3>1. j - 1 \in (x + 1)..Len(d) /\ j - 1 \in 1..Len(d) /\ (j - 1) + 1 = j
      BY <1>1, <2>2
    <3>. QED
      BY <1>1, <2>1, <3>1
  <2>3. x + 1 \in 1..Len(c) /\ (x + 1) + 1 = x + 2 /\ c[x + 1] = d[x]
    BY <1>1, <1>2
  <2>. QED
    BY <2>1, <2>2, <2>3 DEF Comes
<1>8. ASSUME m.type = "create", m.pn = k, m.spec = sp, Stays(d, k), ~Synced(d)
      PROVE  Comes(c, k, sp)
  <2>1. ASSUME NEW j \in 2..Len(c) PROVE c[j].type # "inSync" /\ ~Removes(c[j], k)
    <3>1. j - 1 \in 1..Len(d) /\ (j - 1) + 1 = j
      BY <1>1, <2>1
    <3>. QED
      BY <1>1, <1>8, <3>1 DEF Stays, Synced
  <2>2. 1 + 1 = 2
    OBVIOUS
  <2>. QED
    BY <1>1, <1>2, <1>8, <2>1, <2>2 DEF Comes
<1>. QED
  BY <1>1, <1>2, <1>3, <1>4, <1>5, <1>6, <1>7, <1>8 DEF m, d

(***************************************************************************)
(* SendNotif.                                                              *)
(***************************************************************************)
Msg(k, o, type) == [type |-> type, pn |-> k, inc |-> o.inc, spec |-> o.spec]

\* What is sent is a message.
LEMMA MsgType ==
  ASSUME NEW k \in Pns, NEW o \in Alive, NEW type \in {"create", "remove"}
  PROVE  /\ Msg(k, o, type) \in Messages
         /\ Msg(k, o, type).type = type /\ Msg(k, o, type).pn = k
         /\ Msg(k, o, type).inc = o.inc /\ Msg(k, o, type).spec = o.spec
<1>1. o.inc \in Nat /\ o.spec \in Specs
  BY Constants DEF Alive
<1>. QED
  BY <1>1 DEF Msg, Messages

\* Send keeps the streams in their windows.
LEMMA PushType ==
  ASSUME ChanType, NEW S \in SUBSET Nodes, NEW m \in Messages, Push(S, m)
  PROVE  /\ ChanType'
         /\ \A n \in Nodes : chan'[n] = IF n \in S THEN Append(chan[n], m) ELSE chan[n]
<1>1. \A n \in Nodes : chan'[n] = IF n \in S THEN Append(chan[n], m) ELSE chan[n]
  BY DEF Push
<1>2. ASSUME NEW n \in Nodes PROVE chan'[n] \in Seq(Messages) /\ Len(chan'[n]) <= MaxChan
  <2>1. chan[n] \in Seq(Messages) /\ Len(chan[n]) \in Nat /\ Len(chan[n]) <= MaxChan
        /\ MaxChan \in Nat
    BY Constants DEF ChanType
  <2>2. n \in S => Len(chan[n]) < MaxChan
    BY DEF Push
  <2>3. Append(chan[n], m) \in Seq(Messages) /\ Len(Append(chan[n], m)) = Len(chan[n]) + 1
    BY <2>1
  <2>4. n \in S => Len(chan[n]) + 1 <= MaxChan
    BY <2>1, <2>2
  <2>. QED
    BY <1>1, <2>1, <2>3, <2>4
<1>3. chan' = [n \in Nodes |-> chan'[n]]
  BY <1>1 DEF Push
<1>. QED
  BY <1>1, <1>2, <1>3 DEF ChanType

\* Message m went to the nodes of S, for SendNotif(k, o, type, nodeReq, ...) with
\* outcome r.
SentTo(S, o, m, nodeReq, r) ==
  /\ Push(S, m) /\ (Fault \/ NoFault)
  /\ \A n \in S : Current(n)
  /\ S # {} => Known(o.spec)
  /\ o.spec.sel # "ANY" => S \subseteq Selected(o.spec) /\ (nodeReq = NoVal \/ S \subseteq {nodeReq})
  /\ r = "ok" =>
       /\ Known(o.spec)
       /\ \A n \in Selected(o.spec) : Current(n) /\ (nodeReq = NoVal \/ nodeReq = n) => n \in S
  /\ r = "err" /\ Known(o.spec) /\ o.spec.sel # "ANY" =>
       /\ o.spec.sel = "SPECIFIC" /\ Labelled \cap broken # {}
       /\ nodeReq = NoVal \/ nodeReq \in broken

Outcomes == {"ok", "err", "hang"}

\* To whom SendNotif sends, and how it ends.
LEMMA Sends ==
  ASSUME ChanType, NEW k \in Pns, NEW o \in Alive, NEW type, NEW nodeReq \in Nodes \cup {NoVal},
         NEW r \in Outcomes,
         SendNotif(k, o, type, nodeReq, r = "ok", r = "err", r = "hang")
  PROVE  \E S \in SUBSET Nodes : SentTo(S, o, Msg(k, o, type), nodeReq, r)
<1>. DEFINE m       == Msg(k, o, type)
            targets == IF nodeReq = NoVal THEN Nodes ELSE {nodeReq}
            chosen  == targets \cap Labelled
            Live(T) == {n \in T : Current(n)}
<1>1. o.spec \in Specs
  BY Constants DEF Alive
<1>2. o.spec.sel \in {"ALL", "ANY", "SPECIFIC", "OTHER"}
  BY <1>1 DEF Specs
<1>3. /\ targets \subseteq Nodes /\ chosen \subseteq Labelled /\ Labelled \subseteq Nodes
      /\ nodeReq # NoVal => targets = {nodeReq} /\ chosen \subseteq {nodeReq}
      /\ nodeReq = NoVal => targets = Nodes /\ chosen = Labelled
      /\ \A n \in Nodes : (nodeReq = NoVal \/ nodeReq = n) => n \in targets
  BY Constants
<1>4. UNCHANGED chan => Push({}, m)
  BY DEF ChanType, Push
<1>5. /\ o.spec.sel = "ALL" => Selected(o.spec) = Nodes
      /\ o.spec.sel = "SPECIFIC" => Selected(o.spec) = Labelled
      /\ o.spec.sel \in {"ANY", "OTHER"} => Selected(o.spec) = {}
  BY DEF Selected
<1>6. \/ ~Known(o.spec) /\ UNCHANGED chan /\ NoFault /\ r = "err"
      \/ Known(o.spec) /\ o.spec.sel = "OTHER" /\ UNCHANGED chan /\ NoFault /\ r = "ok"
      \/ Known(o.spec) /\ o.spec.sel = "ALL" /\ Push(Live(targets), m) /\ NoFault /\ r = "ok"
      \/ /\ Known(o.spec) /\ o.spec.sel = "SPECIFIC" /\ NoFault /\ chosen \cap broken = {}
         /\ Push(Live(chosen), m) /\ r = "ok"
      \/ /\ Known(o.spec) /\ o.spec.sel = "SPECIFIC" /\ NoFault /\ chosen \cap broken # {}
         /\ \E S \in SUBSET Live(chosen) : Push(S, m)
         /\ r = "err"
      \/ Known(o.spec) /\ o.spec.sel = "SPECIFIC" /\ Fault /\ UNCHANGED chan /\ r = "hang"
      \/ /\ Known(o.spec) /\ o.spec.sel = "ANY" /\ NoFault
         /\ \/ UNCHANGED chan
            \/ \E n \in Nodes : Push(Live({n}), m)
  BY DEF SendNotif, Msg, Known
<1>. HIDE DEF m, targets, chosen
<1>7. CASE ~Known(o.spec) /\ UNCHANGED chan /\ NoFault /\ r = "err"
  <2>1. SentTo({}, o, m, nodeReq, r)
    BY <1>4, <1>7 DEF SentTo
  <2>. QED
    BY <2>1 DEF m
<1>8. CASE Known(o.spec) /\ o.spec.sel = "ALL" /\ Push(Live(targets), m) /\ NoFault /\ r = "ok"
  <2>1. SentTo(Live(targets), o, m, nodeReq, r)
    BY <1>3, <1>5, <1>8 DEF SentTo
  <2>2. Live(targets) \in SUBSET Nodes
    BY <1>3
  <2>. QED
    BY <2>1, <2>2 DEF m
<1>9. CASE /\ Known(o.spec) /\ o.spec.sel = "SPECIFIC" /\ NoFault /\ chosen \cap broken = {}
           /\ Push(Live(chosen), m) /\ r = "ok"
  <2>1. \A n \in Labelled : (nodeReq = NoVal \/ nodeReq = n) => n \in chosen
    BY <1>3 DEF chosen
  <2>2. SentTo(Live(chosen), o, m, nodeReq, r)
    BY <1>3, <1>5, <1>9, <2>1 DEF SentTo
  <2>3. Live(chosen) \in SUBSET Nodes
    BY <1>3
  <2>. QED
    BY <2>2, <2>3 DEF m
<1>10. CASE /\ Known(o.spec) /\ o.spec.sel = "SPECIFIC" /\ NoFault /\ chosen \cap broken # {}
            /\ \E S \in SUBSET Live(chosen) : Push(S, m)
            /\ r = "err"
  <2>1. PICK S \in SUBSET Live(chosen) : Push(S, m)
    BY <1>10
  <2>2. SentTo(S, o, m, nodeReq, r)
    BY <1>3, <1>5, <1>10, <2>1 DEF SentTo
  <2>3. S \in SUBSET Nodes
    BY <1>3
  <2>. QED
    BY <2>2, <2>3 DEF m
<1>11. CASE Known(o.spec) /\ o.spec.sel = "SPECIFIC" /\ Fault /\ UNCHANGED chan /\ r = "hang"
  <2>1. SentTo({}, o, m, nodeReq, r)
    BY <1>4, <1>11 DEF SentTo
  <2>. QED
    BY <2>1 DEF m
<1>12. CASE /\ Known(o.spec) /\ o.spec.sel = "ANY" /\ NoFault
            /\ \/ UNCHANGED chan
               \/ \E n \in Nodes : Push(Live({n}), m)
  <2>1. ASSUME NEW S, Push(S, m), \A n \in S : Current(n) PROVE SentTo(S, o, m, nodeReq, r)
    BY <1>5, <1>12, <2>1 DEF SentTo
  <2>2. CASE UNCHANGED chan
    <3>1. SentTo({}, o, m, nodeReq, r)
      BY <1>4, <2>1, <2>2
    <3>. QED
      BY <3>1 DEF m
  <2>3. CASE \E n \in Nodes : Push(Live({n}), m)
    <3>1. PICK n \in Nodes : Push(Live({n}), m)
      BY <2>3
    <3>2. SentTo(Live({n}), o, m, nodeReq, r)
      BY <2>1, <3>1
    <3>3. Live({n}) \in SUBSET Nodes
      OBVIOUS
    <3>. QED
      BY <3>2, <3>3 DEF m
  <2>. QED
    BY <1>12, <2>2, <2>3
<1>13. CASE Known(o.spec) /\ o.spec.sel = "OTHER" /\ UNCHANGED chan /\ NoFault /\ r = "ok"
  <2>1. SentTo({}, o, m, nodeReq, r)
    BY <1>4, <1>5, <1>13 DEF SentTo
  <2>. QED
    BY <2>1 DEF m
<1>. QED
  BY <1>6, <1>7, <1>8, <1>9, <1>10, <1>11, <1>12, <1>13

\* Where the worker goes when SendNotif returned.
After(type, r) ==
  IF r = "hang" THEN "hung"
  ELSE IF type = "remove" THEN "ovnDelete"
  ELSE IF r = "ok" THEN "statusCreated" ELSE "statusError"

\* The worker sends to the nodes of S.
Notified(S, type, r) ==
  /\ pc = IF type = "create" THEN "notifyCreate" ELSE "notifyDelete"
  /\ SentTo(S, cr, Msg(req, cr, type), NoVal, r)
  /\ Goto(After(type, r))
  /\ UNCHANGED <<kubeVars, ovnVars, serverVars, agentVars, unlisted, displaced, bounds>>
  /\ leftover \subseteq leftover' /\ leftover' \subseteq Nodes
  /\ type = "remove" /\ cr.spec.sel = "SPECIFIC" /\ Labelled \cap broken # {}
       => Labelled \subseteq leftover'

\* To whom NotifyCreate and NotifyDelete send, and where the worker goes then.
LEMMA Notifies ==
  ASSUME IInv, NotifyCreate \/ NotifyDelete
  PROVE  \E S \in SUBSET Nodes, type \in {"create", "remove"}, r \in Outcomes :
           Notified(S, type, r)
<1>1. ChanType /\ req \in Pns /\ cr \in Alive /\ leftover \subseteq Nodes
  BY TypeParts DEF IInv, WorkerType, AgentType, NotifyCreate, NotifyDelete
<1>2. Labelled \subseteq Nodes /\ NoVal \in Nodes \cup {NoVal}
  BY Constants
<1>3. CASE NotifyCreate
  <2>1. PICK r \in Outcomes :
          /\ SendNotif(req, cr, "create", NoVal, r = "ok", r = "err", r = "hang")
          /\ Goto(After("create", r))
    <3>1. \/ SendNotif(req, cr, "create", NoVal, Goto("statusCreated"), FALSE, FALSE)
          \/ SendNotif(req, cr, "create", NoVal, FALSE, Goto("statusError"), FALSE)
          \/ SendNotif(req, cr, "create", NoVal, FALSE, FALSE, Goto("hung"))
      BY <1>3 DEF NotifyCreate, SendNotif
    <3>2. ASSUME SendNotif(req, cr, "create", NoVal, Goto("statusCreated"), FALSE, FALSE)
          PROVE  /\ SendNotif(req, cr, "create", NoVal, "ok" = "ok", "ok" = "err", "ok" = "hang")
                 /\ Goto(After("create", "ok"))
      BY <3>2 DEF SendNotif, After
    <3>3. ASSUME SendNotif(req, cr, "create", NoVal, FALSE, Goto("statusError"), FALSE)
          PROVE  /\ SendNotif(req, cr, "create", NoVal, "err" = "ok", "err" = "err", "err" = "hang")
                 /\ Goto(After("create", "err"))
      BY <3>3 DEF SendNotif, After
    <3>4. ASSUME SendNotif(req, cr, "create", NoVal, FALSE, FALSE, Goto("hung"))
          PROVE  /\ SendNotif(req, cr, "create", NoVal, "hang" = "ok", "hang" = "err", "hang" = "hang")
                 /\ Goto(After("create", "hang"))
      BY <3>4 DEF SendNotif, After
    <3>. QED
      BY <3>1, <3>2, <3>3, <3>4 DEF Outcomes
  <2>2. PICK S \in SUBSET Nodes : SentTo(S, cr, Msg(req, cr, "create"), NoVal, r)
    BY <1>1, <1>2, <2>1, Sends
  <2>3. Notified(S, "create", r)
    BY <1>1, <1>3, <2>1, <2>2 DEF Notified, NotifyCreate, history
  <2>. QED
    BY <2>3
<1>4. CASE NotifyDelete
  <2>1. PICK r \in Outcomes :
          /\ SendNotif(req, cr, "remove", NoVal, r = "ok", r = "err", r = "hang")
          /\ Goto(After("remove", r))
    <3>1. \/ SendNotif(req, cr, "remove", NoVal, Goto("ovnDelete"), FALSE, FALSE)
          \/ SendNotif(req, cr, "remove", NoVal, FALSE, Goto("ovnDelete"), FALSE)
          \/ SendNotif(req, cr, "remove", NoVal, FALSE, FALSE, Goto("hung"))
      BY <1>4 DEF NotifyDelete, SendNotif
    <3>2. ASSUME SendNotif(req, cr, "remove", NoVal, Goto("ovnDelete"), FALSE, FALSE)
          PROVE  /\ SendNotif(req, cr, "remove", NoVal, "ok" = "ok", "ok" = "err", "ok" = "hang")
                 /\ Goto(After("remove", "ok"))
      BY <3>2 DEF SendNotif, After
    <3>3. ASSUME SendNotif(req, cr, "remove", NoVal, FALSE, Goto("ovnDelete"), FALSE)
          PROVE  /\ SendNotif(req, cr, "remove", NoVal, "err" = "ok", "err" = "err", "err" = "hang")
                 /\ Goto(After("remove", "err"))
      BY <3>3 DEF SendNotif, After
    <3>4. ASSUME SendNotif(req, cr, "remove", NoVal, FALSE, FALSE, Goto("hung"))
          PROVE  /\ SendNotif(req, cr, "remove", NoVal, "hang" = "ok", "hang" = "err", "hang" = "hang")
                 /\ Goto(After("remove", "hang"))
      BY <3>4 DEF SendNotif, After
    <3>. QED
      BY <3>1, <3>2, <3>3, <3>4 DEF Outcomes
  <2>2. PICK S \in SUBSET Nodes : SentTo(S, cr, Msg(req, cr, "remove"), NoVal, r)
    BY <1>1, <1>2, <2>1, Sends
  <2>3. Notified(S, "remove", r)
    BY <1>1, <1>2, <1>4, <2>1, <2>2 DEF Notified, NotifyDelete
  <2>. QED
    BY <2>3
<1>. QED
  BY <1>3, <1>4

\* The worker tells the nodes: of a creation those that are selected, none of which
\* it forgets; of a removal the same ones, or the failure is on record.
LEMMA NotifyInv == ASSUME IInv, NotifyCreate \/ NotifyDelete PROVE IInv'
<1>1. KubeType /\ WorkerType /\ OvnType /\ ServerType /\ AgentType /\ ChanType /\ TablesType
      /\ CountType
  BY TypeParts DEF IInv
<1>2. PICK S \in SUBSET Nodes, type \in {"create", "remove"}, r \in Outcomes :
        Notified(S, type, r)
  BY Notifies
<1>. DEFINE m == Msg(req, cr, type)
<1>3. /\ pc = IF type = "create" THEN "notifyCreate" ELSE "notifyDelete"
      /\ SentTo(S, cr, m, NoVal, r)
      /\ pc' = After(type, r) /\ UNCHANGED <<req, cr, queue>>
      /\ UNCHANGED <<kubeVars, ovnVars, serverVars, agentVars, unlisted, displaced, bounds>>
      /\ leftover \subseteq leftover' /\ leftover' \subseteq Nodes
  BY <1>2 DEF Notified, Goto
<1>4. UNCHANGED <<api, cache, pending, clients, broken, subs, stream, up, inSync, bridges, seen,
                  store, unlisted, nodeVars>>
  BY <1>3 DEF kubeVars, serverVars, agentVars, nodeVars
<1>5. /\ req \in Pns /\ cr \in Alive /\ CopyInv
      /\ pc = "notifyCreate" => ~cr.del /\ cr.fin /\ api[req].fin
      /\ api[req].fin => cr.inc = api[req].inc /\ cr.spec = api[req].spec
  BY <1>1, <1>3 DEF WorkerType, IInv, CopyInv, CreatePcs
<1>6. m \in Messages /\ m.type = type /\ m.pn = req /\ m.inc = cr.inc /\ m.spec = cr.spec
  BY <1>5, MsgType
<1>. HIDE DEF m
<1>7. /\ ChanType'
      /\ \A n \in Nodes : chan'[n] = IF n \in S THEN Append(chan[n], m) ELSE chan[n]
  <2>1. Push(S, m)
    BY <1>3 DEF SentTo
  <2>. QED
    BY <1>1, <1>6, <2>1, PushType
<1>8. \A n \in Nodes : chan[n] \in Seq(Messages)
  BY <1>1 DEF ChanType
<1>9. KubeType' /\ KubeInv' /\ SubsInv' /\ ListInv'
  BY <1>1, <1>3, <1>4, TypeKept, KubeStutter DEF IInv, SubsInv, ListInv
<1>10. TypeOK'
  <2>1. CountType'
    BY <1>1, <1>3, FaultCounted DEF SentTo
  <2>2. WorkerType'
    BY <1>1, <1>3, <1>5 DEF WorkerType, After, Pcs
  <2>3. AgentType'
    BY <1>1, <1>3, <1>4 DEF AgentType
  <2>. QED
    BY <1>1, <1>3, <1>4, <1>7, <1>9, <2>1, <2>2, <2>3, TypeKept, TypePartsNext
    DEF serverVars
<1>11. CopyInv'
  <2>1. Versions(req)' = Versions(req)
    BY <1>3, <1>4 DEF Versions
  <2>. QED
    BY <1>3, <1>4, <1>5, <2>1 DEF CopyInv, CreatePcs, DeletePcs, After
<1>12. ASSUME NEW n \in Nodes PROVE Current(n)' = Current(n) /\ Running(n)' = Running(n)
  BY <1>4 DEF Current, Running
<1>13. ToldInv'
  <2>. SUFFICES ASSUME NEW k \in Pns, Announced(k)'
                PROVE  /\ Known(api[k].spec)
                       /\ \A n \in Selected(api[k].spec) :
                            Current(n) => Told(k, api[k].inc, n)'
    BY <1>4, <1>12 DEF ToldInv, Selected, Current, Told
  <2>1. ASSUME Announced(k)
        PROVE  /\ Known(api[k].spec)
               /\ \A n \in Selected(api[k].spec) : Current(n) => Told(k, api[k].inc, n)'
    <3>1. Known(api[k].spec)
      BY <2>1 DEF IInv, ToldInv
    <3>2. ASSUME NEW n \in Selected(api[k].spec), Current(n) PROVE Told(k, api[k].inc, n)'
      <4>1. Told(k, api[k].inc, n)
        BY <2>1, <3>2 DEF IInv, ToldInv
      <4>2. n \in Nodes
        BY Constants DEF Selected
      <4>3. Creates(chan[n], k, api[k].inc) => Creates(chan'[n], k, api[k].inc)
        BY <1>1, <1>6, <1>7, <4>2, PushFacts
      <4>. QED
        BY <1>4, <4>1, <4>3 DEF Told
    <3>. QED
      BY <3>1, <3>2
  <2>2. ASSUME ~Announced(k)
        PROVE  /\ Known(api[k].spec)
               /\ \A n \in Selected(api[k].spec) : Current(n) => Told(k, api[k].inc, n)'
    <3>1. pc' = "statusCreated" /\ req = k
      BY <1>3, <1>4, <2>2 DEF Announced
    <3>2. type = "create" /\ r = "ok" /\ pc = "notifyCreate"
      BY <1>3, <3>1 DEF After
    <3>3. cr.spec = api[k].spec /\ cr.inc = api[k].inc
      BY <1>5, <3>1, <3>2
    <3>4. Known(cr.spec) /\ \A n \in Selected(cr.spec) : Current(n) => n \in S
      BY <1>3, <3>2 DEF SentTo
    <3>5. ASSUME NEW n \in Selected(api[k].spec), Current(n) PROVE Told(k, api[k].inc, n)'
      <4>1. n \in S /\ n \in Nodes
        BY <3>3, <3>4, <3>5
      <4>2. Creates(chan'[n], k, api[k].inc)
        BY <1>1, <1>6, <1>7, <3>1, <3>2, <3>3, <4>1, PushFacts
      <4>. QED
        BY <1>4, <4>2 DEF Told
    <3>. QED
      BY <3>3, <3>4, <3>5
  <2>. QED
    BY <2>1, <2>2
<1>14. ASSUME NEW n \in Nodes PROVE StreamInv(n)'
  <2>1. StreamInv(n)
    BY DEF IInv, NodeInv
  <2>2. n \in S => up[n]
    BY <1>3 DEF SentTo, Current
  <2>3. Synced(chan'[n]) => Synced(chan[n])
    BY <1>1, <1>6, <1>7, PushFacts
  <2>4. OneSync(chan[n]) => OneSync(chan'[n])
    BY <1>1, <1>6, <1>7, PushFacts
  <2>. QED
    BY <1>4, <1>7, <1>12, <2>1, <2>2, <2>3, <2>4 DEF StreamInv
<1>15. ASSUME NEW n \in Nodes, NEW k \in Pns, NEW sp \in Specs, Settled(n)', Removed(sp),
              Owned(k, sp, n), n \in S => ~Removes(m, k)
       PROVE  Owned(k, sp, n)'
  <2>1. CASE Past(k)'
    <3>1. pc' = "ovnDelete" /\ req = k /\ type = "remove" /\ r \in {"ok", "err"}
      BY <1>3, <2>1 DEF Past, After, Outcomes
    <3>2. sp = cr.spec /\ Known(sp) /\ n \in Selected(sp) /\ sp.sel # "ANY"
      BY <1>5, <1>15, <3>1 DEF Owned, Removed
    <3>3. Current(n) /\ n \notin leftover'
      BY <1>12, <1>15 DEF Settled
    <3>4. r # "ok"
      BY <1>3, <1>6, <1>15, <3>1, <3>2, <3>3 DEF SentTo, Removes, Removed
    <3>5. sp.sel = "SPECIFIC" /\ Labelled \cap broken # {}
      BY <1>3, <3>1, <3>2, <3>4 DEF SentTo
    <3>6. Labelled \subseteq leftover' /\ n \in Labelled
      BY <1>2, <3>1, <3>2, <3>5 DEF Notified, Selected
    <3>. QED
      BY <3>3, <3>6
  <2>2. CASE ~Past(k)'
    BY <1>4, <1>15, <2>2 DEF Owned
  <2>. QED
    BY <2>1, <2>2
<1>16. ASSUME NEW n \in Nodes, Settled(n)' PROVE Settled(n)
  BY <1>3, <1>12, <1>16 DEF Settled
<1>17. ASSUME NEW n \in Nodes PROVE BridgeInv(n)'
  <2>. SUFFICES ASSUME Settled(n)', inSync[n], NEW k \in Pns, Removed(bridges[n][k]),
                       Stays(chan'[n], k)
                PROVE  Owned(k, bridges[n][k], n)'
    BY <1>4 DEF BridgeInv
  <2>1. Stays(chan[n], k) /\ (n \in S => ~Removes(m, k))
    BY <1>1, <1>6, <1>7, PushFacts
  <2>2. Owned(k, bridges[n][k], n)
    BY <1>16, <2>1 DEF IInv, NodeInv, BridgeInv
  <2>3. bridges[n][k] \in Specs
    BY <1>1 DEF TablesType, Tables, Removed
  <2>4. \A sp \in Specs : sp = bridges[n][k] => Owned(k, sp, n)'
    BY <1>15, <2>1, <2>2
  <2>. QED
    BY <1>4, <2>3, <2>4
<1>18. ASSUME NEW n \in Nodes PROVE QueueInv(n)'
  <2>. SUFFICES ASSUME Settled(n)', NEW k \in Pns, NEW sp \in Specs, Removed(sp),
                       Comes(chan'[n], k, sp)
                PROVE  Owned(k, sp, n)'
    BY DEF QueueInv
  <2>1. CASE Comes(chan[n], k, sp) /\ (n \in S => ~Removes(m, k))
    <3>1. Owned(k, sp, n)
      BY <1>16, <2>1 DEF IInv, NodeInv, QueueInv
    <3>. QED
      BY <1>15, <2>1, <3>1
  <2>2. CASE n \in S /\ m.type = "create" /\ m.pn = k /\ m.spec = sp
    <3>1. type = "create" /\ pc = "notifyCreate" /\ req = k /\ cr.spec = sp
      BY <1>3, <1>6, <2>2
    <3>2. api[k].fin /\ api[k].spec = sp
      BY <1>5, <3>1
    <3>3. Known(sp) /\ n \in Selected(sp)
      BY <1>3, <2>2, <3>1 DEF SentTo, Removed
    <3>4. ~Past(k)'
      BY <1>3, <3>1 DEF Past, After
    <3>. QED
      BY <1>4, <3>2, <3>3, <3>4 DEF Owned
  <2>. QED
    BY <1>1, <1>6, <1>7, <2>1, <2>2, PushFacts
<1>. QED
  BY <1>9, <1>10, <1>11, <1>13, <1>14, <1>17, <1>18 DEF IInv, NodeInv

(***************************************************************************)
(* Steps of the server and the agents: what they leave alone.              *)
(***************************************************************************)
kubeState == <<kubeVars, queue, workerVars, ovnVars>>

\* Store, watch, worker and OVN are left alone.
LEMMA Outside ==
  ASSUME IInv, UNCHANGED kubeState
  PROVE  /\ KubeType' /\ WorkerType' /\ OvnType' /\ KubeInv' /\ CopyInv' /\ api' = api
         /\ \A k : Announced(k)' <=> Announced(k)
         /\ \A k, sp, n : Owned(k, sp, n) => Owned(k, sp, n)'
<1>1. KubeType /\ WorkerType /\ OvnType
  BY TypeParts DEF IInv
<1>2. UNCHANGED <<kubeVars, queue, workerVars, ovnVars>> /\ UNCHANGED <<api, cache, pending, pc, req, cr>>
  BY DEF kubeState, kubeVars, workerVars
<1>3. KubeType' /\ WorkerType' /\ OvnType' /\ KubeInv'
  BY <1>1, <1>2, TypeKept, KubeStutter DEF IInv
<1>4. CopyInv'
  BY <1>2 DEF IInv, CopyInv, Versions
<1>5. \A k : Announced(k)' <=> Announced(k)
  BY <1>2 DEF Announced
<1>6. \A k, sp, n : Owned(k, sp, n) => Owned(k, sp, n)'
  BY <1>2 DEF Owned, Past
<1>. QED
  BY <1>2, <1>3, <1>4, <1>5, <1>6

\* What is said of node n.
NodeAll(n) == StreamInv(n) /\ BridgeInv(n) /\ QueueInv(n)

\* The server's and the agent's state of n is left alone.
SameNode(n) ==
  /\ clients'[n] = clients[n] /\ (n \in broken' => n \in broken)
  /\ stream'[n] = stream[n] /\ up'[n] = up[n] /\ inSync'[n] = inSync[n]
  /\ bridges'[n] = bridges[n] /\ chan'[n] = chan[n]
  /\ Running(n)' <=> Running(n)
  /\ n \in leftover => n \in leftover'

\* What is said of a node holds on while its state is left alone.
LEMMA NodeSame ==
  ASSUME IInv, UNCHANGED kubeState, NEW n \in Nodes, SameNode(n) PROVE NodeAll(n)'
<1>1. StreamInv(n) /\ BridgeInv(n) /\ QueueInv(n)
  BY DEF IInv, NodeInv
<1>2. Current(n)' <=> Current(n)
  BY DEF SameNode, Current
<1>3. StreamInv(n)'
  BY <1>1, <1>2 DEF SameNode, StreamInv
<1>4. Settled(n)' => Settled(n)
  BY <1>2 DEF Settled, SameNode
<1>5. BridgeInv(n)'
  BY <1>1, <1>4, Outside DEF BridgeInv, SameNode
<1>6. QueueInv(n)'
  BY <1>1, <1>4, Outside DEF QueueInv, SameNode
<1>. QED
  BY <1>3, <1>5, <1>6 DEF NodeAll

\* The agent of n is gone.
LEMMA NodeDead ==
  ASSUME NEW n \in Nodes, ~up'[n], chan'[n] = <<>>, ~inSync'[n],
         clients'[n] # NoVal => clients'[n] <= stream'[n]
  PROVE  NodeAll(n)'
<1>1. ~Current(n)'
  BY DEF Current
<1>2. ~Synced(chan'[n]) /\ OneSync(chan'[n])
  BY DEF Synced, OneSync
<1>. QED
  BY <1>1, <1>2 DEF NodeAll, StreamInv, BridgeInv, QueueInv, Settled

\* The Subscribe call of the agent's stream.
SubsOf(n) == {s \in subs : s.node = n /\ s.stream = stream[n]}

\* A stream's Subscribe call is running while it is there.
LEMMA RunningSubs ==
  ASSUME NEW n
  PROVE  /\ Running(n) <=> SubsOf(n) # {}
         /\ Running(n)' <=> SubsOf(n)' # {}
BY DEF Running, SubsOf

\* An agent that was told stays told, if nothing that counts is lost.
LEMMA ToldSame ==
  ASSUME NEW n, NEW k, NEW i, Told(k, i, n),
         <<k, i>> \in seen[n] => <<k, i>> \in seen'[n],
         Creates(chan[n], k, i) => Creates(chan'[n], k, i),
         SubsOf(n) \subseteq SubsOf(n)', n \in unlisted => n \in unlisted'
  PROVE  Told(k, i, n)'
<1>1. CASE <<k, i>> \in seen[n] \/ Creates(chan[n], k, i) \/ n \in unlisted
  BY <1>1 DEF Told
<1>2. CASE \E s \in subs : s.node = n /\ s.stream = stream[n] /\ WillTell(s, k, i)
  <2>1. PICK s \in SubsOf(n) : WillTell(s, k, i)
    BY <1>2 DEF SubsOf
  <2>2. s \in SubsOf(n)'
    BY <2>1
  <2>. QED
    BY <2>1, <2>2 DEF Told, SubsOf
<1>. QED
  BY <1>1, <1>2 DEF Told

\* ToldInv, node by node.
ToldStep(n) ==
  Current(n)' => \A k \in Pns :
    (/\ Announced(k) /\ Known(api[k].spec) /\ n \in Selected(api[k].spec)
     /\ Current(n) => Told(k, api[k].inc, n))
      => Told(k, api[k].inc, n)'

\* ToldInv is kept when every node keeps its part.
LEMMA ToldNodes ==
  ASSUME IInv, UNCHANGED kubeState, \A n \in Nodes : ToldStep(n) PROVE ToldInv'
<1>1. api' = api /\ \A k : Announced(k)' <=> Announced(k)
  BY Outside
<1>. SUFFICES ASSUME NEW k \in Pns, Announced(k)
              PROVE  (/\ Known(api[k].spec)
                      /\ \A n \in Selected(api[k].spec) :
                           Current(n) => Told(k, api[k].inc, n))'
  BY <1>1 DEF ToldInv
<1>2. /\ Known(api[k].spec)
      /\ \A n \in Selected(api[k].spec) : Current(n) => Told(k, api[k].inc, n)
  BY DEF IInv, ToldInv
<1>3. ASSUME NEW n \in Selected(api[k].spec), Current(n)' PROVE Told(k, api[k].inc, n)'
  <2>1. n \in Nodes
    BY Constants DEF Selected
  <2>. QED
    BY <1>2, <1>3, <2>1 DEF ToldStep
<1>. QED
  BY <1>1, <1>2, <1>3

\* A node of which nothing that counts is lost.
LEMMA ToldKept ==
  ASSUME NEW n \in Nodes, Current(n)' => Current(n), api' = api,
         \A k, i : <<k, i>> \in seen[n] => <<k, i>> \in seen'[n],
         \A k, i : Creates(chan[n], k, i) => Creates(chan'[n], k, i),
         SubsOf(n) \subseteq SubsOf(n)', n \in unlisted => n \in unlisted'
  PROVE  ToldStep(n)
<1>1. ASSUME NEW k \in Pns, NEW i, Told(k, i, n) PROVE Told(k, i, n)'
  BY <1>1, ToldSame
<1>. QED
  BY <1>1 DEF ToldStep

\* The parts of the invariant that a step of the server or an agent can disturb.
LEMMA ServerStep ==
  ASSUME IInv, UNCHANGED kubeState,
         ServerType', AgentType', ChanType', TablesType', CountType', SubsInv', ListInv',
         \A n \in Nodes : ToldStep(n) /\ NodeAll(n)'
  PROVE  IInv'
<1>1. KubeType' /\ WorkerType' /\ OvnType' /\ KubeInv' /\ CopyInv'
  BY Outside
<1>2. TypeOK'
  BY <1>1, TypePartsNext
<1>3. ToldInv'
  BY ToldNodes
<1>4. NodeInv'
  BY DEF NodeInv, NodeAll
<1>. QED
  BY <1>1, <1>2, <1>3, <1>4 DEF IInv

(***************************************************************************)
(* Steps of the server.                                                    *)
(***************************************************************************)

\* The transport finds a stream dead that no agent reads.
LEMMA NoticeBrokenInv == ASSUME IInv, NEW x \in Nodes, NoticeBroken(x) PROVE IInv'
<1>1. ServerType /\ AgentType /\ ChanType /\ TablesType /\ CountType
  BY TypeParts DEF IInv
<1>2. UNCHANGED kubeState
  BY DEF NoticeBroken, kubeState
<1>3. /\ UNCHANGED <<clients, subs, stream, up, inSync, store, seen, bridges, chan, history>>
      /\ UNCHANGED <<nodeVars, faults, bounds>> /\ UNCHANGED <<unlisted, leftover, api>>
      /\ broken' = broken \cup {x} /\ ~Current(x)
  BY DEF NoticeBroken, agentVars, nodeVars, history, kubeVars
<1>4. ServerType' /\ AgentType' /\ ChanType' /\ TablesType' /\ CountType'
  BY <1>1, <1>3, TypeKept DEF ServerType
<1>5. SubsInv' /\ ListInv'
  BY <1>3 DEF IInv, SubsInv, ListInv
<1>6. ASSUME NEW n \in Nodes PROVE SubsOf(n)' = SubsOf(n) /\ (Current(n)' <=> Current(n))
  BY <1>3 DEF SubsOf, Current
<1>7. ASSUME NEW n \in Nodes PROVE ToldStep(n)
  BY <1>3, <1>6, ToldKept
<1>8. ASSUME NEW n \in Nodes PROVE NodeAll(n)'
  <2>1. CASE n # x
    <3>1. SameNode(n)
      BY <1>3, <1>6, <2>1, RunningSubs DEF SameNode
    <3>. QED
      BY <1>2, <3>1, NodeSame
  <2>2. CASE n = x
    <3>1. ~Current(n)'
      BY <1>3, <1>6, <2>2
    <3>2. StreamInv(n)'
      <4>1. Running(n)' <=> Running(n)
        BY <1>6, RunningSubs
      <4>. QED
        BY <1>3, <3>1, <4>1 DEF IInv, NodeInv, StreamInv
    <3>. QED
      BY <3>1, <3>2 DEF NodeAll, BridgeInv, QueueInv, Settled
  <2>. QED
    BY <2>1, <2>2
<1>. QED
  BY <1>2, <1>4, <1>5, <1>7, <1>8, ServerStep

\* A node whose agent is up but whose stream is not in clientList.
LEMMA NodeApart ==
  ASSUME NEW n \in Nodes, ~Current(n)', clients'[n] # NoVal => clients'[n] <= stream'[n],
         ~inSync'[n], ~Synced(chan'[n]), up'[n] \/ chan'[n] = <<>>
  PROVE  NodeAll(n)'
<1>1. OneSync(chan'[n])
  BY DEF Synced, OneSync
<1>. QED
  BY <1>1 DEF NodeAll, StreamInv, BridgeInv, QueueInv, Settled

\* An agent starts: its stream is new and in clientList yet to come.
LEMMA AgentSubscribeInv == ASSUME IInv, NEW x \in Nodes, AgentSubscribe(x) PROVE IInv'
<1>. DEFINE t == [node |-> x, stream |-> stream[x] + 1, step |-> "register", list |-> {}]
<1>1. ServerType /\ AgentType /\ ChanType /\ TablesType /\ CountType
  BY TypeParts DEF IInv
<1>2. UNCHANGED kubeState
  BY DEF AgentSubscribe, kubeState
<1>3. /\ UNCHANGED <<clients, broken, inSync, store, seen, bridges, chan>>
      /\ UNCHANGED <<nodeVars, faults, bounds>> /\ UNCHANGED <<unlisted, leftover, displaced, api>>
      /\ UNCHANGED history
      /\ up' = [up EXCEPT ![x] = TRUE] /\ stream' = [stream EXCEPT ![x] = @ + 1]
      /\ subs' = subs \cup {t} /\ ~up[x]
  BY DEF AgentSubscribe, nodeVars, history, kubeVars
<1>4. stream[x] \in Nat /\ stream[x] + 1 \in Nat
  BY <1>1 DEF ServerType
<1>5. t \in Calls /\ t.node = x /\ t.stream = stream[x] + 1 /\ t.list = {}
  BY <1>4 DEF Calls
<1>. HIDE DEF t
<1>6. /\ stream'[x] = stream[x] + 1 /\ up'[x]
      /\ \A n \in Nodes : n # x => stream'[n] = stream[n] /\ up'[n] = up[n]
  BY <1>1, <1>3 DEF ServerType, AgentType
<1>7. ServerType' /\ AgentType' /\ ChanType' /\ TablesType' /\ CountType'
  <2>1. ServerType'
    BY <1>1, <1>3, <1>4, <1>5 DEF ServerType
  <2>2. AgentType'
    BY <1>1, <1>3 DEF AgentType
  <2>. QED
    BY <1>1, <1>3, <2>1, <2>2, TypeKept
<1>8. \A s \in subs : s.node \in Nodes /\ s.stream \in Nat /\ s.stream <= stream[s.node]
  BY <1>1 DEF IInv, SubsInv, ServerType, Calls
<1>9. SubsInv'
  <2>1. ASSUME NEW s \in subs' PROVE s.stream <= stream'[s.node]
    <3>1. CASE s \in subs
      <4>1. stream[s.node] \in Nat /\ stream[s.node] <= stream'[s.node]
            /\ stream'[s.node] \in Nat
        BY <1>1, <1>4, <1>6, <1>7, <1>8, <3>1 DEF ServerType
      <4>. QED
        BY <1>8, <3>1, <4>1
    <3>2. CASE s = t
      BY <1>4, <1>5, <1>6, <3>2
    <3>. QED
      BY <1>3, <3>1, <3>2
  <2>2. ASSUME NEW s \in subs, s.node = x PROVE s.stream # stream[x] + 1
    BY <1>4, <1>8, <2>2
  <2>. QED
    BY <1>3, <1>5, <2>1, <2>2 DEF IInv, SubsInv
<1>10. ListInv'
  BY <1>3, <1>5 DEF IInv, ListInv
<1>11. ~Current(x)'
  <2>1. clients[x] \in Nat \cup {NoVal} /\ (clients[x] # NoVal => clients[x] <= stream[x])
    BY <1>1 DEF IInv, NodeInv, StreamInv, ServerType
  <2>. QED
    BY <1>3, <1>4, <1>6, <2>1, Constants DEF Current
<1>12. ASSUME NEW n \in Nodes, n # x
       PROVE  SubsOf(n)' = SubsOf(n) /\ (Current(n)' <=> Current(n))
  BY <1>3, <1>5, <1>6, <1>12 DEF SubsOf, Current
<1>13. ASSUME NEW n \in Nodes PROVE ToldStep(n)
  <2>1. CASE n = x
    BY <1>11, <2>1 DEF ToldStep
  <2>2. CASE n # x
    BY <1>3, <1>12, <2>2, ToldKept
  <2>. QED
    BY <2>1, <2>2
<1>14. ASSUME NEW n \in Nodes PROVE NodeAll(n)'
  <2>1. CASE n # x
    <3>1. SameNode(n)
      BY <1>3, <1>6, <1>12, <2>1, RunningSubs DEF SameNode
    <3>. QED
      BY <1>2, <3>1, NodeSame
  <2>2. CASE n = x
    <3>1. chan[x] = <<>> /\ ~inSync[x]
      BY <1>3 DEF IInv, NodeInv, StreamInv
    <3>2. ~Synced(chan[x])
      BY <3>1 DEF Synced
    <3>3. clients[x] # NoVal => clients[x] <= stream'[x]
      <4>1. clients[x] \in Nat \cup {NoVal} /\ (clients[x] # NoVal => clients[x] <= stream[x])
        BY <1>1 DEF IInv, NodeInv, StreamInv, ServerType
      <4>. QED
        BY <1>4, <1>6, <4>1
    <3>. QED
      BY <1>3, <1>6, <1>11, <2>2, <3>1, <3>2, <3>3, NodeApart
  <2>. QED
    BY <2>1, <2>2
<1>. QED
  BY <1>2, <1>7, <1>9, <1>10, <1>13, <1>14, ServerStep

\* A Subscribe call moves on, and no other one is touched.
LEMMA ReplaceFacts ==
  ASSUME ServerType, SubsInv, NEW s \in subs, NEW t \in Calls, Replace(s, t), stream' = stream,
         t.node = s.node, t.stream = s.stream
  PROVE  /\ subs' \subseteq Calls /\ SubsInv' /\ s.node \in Nodes /\ s.stream \in Nat
         /\ s.stream <= stream[s.node]
         /\ \A n \in Nodes : Running(n)' <=> Running(n)
         /\ \A n \in Nodes : n # s.node \/ stream[n] # s.stream => SubsOf(n)' = SubsOf(n)
         /\ stream[s.node] = s.stream => t \in SubsOf(s.node)' /\ Running(s.node)
         /\ \A u \in subs' : u = t \/ u \in subs
<1>1. subs' = (subs \ {s}) \cup {t}
  BY DEF Replace
<1>2. subs' \subseteq Calls /\ s.node \in Nodes /\ s.stream \in Nat /\ s.stream <= stream[s.node]
  BY <1>1 DEF ServerType, Calls, SubsInv
<1>3. SubsInv'
  BY <1>1 DEF SubsInv
<1>4. \A n \in Nodes : Running(n)' <=> Running(n)
  BY <1>1 DEF Running
<1>5. \A n \in Nodes : n # s.node \/ stream[n] # s.stream => SubsOf(n)' = SubsOf(n)
  BY <1>1 DEF SubsOf
<1>6. stream[s.node] = s.stream => t \in SubsOf(s.node)' /\ Running(s.node)
  BY <1>1 DEF SubsOf, Running
<1>. QED
  BY <1>1, <1>2, <1>3, <1>4, <1>5, <1>6

\* The steps of a Subscribe call.
LEMMA CallType ==
  ASSUME NEW s \in Calls
  PROVE  /\ \A e \in {"register", "list", "send", "hung"} :
              /\ [s EXCEPT !.step = e] \in Calls
              /\ [s EXCEPT !.step = e].node = s.node /\ [s EXCEPT !.step = e].stream = s.stream
              /\ [s EXCEPT !.step = e].step = e /\ [s EXCEPT !.step = e].list = s.list
         /\ \A l \in SUBSET (Pns \X Alive) :
              /\ [s EXCEPT !.list = l] \in Calls
              /\ [s EXCEPT !.list = l].node = s.node /\ [s EXCEPT !.list = l].stream = s.stream
              /\ [s EXCEPT !.list = l].step = s.step /\ [s EXCEPT !.list = l].list = l
BY DEF Calls

\* Agents of D die: their types and those of the others.
LEMMA DieType ==
  ASSUME AgentType, ChanType, NEW D \in SUBSET Nodes, Die(D)
  PROVE  /\ AgentType' /\ ChanType'
         /\ \A n \in D : ~up'[n] /\ chan'[n] = <<>> /\ ~inSync'[n]
         /\ \A n \in Nodes : n \notin D =>
              /\ up'[n] = up[n] /\ chan'[n] = chan[n] /\ inSync'[n] = inSync[n]
              /\ seen'[n] = seen[n] /\ (n \in unlisted' <=> n \in unlisted)
              /\ (n \in leftover' <=> n \in leftover)
<1>1. AgentType'
  BY DEF AgentType, Die
<1>2. ChanType'
  <2>1. <<>> \in Seq(Messages) /\ Len(<<>>) = 0 /\ 0 <= MaxChan
    BY Constants
  <2>2. \A n \in Nodes : chan'[n] = IF n \in D THEN <<>> ELSE chan[n]
    BY DEF Die
  <2>3. chan' \in [Nodes -> Seq(Messages)]
    BY <2>1 DEF Die, ChanType
  <2>. QED
    BY <2>1, <2>2, <2>3 DEF ChanType
<1>. QED
  BY <1>1, <1>2 DEF Die, AgentType

\* Agents of D die, and at most their Subscribe calls end.
LEMMA DieInv ==
  ASSUME IInv, UNCHANGED kubeState, NEW D \in SUBSET Nodes, Die(D), CountType',
         UNCHANGED <<clients, broken, stream, nodeVars>>, subs' \subseteq subs,
         \A n \in Nodes : n \notin D => SubsOf(n)' = SubsOf(n)
  PROVE  IInv'
<1>1. ServerType /\ AgentType /\ ChanType /\ TablesType
  BY TypeParts DEF IInv
<1>2. api' = api /\ bridges' = bridges /\ UNCHANGED <<clients, broken, stream>>
  BY Outside DEF nodeVars
<1>3. ServerType' /\ TablesType' /\ AgentType' /\ ChanType'
  <2>1. ServerType'
    BY <1>1, <1>2 DEF ServerType
  <2>2. TablesType'
    BY <1>1, TypeKept
  <2>. QED
    BY <1>1, <2>1, <2>2, DieType
<1>4. SubsInv' /\ ListInv'
  BY <1>2 DEF IInv, SubsInv, ListInv
<1>5. ASSUME NEW n \in Nodes PROVE ToldStep(n) /\ NodeAll(n)'
  <2>1. CASE n \in D
    <3>1. ~up'[n] /\ chan'[n] = <<>> /\ ~inSync'[n]
      BY <1>1, <2>1, DieType
    <3>2. clients'[n] # NoVal => clients'[n] <= stream'[n]
      BY <1>2 DEF IInv, NodeInv, StreamInv
    <3>. QED
      BY <3>1, <3>2, NodeDead DEF ToldStep, Current
  <2>2. CASE n \notin D
    <3>1. /\ up'[n] = up[n] /\ chan'[n] = chan[n] /\ inSync'[n] = inSync[n]
          /\ seen'[n] = seen[n] /\ (n \in unlisted' <=> n \in unlisted)
          /\ (n \in leftover' <=> n \in leftover)
      BY <1>1, <2>2, DieType
    <3>2. SubsOf(n)' = SubsOf(n) /\ (Running(n)' <=> Running(n))
      BY <2>2, RunningSubs
    <3>3. SameNode(n)
      BY <1>2, <3>1, <3>2 DEF SameNode
    <3>4. ToldStep(n)
      <4>1. Current(n)' => Current(n)
        BY <1>2, <3>1 DEF Current
      <4>. QED
        BY <1>2, <3>1, <3>2, <4>1, ToldKept
    <3>. QED
      BY <3>3, <3>4, NodeSame
  <2>. QED
    BY <2>1, <2>2
<1>. QED
  BY <1>3, <1>4, <1>5, ServerStep

\* Subscribe: the stream goes into clientList, and the list is still to be read; or
\* the call fails, and its agent with it.
LEMMA SubscribeRegisterInv == ASSUME IInv, NEW s \in subs, SubscribeRegister(s) PROVE IInv'
<1>1. ServerType /\ AgentType /\ ChanType /\ TablesType /\ CountType
  BY TypeParts DEF IInv
<1>2. UNCHANGED kubeState
  BY DEF SubscribeRegister, kubeState
<1>3. UNCHANGED <<stream, nodeVars, bounds>> /\ bridges' = bridges /\ api' = api
  BY DEF SubscribeRegister, nodeVars, kubeVars
<1>4. CountType'
  BY <1>1, <1>3, FaultCounted DEF SubscribeRegister
<1>5. s \in Calls /\ s.node \in Nodes
  BY <1>1 DEF ServerType, Calls
<1>6. CASE /\ NoFault /\ clients' = [clients EXCEPT ![s.node] = s.stream]
           /\ broken' = broken \ {s.node} /\ Replace(s, [s EXCEPT !.step = "list"])
           /\ displaced' \in {displaced, displaced \cup {s.node}}
           /\ UNCHANGED <<up, inSync, store, seen, chan, unlisted, leftover>>
  <2>. DEFINE t == [s EXCEPT !.step = "list"]
  <2>1. t \in Calls /\ t.node = s.node /\ t.stream = s.stream /\ t.step = "list" /\ t.list = s.list
    BY <1>5, CallType
  <2>. HIDE DEF t
  <2>2. Replace(s, t)
    BY <1>6 DEF t
  <2>3. /\ subs' \subseteq Calls /\ SubsInv' /\ s.node \in Nodes /\ s.stream \in Nat
        /\ s.stream <= stream[s.node]
        /\ \A n \in Nodes : Running(n)' <=> Running(n)
        /\ \A n \in Nodes : n # s.node \/ stream[n] # s.stream => SubsOf(n)' = SubsOf(n)
        /\ stream[s.node] = s.stream => t \in SubsOf(s.node)' /\ Running(s.node)
        /\ \A u \in subs' : u = t \/ u \in subs
    BY <1>1, <1>3, <2>1, <2>2, ReplaceFacts DEF IInv
  <2>4. UNCHANGED <<up, inSync, store, seen, chan, unlisted, leftover>>
    BY <1>6
  <2>5. /\ clients'[s.node] = s.stream
        /\ \A n \in Nodes : n # s.node => clients'[n] = clients[n]
    BY <1>1, <1>5, <1>6 DEF ServerType
  <2>6. ServerType' /\ AgentType' /\ ChanType' /\ TablesType'
    <3>1. ServerType'
      BY <1>1, <1>3, <1>6, <2>3 DEF ServerType
    <3>2. AgentType'
      BY <1>1, <1>5, <1>6 DEF AgentType
    <3>. QED
      BY <1>1, <1>3, <1>6, <3>1, <3>2, TypeKept
  <2>7. ListInv'
    BY <1>3, <2>1, <2>3 DEF IInv, ListInv
  <2>8. ASSUME NEW n \in Nodes PROVE ToldStep(n) /\ NodeAll(n)'
    <3>1. CASE n # s.node
      <4>1. SubsOf(n)' = SubsOf(n) /\ (Current(n)' <=> Current(n))
        BY <1>3, <2>3, <2>4, <2>5, <3>1 DEF Current
      <4>2. ToldStep(n)
        BY <1>3, <2>4, <4>1, ToldKept
      <4>3. SameNode(n)
        BY <1>3, <1>6, <2>3, <2>4, <2>5, <3>1 DEF SameNode
      <4>. QED
        BY <1>2, <4>2, <4>3, NodeSame
    <3>2. CASE n = s.node
      <4>1. CASE stream[n] = s.stream
        <5>1. Running(n) /\ Running(n)' /\ t \in SubsOf(n)'
          BY <2>3, <3>2, <4>1
        <5>2. ToldStep(n)
          BY <2>1, <5>1 DEF ToldStep, Told, SubsOf, WillTell
        <5>3. StreamInv(n)
          BY DEF IInv, NodeInv
        <5>4. StreamInv(n)'
          BY <1>3, <1>6, <2>3, <2>4, <2>5, <3>2, <4>1, <5>1, <5>3 DEF StreamInv
        <5>. QED
          BY <5>1, <5>2, <5>4 DEF NodeAll, BridgeInv, QueueInv, Settled
      <4>2. CASE stream[n] # s.stream
        <5>1. ~Current(n)'
          BY <1>3, <2>5, <3>2, <4>2 DEF Current
        <5>2. StreamInv(n)
          BY DEF IInv, NodeInv
        <5>3. StreamInv(n)'
          BY <1>3, <2>3, <2>4, <2>5, <3>2, <5>1, <5>2 DEF StreamInv
        <5>. QED
          BY <5>1, <5>3 DEF NodeAll, BridgeInv, QueueInv, Settled, ToldStep
      <4>. QED
        BY <4>1, <4>2
    <3>. QED
      BY <3>1, <3>2
  <2>. QED
    BY <1>2, <1>4, <2>3, <2>6, <2>7, <2>8, ServerStep
<1>7. CASE /\ subs' = subs \ {s}
           /\ Die({n \in {s.node} : stream[n] = s.stream})
           /\ UNCHANGED <<clients, broken>>
  <2>. DEFINE D == {n \in {s.node} : stream[n] = s.stream}
  <2>1. D \in SUBSET Nodes /\ Die(D) /\ UNCHANGED <<clients, broken, stream, nodeVars>>
    BY <1>3, <1>5, <1>7
  <2>2. ASSUME NEW n \in Nodes, n \notin D PROVE SubsOf(n)' = SubsOf(n)
    BY <1>3, <1>7, <2>2 DEF SubsOf
  <2>3. subs' \subseteq subs
    BY <1>7
  <2>. HIDE DEF D
  <2>. QED
    BY <1>2, <1>4, <2>1, <2>2, <2>3, DieInv
<1>. QED
  BY <1>6, <1>7 DEF SubscribeRegister

\* A Subscribe call moves on, and the streams stay as they are.
LEMMA CallMoves ==
  ASSUME IInv, UNCHANGED kubeState, CountType', NEW s \in subs, NEW t \in Calls, Replace(s, t),
         t.node = s.node, t.stream = s.stream,
         UNCHANGED <<stream, clients, broken, agentVars, chan, leftover, displaced>>,
         unlisted \subseteq unlisted', unlisted' \subseteq Nodes,
         \A x \in t.list : /\ x[2].inc <= api[x[1]].inc
                           /\ x[2].inc = api[x[1]].inc /\ api[x[1]].live
                                => x[2].spec = api[x[1]].spec,
         \A k \in Pns : Announced(k) => s.node \in unlisted' \/ WillTell(t, k, api[k].inc)
  PROVE  IInv'
<1>1. ServerType /\ AgentType /\ ChanType /\ TablesType
  BY TypeParts DEF IInv
<1>2. UNCHANGED <<stream, clients, broken, up, inSync, store, seen, nodeVars, bridges, chan,
                  leftover, displaced>>
  BY DEF agentVars, nodeVars
<1>3. /\ subs' \subseteq Calls /\ SubsInv' /\ s.node \in Nodes
      /\ \A n \in Nodes : Running(n)' <=> Running(n)
      /\ \A n \in Nodes : n # s.node \/ stream[n] # s.stream => SubsOf(n)' = SubsOf(n)
      /\ stream[s.node] = s.stream => t \in SubsOf(s.node)'
      /\ \A u \in subs' : u = t \/ u \in subs
  BY <1>1, <1>2, ReplaceFacts DEF IInv
<1>4. api' = api
  BY Outside
<1>5. ServerType' /\ AgentType' /\ ChanType' /\ TablesType'
  <2>1. ServerType'
    BY <1>1, <1>2, <1>3 DEF ServerType
  <2>2. AgentType'
    BY <1>1, <1>2 DEF AgentType
  <2>. QED
    BY <1>1, <1>2, <2>1, <2>2, TypeKept
<1>6. ListInv'
  BY <1>3, <1>4 DEF IInv, ListInv
<1>7. ASSUME NEW n \in Nodes PROVE Current(n)' <=> Current(n)
  BY <1>2 DEF Current
<1>8. ASSUME NEW n \in Nodes PROVE ToldStep(n)
  <2>1. CASE n # s.node \/ stream[n] # s.stream
    BY <1>2, <1>3, <1>4, <1>7, <2>1, ToldKept
  <2>2. CASE n = s.node /\ stream[n] = s.stream
    <3>1. t \in SubsOf(n)'
      BY <1>3, <2>2
    <3>. QED
      BY <1>4, <2>2, <3>1 DEF ToldStep, Told, SubsOf
  <2>. QED
    BY <2>1, <2>2
<1>9. ASSUME NEW n \in Nodes PROVE NodeAll(n)'
  <2>1. SameNode(n)
    BY <1>2, <1>3 DEF SameNode
  <2>. QED
    BY <2>1, NodeSame
<1>. QED
  BY <1>3, <1>5, <1>6, <1>8, <1>9, ServerStep

\* Subscribe reads the list, or cannot.
LEMMA SubscribeListInv == ASSUME IInv, NEW s \in subs, SubscribeList(s) PROVE IInv'
<1>1. KubeType /\ ServerType /\ AgentType /\ CountType
  BY TypeParts DEF IInv
<1>2. /\ UNCHANGED kubeState /\ UNCHANGED bounds
      /\ UNCHANGED <<stream, clients, broken, agentVars, chan, leftover, displaced>>
  BY DEF SubscribeList, kubeState, agentVars
<1>3. CountType'
  BY <1>1, <1>2, FaultCounted DEF SubscribeList
<1>4. s \in Calls /\ s.node \in Nodes
  BY <1>1 DEF ServerType, Calls
<1>5. \A x \in s.list : /\ x[2].inc <= api[x[1]].inc
                        /\ x[2].inc = api[x[1]].inc /\ api[x[1]].live
                             => x[2].spec = api[x[1]].spec
  BY DEF IInv, ListInv
<1>. DEFINE L == {<<k, api[k]>> : k \in {j \in Pns : api[j].live}}
<1>6. CASE UNCHANGED unlisted /\ Replace(s, [s EXCEPT !.step = "send", !.list = L])
  <2>. DEFINE t == [s EXCEPT !.step = "send", !.list = L]
  <2>1. L \in SUBSET (Pns \X Alive)
    <3>1. ASSUME NEW k \in Pns, api[k].live PROVE api[k] \in Alive
      BY <1>1, <3>1, ObjectFields DEF KubeType
    <3>. QED
      BY <3>1
  <2>2. ASSUME NEW x \in L
        PROVE  /\ x[2].inc <= api[x[1]].inc
               /\ x[2].inc = api[x[1]].inc /\ api[x[1]].live => x[2].spec = api[x[1]].spec
    <3>1. PICK k \in Pns : x = <<k, api[k]>>
      BY <2>2
    <3>2. api[k].inc \in Nat
      BY <1>1, ObjectFields DEF KubeType
    <3>. QED
      BY <3>1, <3>2
  <2>3. ASSUME NEW k \in Pns, Announced(k) PROVE <<k, api[k]>> \in L
    BY <2>3 DEF Announced
  <2>. HIDE DEF L
  <2>4. t \in Calls /\ t.node = s.node /\ t.stream = s.stream /\ t.list = L
    BY <1>4, <2>1 DEF Calls
  <2>5. ASSUME NEW k \in Pns, Announced(k) PROVE WillTell(t, k, api[k].inc)
    BY <2>3, <2>4, <2>5 DEF WillTell
  <2>. HIDE DEF t
  <2>6. Replace(s, t) /\ unlisted \subseteq unlisted' /\ unlisted' \subseteq Nodes
    BY <1>1, <1>6 DEF t, AgentType
  <2>. QED
    BY <1>2, <1>3, <2>2, <2>4, <2>5, <2>6, CallMoves
<1>7. CASE Replace(s, [s EXCEPT !.step = "send"]) /\ unlisted' = unlisted \cup {s.node}
  <2>. DEFINE t == [s EXCEPT !.step = "send"]
  <2>1. t \in Calls /\ t.node = s.node /\ t.stream = s.stream /\ t.list = s.list
    BY <1>4, CallType
  <2>. HIDE DEF t
  <2>2. /\ Replace(s, t) /\ unlisted \subseteq unlisted' /\ unlisted' \subseteq Nodes
        /\ s.node \in unlisted'
    BY <1>1, <1>4, <1>7 DEF t, AgentType
  <2>. QED
    BY <1>2, <1>3, <1>5, <2>1, <2>2, CallMoves
<1>. QED
  BY <1>6, <1>7 DEF SubscribeList

\* A Subscribe call after it sent x.
Sent(s, x, r) == IF r = "hang" THEN [s EXCEPT !.step = "hung"] ELSE [s EXCEPT !.list = @ \ {x}]

\* To whom Subscribe sends.
LEMMA SubscribeSends ==
  ASSUME IInv, NEW s \in subs, SubscribeSend(s)
  PROVE  \E x \in s.list, S \in SUBSET Nodes, r \in Outcomes :
           SentTo(S, x[2], Msg(x[1], x[2], "create"), s.node, r) /\ Replace(s, Sent(s, x, r))
<1>1. ChanType /\ ServerType
  BY TypeParts DEF IInv
<1>2. s.node \in Nodes /\ s.list \subseteq Pns \X Alive
  BY <1>1 DEF ServerType, Calls
<1>. DEFINE Step(x) == Replace(s, [s EXCEPT !.list = @ \ {x}])
            Stop    == Replace(s, [s EXCEPT !.step = "hung"])
<1>3. PICK x \in s.list : SendNotif(x[1], x[2], "create", s.node, Step(x), Step(x), Stop)
  BY DEF SubscribeSend
<1>4. x[1] \in Pns /\ x[2] \in Alive
  BY <1>2
<1>5. PICK r \in Outcomes :
        /\ SendNotif(x[1], x[2], "create", s.node, r = "ok", r = "err", r = "hang")
        /\ Replace(s, Sent(s, x, r))
  <2>1. /\ Step(x) => Replace(s, Sent(s, x, "ok")) /\ Replace(s, Sent(s, x, "err"))
        /\ Stop => Replace(s, Sent(s, x, "hang"))
    BY DEF Sent
  <2>. HIDE DEF Step, Stop
  <2>2. \/ SendNotif(x[1], x[2], "create", s.node, Step(x), FALSE, FALSE)
        \/ SendNotif(x[1], x[2], "create", s.node, FALSE, Step(x), FALSE)
        \/ SendNotif(x[1], x[2], "create", s.node, FALSE, FALSE, Stop)
    BY <1>3 DEF SendNotif
  <2>3. ASSUME SendNotif(x[1], x[2], "create", s.node, Step(x), FALSE, FALSE)
        PROVE  /\ SendNotif(x[1], x[2], "create", s.node, "ok" = "ok", "ok" = "err", "ok" = "hang")
               /\ Step(x)
    BY <2>3 DEF SendNotif
  <2>4. ASSUME SendNotif(x[1], x[2], "create", s.node, FALSE, Step(x), FALSE)
        PROVE  /\ SendNotif(x[1], x[2], "create", s.node, "err" = "ok", "err" = "err", "err" = "hang")
               /\ Step(x)
    BY <2>4 DEF SendNotif
  <2>5. ASSUME SendNotif(x[1], x[2], "create", s.node, FALSE, FALSE, Stop)
        PROVE  /\ SendNotif(x[1], x[2], "create", s.node, "hang" = "ok", "hang" = "err", "hang" = "hang")
               /\ Stop
    BY <2>5 DEF SendNotif
  <2>. QED
    BY <2>1, <2>2, <2>3, <2>4, <2>5 DEF Outcomes
<1>6. PICK S \in SUBSET Nodes : SentTo(S, x[2], Msg(x[1], x[2], "create"), s.node, r)
  BY <1>1, <1>2, <1>4, <1>5, Sends
<1>. QED
  BY <1>5, <1>6

\* Subscribe sends a create message: the node is told of that object, or it is one
\* that is not for it; and the message comes before InSync, or a later agent gets it.
LEMMA SubscribeSendInv == ASSUME IInv, NEW s \in subs, SubscribeSend(s) PROVE IInv'
<1>1. ServerType /\ AgentType /\ ChanType /\ TablesType /\ CountType
  BY TypeParts DEF IInv
<1>2. /\ UNCHANGED kubeState /\ UNCHANGED bounds
      /\ UNCHANGED <<stream, clients, broken, up, inSync, store, seen, nodeVars, bridges>>
      /\ unlisted' = unlisted /\ displaced' = displaced /\ s.step = "send"
      /\ leftover' = IF s.stream # stream[s.node] THEN leftover \cup {s.node} ELSE leftover
  BY DEF SubscribeSend, kubeState, agentVars, nodeVars
<1>3. PICK x \in s.list, S \in SUBSET Nodes, r \in Outcomes :
        SentTo(S, x[2], Msg(x[1], x[2], "create"), s.node, r) /\ Replace(s, Sent(s, x, r))
  BY SubscribeSends
<1>4. /\ s \in Calls /\ s.node \in Nodes /\ s.list \subseteq Pns \X Alive
      /\ x[1] \in Pns /\ x[2] \in Alive
  BY <1>1 DEF ServerType, Calls
<1>. DEFINE t == Sent(s, x, r)
            m == Msg(x[1], x[2], "create")
<1>5. /\ t \in Calls /\ t.node = s.node /\ t.stream = s.stream
      /\ r = "hang" => t.step = "hung" /\ t.list = s.list
      /\ r # "hang" => t.list = s.list \ {x}
  BY <1>4 DEF Sent, Calls
<1>6. /\ m \in Messages /\ m.type = "create" /\ m.pn = x[1] /\ m.inc = x[2].inc
      /\ m.spec = x[2].spec
  BY <1>4, MsgType
<1>. HIDE DEF t, m
<1>7. SentTo(S, x[2], m, s.node, r) /\ Replace(s, t)
  BY <1>3 DEF t, m
<1>8. /\ ChanType'
      /\ \A n \in Nodes : chan'[n] = IF n \in S THEN Append(chan[n], m) ELSE chan[n]
  <2>1. Push(S, m)
    BY <1>7 DEF SentTo
  <2>. QED
    BY <1>1, <1>6, <2>1, PushType
<1>9. /\ subs' \subseteq Calls /\ SubsInv'
      /\ \A n \in Nodes : Running(n)' <=> Running(n)
      /\ \A n \in Nodes : n # s.node \/ stream[n] # s.stream => SubsOf(n)' = SubsOf(n)
      /\ stream[s.node] = s.stream => t \in SubsOf(s.node)' /\ Running(s.node)
      /\ \A u \in subs' : u = t \/ u \in subs
  BY <1>1, <1>2, <1>5, <1>7, ReplaceFacts DEF IInv
<1>10. api' = api
  BY <1>2, Outside
<1>11. ServerType' /\ AgentType' /\ TablesType' /\ CountType'
  <2>1. ServerType'
    BY <1>1, <1>2, <1>9 DEF ServerType
  <2>2. AgentType'
    BY <1>1, <1>2, <1>4 DEF AgentType
  <2>3. CountType'
    BY <1>1, <1>2, <1>7, FaultCounted DEF SentTo
  <2>. QED
    BY <1>1, <1>2, <2>1, <2>2, <2>3, TypeKept
<1>12. ListInv'
  <2>1. t.list \subseteq s.list
    BY <1>5
  <2>. QED
    BY <1>9, <1>10, <2>1 DEF IInv, ListInv
<1>13. ASSUME NEW n \in Nodes
       PROVE  /\ Current(n)' <=> Current(n)
              /\ \A k, i : Creates(chan[n], k, i) => Creates(chan'[n], k, i)
  <2>1. Current(n)' <=> Current(n)
    BY <1>2 DEF Current
  <2>. QED
    BY <1>1, <1>6, <1>8, <2>1, PushFacts
<1>14. ASSUME NEW n \in Nodes PROVE ToldStep(n)
  <2>1. CASE n # s.node \/ stream[n] # s.stream
    BY <1>2, <1>9, <1>10, <1>13, <2>1, ToldKept
  <2>2. CASE n = s.node /\ stream[n] = s.stream
    <3>. SUFFICES ASSUME Current(n), NEW k \in Pns, Announced(k), Known(api[k].spec),
                         n \in Selected(api[k].spec), Told(k, api[k].inc, n)
                  PROVE  Told(k, api[k].inc, n)'
      BY <1>13 DEF ToldStep
    <3>. DEFINE i == api[k].inc
    <3>1. i' = i
      BY <1>10
    <3>. HIDE DEF i
    <3>2. t \in SubsOf(n)'
      BY <1>9, <2>2
    <3>3. WillTell(t, k, i) => Told(k, i, n)'
      BY <3>2, <3>1 DEF Told, SubsOf, WillTell
    <3>4. CASE <<k, i>> \in seen[n] \/ Creates(chan[n], k, i) \/ n \in unlisted
      BY <1>2, <1>13, <3>1, <3>4 DEF Told, i
    <3>5. ASSUME NEW y \in s.list, y[1] = k, y[2].inc = i PROVE Told(k, i, n)'
      <4>1. CASE r = "hang" \/ y # x
        BY <1>5, <3>3, <3>5, <4>1 DEF WillTell
      <4>2. CASE r # "hang" /\ y = x
        <5>1. x[2].spec = api[k].spec
          BY <3>5, <4>2 DEF IInv, ListInv, Announced, i
        <5>2. x[2].spec.sel # "ANY" /\ Known(x[2].spec) /\ n \in Selected(x[2].spec)
          BY <5>1 DEF Selected
        <5>3. n \notin broken /\ s.node # NoVal
          BY <1>4, Constants DEF IInv, NodeInv, StreamInv
        <5>4. r = "ok"
          BY <1>7, <2>2, <4>2, <5>2, <5>3 DEF SentTo, Outcomes
        <5>5. n \in S
          BY <1>7, <2>2, <5>2, <5>4 DEF SentTo
        <5>6. Creates(chan'[n], k, i)
          BY <1>1, <1>6, <1>8, <3>5, <4>2, <5>5, PushFacts
        <5>. QED
          BY <3>1, <5>6 DEF Told
      <4>. QED
        BY <4>1, <4>2
    <3>6. ASSUME NEW u \in subs, u.node = n, u.stream = stream[n], WillTell(u, k, i)
          PROVE  Told(k, i, n)'
      <4>1. u = s
        BY <2>2, <3>6 DEF IInv, SubsInv
      <4>. QED
        BY <1>2, <3>5, <3>6, <4>1 DEF WillTell
    <3>. QED
      BY <3>4, <3>6 DEF Told, i
  <2>. QED
    BY <2>1, <2>2
<1>15. ASSUME NEW n \in Nodes PROVE NodeAll(n)'
  <2>1. StreamInv(n) /\ BridgeInv(n) /\ QueueInv(n)
    BY DEF IInv, NodeInv
  <2>2. StreamInv(n)'
    <3>1. n \in S => up[n]
      BY <1>7 DEF SentTo, Current
    <3>2. Synced(chan'[n]) => Synced(chan[n])
      BY <1>1, <1>6, <1>8, PushFacts
    <3>3. OneSync(chan[n]) => OneSync(chan'[n])
      BY <1>1, <1>6, <1>8, PushFacts
    <3>. QED
      BY <1>2, <1>8, <1>9, <1>13, <2>1, <3>1, <3>2, <3>3 DEF StreamInv
  <2>3. Settled(n)' => Settled(n)
    BY <1>2, <1>9, <1>13 DEF Settled
  <2>4. BridgeInv(n)'
    <3>. SUFFICES ASSUME Settled(n), inSync[n], NEW k \in Pns, Removed(bridges[n][k]),
                         Stays(chan'[n], k)
                  PROVE  Owned(k, bridges[n][k], n)'
      BY <1>2, <2>3 DEF BridgeInv
    <3>1. Stays(chan[n], k)
      BY <1>1, <1>6, <1>8, PushFacts
    <3>2. Owned(k, bridges[n][k], n)
      BY <2>1, <3>1 DEF BridgeInv
    <3>. QED
      BY <1>2, <3>2, Outside
  <2>5. QueueInv(n)'
    <3>. SUFFICES ASSUME Settled(n)', NEW k \in Pns, NEW sp \in Specs, Removed(sp),
                         Comes(chan'[n], k, sp)
                  PROVE  Owned(k, sp, n)'
      BY DEF QueueInv
    <3>1. CASE Comes(chan[n], k, sp)
      BY <1>2, <2>1, <2>3, <3>1, Outside DEF QueueInv
    <3>2. CASE n \in S /\ m.spec = sp
      <4>1. n = s.node
        BY <1>4, <1>6, <1>7, <3>2, Constants DEF SentTo, Removed
      <4>2. CASE stream[n] = s.stream
        BY <1>9, <4>1, <4>2 DEF Settled
      <4>3. CASE stream[n] # s.stream
        BY <1>2, <4>1, <4>3 DEF Settled
      <4>. QED
        BY <4>2, <4>3
    <3>. QED
      BY <1>1, <1>6, <1>8, <3>1, <3>2, PushFacts
  <2>. QED
    BY <2>2, <2>4, <2>5 DEF NodeAll
<1>. QED
  BY <1>2, <1>8, <1>9, <1>11, <1>12, <1>14, <1>15, ServerStep

\* Subscribe ends: InSync is the last message of its call, so whatever the stream
\* then brings back comes from the worker.
LEMMA SubscribeInSyncInv == ASSUME IInv, NEW s \in subs, SubscribeInSync(s) PROVE IInv'
<1>. DEFINE m == [type |-> "inSync"]
            S == {n \in {s.node} : up[n] /\ stream[n] = s.stream}
<1>1. ServerType /\ AgentType /\ ChanType /\ TablesType /\ CountType
  BY TypeParts DEF IInv
<1>2. /\ UNCHANGED kubeState /\ UNCHANGED <<faults, bounds>>
      /\ UNCHANGED <<stream, clients, broken, up, inSync, store, seen, nodeVars, bridges>>
      /\ UNCHANGED <<unlisted, leftover>> /\ UNCHANGED history
      /\ s.step = "send" /\ s.list = {} /\ subs' = subs \ {s}
  BY DEF SubscribeInSync, kubeState, agentVars, nodeVars, history
<1>3. s.node \in Nodes
  BY <1>1 DEF ServerType, Calls
<1>4. m \in Messages /\ m.type = "inSync"
  BY DEF Messages
<1>5. S \in SUBSET Nodes /\ Push(S, m)
  BY <1>1, <1>3 DEF SubscribeInSync, Push, ChanType
<1>6. \A n \in Nodes : n \in S <=> n = s.node /\ up[n] /\ stream[n] = s.stream
  OBVIOUS
<1>. HIDE DEF m, S
<1>7. /\ ChanType'
      /\ \A n \in Nodes : chan'[n] = IF n \in S THEN Append(chan[n], m) ELSE chan[n]
  BY <1>1, <1>4, <1>5, PushType
<1>8. api' = api
  BY <1>2, Outside
<1>9. ServerType' /\ AgentType' /\ TablesType' /\ CountType'
  <2>1. ServerType'
    BY <1>1, <1>2 DEF ServerType
  <2>2. AgentType'
    BY <1>1, <1>2, TypeKept
  <2>. QED
    BY <1>1, <1>2, <2>1, <2>2, TypeKept
<1>10. SubsInv' /\ ListInv'
  BY <1>2, <1>8 DEF IInv, SubsInv, ListInv
<1>11. ASSUME NEW n \in Nodes PROVE Current(n)' <=> Current(n)
  BY <1>2 DEF Current
<1>12. ASSUME NEW n \in Nodes PROVE ToldStep(n)
  <2>. SUFFICES ASSUME NEW k \in Pns, Told(k, api[k].inc, n) PROVE Told(k, api[k].inc, n)'
    BY <1>11 DEF ToldStep
  <2>1. \A i : Creates(chan[n], k, i) => Creates(chan'[n], k, i)
    BY <1>1, <1>4, <1>7, PushFacts
  <2>2. ASSUME NEW i PROVE ~WillTell(s, k, i)
    BY <1>2 DEF WillTell
  <2>. QED
    BY <1>2, <1>8, <2>1, <2>2 DEF Told
<1>13. ASSUME NEW n \in Nodes PROVE NodeAll(n)'
  <2>1. StreamInv(n)
    BY DEF IInv, NodeInv
  <2>2. CASE n # s.node \/ stream[n] # s.stream
    <3>1. SubsOf(n)' = SubsOf(n)
      BY <1>2, <2>2 DEF SubsOf
    <3>2. SameNode(n)
      BY <1>2, <1>6, <1>7, <2>2, <3>1, RunningSubs DEF SameNode
    <3>. QED
      BY <1>2, <3>2, NodeSame
  <2>3. CASE n = s.node /\ stream[n] = s.stream
    <3>1. Running(n) /\ ~Running(n)'
      BY <1>2, <2>3 DEF Running, IInv, SubsInv
    <3>2. ~inSync[n] /\ ~Synced(chan[n])
      BY <2>1, <3>1 DEF StreamInv
    <3>3. OneSync(chan'[n])
      BY <1>1, <1>4, <1>7, <2>1, <3>2, PushFacts DEF StreamInv
    <3>4. StreamInv(n)'
      BY <1>2, <1>6, <1>7, <1>11, <2>1, <3>1, <3>2, <3>3 DEF StreamInv
    <3>5. BridgeInv(n)'
      BY <1>2, <3>2 DEF BridgeInv
    <3>6. QueueInv(n)'
      <4>. SUFFICES ASSUME up[n], NEW k \in Pns, NEW sp \in Specs, Comes(chan'[n], k, sp)
                    PROVE  FALSE
        BY <1>2 DEF QueueInv, Settled, Current
      <4>1. n \in S
        BY <1>6, <2>3
      <4>. QED
        BY <1>1, <1>4, <1>7, <4>1, PushFacts
    <3>. QED
      BY <3>4, <3>5, <3>6 DEF NodeAll
  <2>. QED
    BY <2>2, <2>3
<1>. QED
  BY <1>2, <1>7, <1>9, <1>10, <1>12, <1>13, ServerStep

(***************************************************************************)
(* Steps of the agents, and the crash of nfn-operator.                     *)
(***************************************************************************)

\* An agent dies, and its stream with it.
LEMMA AgentDieInv == ASSUME IInv, NEW x \in Nodes, AgentDie(x) PROVE IInv'
<1>1. CountType
  BY TypeParts DEF IInv
<1>2. /\ UNCHANGED kubeState /\ Die({x}) /\ {x} \in SUBSET Nodes
      /\ UNCHANGED <<clients, broken, stream, nodeVars>> /\ subs' = subs /\ stream' = stream
  BY DEF AgentDie, kubeState, serverVars
<1>3. CountType'
  BY <1>1 DEF AgentDie, CountType
<1>4. \A n \in Nodes : SubsOf(n)' = SubsOf(n)
  BY <1>2 DEF SubsOf
<1>. QED
  BY <1>2, <1>3, <1>4, DieInv

\* nfn-operator dies: every stream ends, and the cache starts from the store.
LEMMA CrashInv == ASSUME IInv, Crash PROVE IInv'
<1>1. KubeType /\ OvnType /\ ServerType /\ AgentType /\ ChanType /\ TablesType /\ CountType
  BY TypeParts DEF IInv
<1>2. /\ api' = api /\ cache' = api /\ pending' = [k \in Pns |-> {}]
      /\ pc' = "idle" /\ req' = NoVal /\ cr' = Tombstone(0, 0)
      /\ queue' = {k \in Pns : api[k].live}
      /\ clients' = [n \in Nodes |-> NoVal] /\ broken' = {} /\ subs' = {}
      /\ Die(Nodes) /\ UNCHANGED <<ovnVars, stream, nodeVars, faults, ops>>
      /\ restarts' = restarts + 1 /\ Nodes \in SUBSET Nodes
  BY DEF Crash, Finish
<1>3. KubeType' /\ WorkerType' /\ OvnType' /\ ServerType' /\ TablesType' /\ CountType'
  <2>1. KubeType'
    BY <1>1, <1>2 DEF KubeType
  <2>2. WorkerType'
    <3>1. Tombstone(0, 0) \in Objects
      BY TombstoneType
    <3>. QED
      BY <1>2, <3>1 DEF WorkerType, Pcs
  <2>3. ServerType'
    BY <1>1, <1>2 DEF ServerType
  <2>4. CountType'
    BY <1>1, <1>2 DEF CountType
  <2>. QED
    BY <1>1, <1>2, <2>1, <2>2, <2>3, <2>4, TypeKept
<1>4. /\ AgentType' /\ ChanType'
      /\ \A n \in Nodes : ~up'[n] /\ chan'[n] = <<>> /\ ~inSync'[n]
  BY <1>1, <1>2, DieType
<1>5. TypeOK'
  BY <1>3, <1>4, TypePartsNext
<1>6. KubeInv'
  <2>. SUFFICES ASSUME NEW k \in Pns PROVE VersionsInv(k)'
    BY DEF KubeInv, VersionsInv
  <2>1. \A v \in Versions(k)' : v = api[k]
    BY <1>2 DEF Versions
  <2>2. api'[k] = api[k] /\ cache'[k] = api[k]
    BY <1>2
  <2>3. api[k].rv \in Nat
    BY <1>1, VersionType
  <2>4. api[k].live /\ api[k].del => ~Holds(api[k])
    BY DEF Holds
  <2>5. VersionsOrdered(k)' /\ FinalizerKept(k)' /\ SameObject(k)'
    BY <2>1, <2>2, <2>3 DEF VersionsOrdered, FinalizerKept, SameObject, Holds
  <2>6. NoWayBack(k)'
    BY <2>1, <2>4 DEF NoWayBack, Holds
  <2>. QED
    BY <2>5, <2>6 DEF VersionsInv
<1>7. CopyInv' /\ SubsInv' /\ ListInv'
  BY <1>2 DEF CopyInv, SubsInv, ListInv
<1>8. ToldInv'
  <2>. SUFFICES ASSUME NEW k \in Pns, Announced(k)'
                PROVE  (/\ Known(api[k].spec)
                        /\ \A n \in Selected(api[k].spec) :
                             Current(n) => Told(k, api[k].inc, n))'
    BY DEF ToldInv
  <2>1. Announced(k)
    BY <1>2 DEF Announced
  <2>2. Known(api[k].spec)
    BY <2>1 DEF IInv, ToldInv
  <2>3. \A n \in Selected(api[k].spec) : n \in Nodes
    BY Constants DEF Selected
  <2>. QED
    BY <1>2, <1>4, <2>2, <2>3 DEF Current
<1>9. NodeInv'
  <2>1. ASSUME NEW n \in Nodes PROVE NodeAll(n)'
    BY <1>2, <1>4, NodeDead
  <2>. QED
    BY <2>1 DEF NodeInv, NodeAll
<1>. QED
  BY <1>5, <1>6, <1>7, <1>8, <1>9 DEF IInv

\* Changing one entry of a node's table.
LEMMA PutFacts ==
  ASSUME NEW f \in Tables, NEW n \in Nodes, NEW k \in Pns, NEW y \in Specs \cup {NoVal}
  PROVE  /\ Put(f, n, k, y) \in Tables
         /\ \A o \in Nodes : o # n => Put(f, n, k, y)[o] = f[o]
         /\ \A j \in Pns : Put(f, n, k, y)[n][j] = IF j = k THEN y ELSE f[n][j]
BY DEF Put, Tables

\* The fields of a message.
LEMMA MessageFields ==
  ASSUME NEW m \in Messages
  PROVE  \/ m.type \in {"create", "remove"} /\ m.pn \in Pns /\ m.inc \in Nat /\ m.spec \in Specs
         \/ m.type = "inSync"
BY DEF Messages

\* What the agent of x makes of message m.
Handled(x, m) ==
  /\ TablesType' /\ (Fault \/ NoFault)
  /\ \A n \in Nodes : n # x => bridges'[n] = bridges[n]
  /\ m.type = "create" =>
       \A k \in Pns : \/ bridges'[x][k] = bridges[x][k]
                      \/ inSync[x] /\ m.pn = k /\ bridges'[x][k] = m.spec
  /\ m.type = "remove" =>
       \A k \in Pns : /\ bridges'[x][k] \in {bridges[x][k], NoVal}
                      /\ inSync[x] /\ Removes(m, k) => bridges'[x][k] = NoVal \/ x \in leftover'
  /\ m.type = "inSync" => \A k \in Pns : bridges'[x][k] = NoVal \/ x \in leftover'

\* The commands of a create message.
LEMMA CreateHandled ==
  ASSUME TablesType, NEW x \in Nodes, NEW m \in Messages, m.type = "create", inSync[x],
         HandleCreate(x, m)
  PROVE  Handled(x, m)
<1>1. m.pn \in Pns /\ m.spec \in Specs /\ m.spec \in Specs \cup {NoVal}
  BY MessageFields
<1>. DEFINE v == IF m.spec.kind = "VLAN" THEN CreateVlan(x, m) ELSE vlans
            b == CreatePnBridge(x, m)
            p == UpdateOvnBridgeMapping(x, m, m.spec)
<1>2. /\ v \in Tables /\ b \in Tables /\ p \in Tables
      /\ \A n \in Nodes : n # x => b[n] = bridges[n]
      /\ \A k \in Pns : b[x][k] = IF k = m.pn THEN m.spec ELSE bridges[x][k]
  BY <1>1, PutFacts DEF TablesType, CreateVlan, CreatePnBridge, UpdateOvnBridgeMapping
<1>3. /\ vlans' \in {vlans, v} /\ bridges' \in {bridges, b} /\ maps' \in {maps, p}
      /\ Fault \/ NoFault
  BY DEF HandleCreate, nodeVars
<1>. HIDE DEF v, b, p
<1>. QED
  BY <1>2, <1>3 DEF Handled, TablesType

\* The commands of a remove message.
LEMMA RemoveHandled ==
  ASSUME TablesType, CountType, NEW x \in Nodes, NEW m \in Messages, m.type = "remove",
         HandleRemove(x, m), faults' # faults => x \in leftover'
  PROVE  Handled(x, m)
<1>1. m.pn \in Pns /\ m.spec \in Specs /\ NoVal \in Specs \cup {NoVal}
  BY MessageFields
<1>. DEFINE v == IF m.spec.kind = "VLAN" THEN DeleteVlan(x, m) ELSE vlans
            b == DeletePnBridge(x, m)
            p == UpdateOvnBridgeMapping(x, m, NoVal)
<1>2. /\ v \in Tables /\ b \in Tables /\ p \in Tables
      /\ \A n \in Nodes : n # x => b[n] = bridges[n]
      /\ \A k \in Pns : b[x][k] = IF k = m.pn THEN NoVal ELSE bridges[x][k]
  BY <1>1, PutFacts DEF TablesType, DeleteVlan, DeletePnBridge, UpdateOvnBridgeMapping
<1>3. /\ vlans' \in {vlans, v} /\ bridges' \in {bridges, b} /\ maps' \in {maps, p}
      /\ Fault \/ NoFault
      /\ Removable(m.spec) => bridges' = b \/ Fault
  BY DEF HandleRemove, nodeVars
<1>. HIDE DEF v, b, p
<1>4. Fault => x \in leftover'
  BY DEF Fault, CountType
<1>5. Removable(m.spec) => bridges' = b \/ x \in leftover'
  BY <1>3, <1>4
<1>6. \A n \in Nodes : n # x => bridges'[n] = bridges[n]
  BY <1>2, <1>3
<1>7. \A k \in Pns : /\ bridges'[x][k] \in {bridges[x][k], NoVal}
                     /\ Removes(m, k) => bridges'[x][k] = NoVal \/ x \in leftover'
  BY <1>2, <1>3, <1>5 DEF Removes
<1>8. TablesType'
  BY <1>2, <1>3 DEF TablesType
<1>. QED
  BY <1>3, <1>6, <1>7, <1>8 DEF Handled

\* The commands of an InSync message.
LEMMA InSyncHandled ==
  ASSUME TablesType, NEW x \in Nodes, NEW m \in Messages, m.type = "inSync",
         HandleInSync(x), GetPnBridge(x)' # {} => x \in leftover'
  PROVE  Handled(x, m)
<1>1. ASSUME NEW f \in Tables, NEW S
      PROVE  Only(f, x, S) \in Tables /\ \A n \in Nodes : n # x => Only(f, x, S)[n] = f[n]
  BY DEF Tables, Only
<1>2. vlans' = vlans \/ \E S : vlans' = Only(vlans, x, S)
  BY Zenon DEF HandleInSync
<1>3. (\E S : bridges' = Only(bridges, x, S)) /\ (\E S : maps' = Only(maps, x, S))
  BY Zenon DEF HandleInSync
<1>4. TablesType' /\ \A n \in Nodes : n # x => bridges'[n] = bridges[n]
  BY <1>1, <1>2, <1>3 DEF TablesType
<1>5. \A k \in Pns : bridges'[x][k] = NoVal \/ x \in leftover'
  BY DEF GetPnBridge
<1>6. Fault \/ NoFault
  BY DEF HandleInSync
<1>. QED
  BY <1>4, <1>5, <1>6 DEF Handled

\* An agent takes a message: a bridge that it makes was to come, and one whose
\* removal it reads goes, or the failure is on record.
LEMMA HandleNotifInv == ASSUME IInv, NEW x \in Nodes, HandleNotif(x) PROVE IInv'
<1>. DEFINE c == chan[x]
            m == Head(c)
            d == Tail(c)
<1>1. ServerType /\ AgentType /\ ChanType /\ TablesType /\ CountType
  BY TypeParts DEF IInv
<1>2. /\ UNCHANGED kubeState /\ UNCHANGED bounds /\ UNCHANGED serverVars
      /\ UNCHANGED <<stream, clients, broken, subs, up, unlisted, displaced>>
      /\ up[x] /\ c # <<>> /\ chan' = [chan EXCEPT ![x] = Tail(@)]
  BY DEF HandleNotif, kubeState, serverVars
<1>3. /\ m.type = "create" => /\ seen' = [seen EXCEPT ![x] = @ \cup {<<m.pn, m.inc>>}]
                              /\ leftover' = leftover /\ inSync' = inSync
                              /\ store' \in {store, [store EXCEPT ![x] = @ \cup {m}]}
                              /\ (NoFault /\ UNCHANGED nodeVars)
                                   \/ (inSync[x] /\ HandleCreate(x, m))
      /\ m.type = "remove" => /\ seen' = seen /\ inSync' = inSync /\ store' = store
                              /\ faults' # faults => x \in leftover'
                              /\ (~inSync[x] /\ NoFault /\ UNCHANGED nodeVars)
                                   \/ HandleRemove(x, m)
      /\ m.type = "inSync" => /\ seen' = seen /\ inSync' = [inSync EXCEPT ![x] = TRUE]
                              /\ store' = [store EXCEPT ![x] = {}]
                              /\ GetPnBridge(x)' # {} => x \in leftover'
                              /\ HandleInSync(x)
      /\ leftover' \in {leftover, leftover \cup {x}}
  BY DEF HandleNotif
<1>4. c \in Seq(Messages) /\ m \in Messages /\ d \in Seq(Messages) /\ Len(d) <= MaxChan
  <2>1. c \in Seq(Messages) /\ Len(c) <= MaxChan /\ MaxChan \in Nat
    BY <1>1, Constants DEF ChanType
  <2>. QED
    BY <1>2, <2>1
<1>5. chan'[x] = d /\ \A n \in Nodes : n # x => chan'[n] = chan[n]
  BY <1>1, <1>2 DEF ChanType
<1>6. ChanType'
  BY <1>1, <1>2, <1>4, <1>5 DEF ChanType
<1>. HIDE DEF m, d
<1>7. /\ \A k, i : Creates(c, k, i) =>
            Creates(d, k, i) \/ (m.type = "create" /\ m.pn = k /\ m.inc = i)
      /\ Synced(d) => Synced(c)
      /\ OneSync(c) => OneSync(d) /\ (m.type = "inSync" => ~Synced(d))
      /\ \A k : Stays(d, k) /\ ~Removes(m, k) => Stays(c, k)
      /\ \A k, sp : Comes(d, k, sp) => Comes(c, k, sp)
      /\ \A k, sp : (/\ m.type = "create" /\ m.pn = k /\ m.spec = sp
                     /\ Stays(d, k) /\ ~Synced(d))
                      => Comes(c, k, sp)
  <2>. HIDE DEF c
  <2>. QED
    BY <1>2, <1>4, TailFacts DEF m, d
<1>8. m.type = "inSync" => Synced(c)
  <2>1. 1 \in 1..Len(c) /\ c[1] = m
    BY <1>2, <1>4 DEF m
  <2>. QED
    BY <2>1 DEF Synced
<1>9. \/ m.type \in {"create", "remove"} /\ m.pn \in Pns /\ m.inc \in Nat /\ m.spec \in Specs
      \/ m.type = "inSync"
  BY <1>4, MessageFields
<1>10. Handled(x, m)
  <2>1. ASSUME NoFault, UNCHANGED nodeVars, m.type = "create" \/ (m.type = "remove" /\ ~inSync[x])
        PROVE  Handled(x, m)
    <3>1. TablesType' /\ bridges' = bridges
      BY <1>1, <2>1, TypeKept DEF nodeVars
    <3>. QED
      BY <2>1, <3>1 DEF Handled
  <2>2. CASE m.type = "create"
    BY <1>1, <1>3, <1>4, <2>1, <2>2, CreateHandled
  <2>3. CASE m.type = "remove"
    BY <1>1, <1>3, <1>4, <2>1, <2>3, RemoveHandled
  <2>4. CASE m.type = "inSync"
    BY <1>1, <1>3, <1>4, <2>4, InSyncHandled
  <2>. QED
    BY <1>9, <2>2, <2>3, <2>4
<1>11. AgentType' /\ ServerType' /\ TablesType' /\ CountType'
  <2>1. ServerType'
    BY <1>1, <1>2, TypeKept
  <2>2. CountType'
    BY <1>1, <1>2, <1>10, FaultCounted DEF Handled
  <2>3. AgentType'
    <3>1. /\ seen' \in [Nodes -> SUBSET (Pns \X Nat)] /\ store' \in [Nodes -> SUBSET Messages]
          /\ inSync' \in [Nodes -> BOOLEAN]
      <4>1. CASE m.type = "create"
        <5>1. seen' \in [Nodes -> SUBSET (Pns \X Nat)]
          BY <1>1, <1>3, <1>9, <4>1 DEF AgentType
        <5>2. store' \in [Nodes -> SUBSET Messages]
          BY <1>1, <1>3, <1>4, <4>1 DEF AgentType
        <5>. QED
          BY <1>1, <1>3, <4>1, <5>1, <5>2 DEF AgentType
      <4>2. CASE m.type = "remove"
        BY <1>1, <1>3, <4>2 DEF AgentType
      <4>3. CASE m.type = "inSync"
        BY <1>1, <1>3, <4>3 DEF AgentType
      <4>. QED
        BY <1>9, <4>1, <4>2, <4>3
    <3>. QED
      BY <1>1, <1>2, <1>3, <3>1 DEF AgentType
  <2>. QED
    BY <1>10, <2>1, <2>2, <2>3 DEF Handled
<1>12. api' = api
  BY <1>2, Outside
<1>13. SubsInv' /\ ListInv'
  BY <1>2, <1>12 DEF IInv, SubsInv, ListInv
<1>14. /\ \A n \in Nodes : n # x => seen'[n] = seen[n] /\ inSync'[n] = inSync[n]
       /\ \A n \in Nodes : seen[n] \subseteq seen'[n]
       /\ m.type = "create" => <<m.pn, m.inc>> \in seen'[x]
       /\ inSync'[x] = (inSync[x] \/ m.type = "inSync")
       /\ leftover \subseteq leftover'
  <2>1. CASE m.type = "create"
    BY <1>1, <1>3, <2>1 DEF AgentType
  <2>2. CASE m.type = "remove"
    BY <1>1, <1>3, <2>2 DEF AgentType
  <2>3. CASE m.type = "inSync"
    BY <1>1, <1>3, <2>3 DEF AgentType
  <2>. QED
    BY <1>9, <2>1, <2>2, <2>3
<1>15. ASSUME NEW n \in Nodes
       PROVE  /\ Current(n)' <=> Current(n)
              /\ SubsOf(n)' = SubsOf(n) /\ (Running(n)' <=> Running(n))
              /\ Settled(n)' => Settled(n)
  <2>1. (Current(n)' <=> Current(n)) /\ SubsOf(n)' = SubsOf(n)
    BY <1>2 DEF Current, SubsOf
  <2>2. Running(n)' <=> Running(n)
    BY <2>1, RunningSubs
  <2>. QED
    BY <1>14, <2>1, <2>2 DEF Settled
<1>16. ASSUME NEW n \in Nodes PROVE ToldStep(n)
  <2>1. CASE n # x
    BY <1>2, <1>5, <1>12, <1>14, <1>15, <2>1, ToldKept
  <2>2. CASE n = x
    <3>. SUFFICES ASSUME NEW k \in Pns, Told(k, api[k].inc, x) PROVE Told(k, api[k].inc, x)'
      BY <1>15, <2>2 DEF ToldStep
    <3>. DEFINE i == api[k].inc
    <3>1. i' = i
      BY <1>12
    <3>2. Told(k, i, x)
      OBVIOUS
    <3>. HIDE DEF i
    <3>3. CASE Creates(c, k, i)
      <4>1. Creates(d, k, i) \/ <<k, i>> \in seen'[x]
        BY <1>7, <1>14, <3>3
      <4>. QED
        BY <1>5, <3>1, <4>1 DEF Told, i
    <3>4. CASE <<k, i>> \in seen[x] \/ x \in unlisted
      BY <1>2, <1>14, <3>1, <3>4 DEF Told, i
    <3>5. CASE \E s \in subs : s.node = x /\ s.stream = stream[x] /\ WillTell(s, k, i)
      BY <1>2, <3>1, <3>5 DEF Told, i
    <3>. QED
      BY <3>2, <3>3, <3>4, <3>5 DEF Told
  <2>. QED
    BY <2>1, <2>2
<1>17. ASSUME NEW n \in Nodes, n # x PROVE NodeAll(n)'
  <2>1. SameNode(n)
    BY <1>2, <1>5, <1>10, <1>14, <1>15, <1>17 DEF SameNode, Handled
  <2>. QED
    BY <1>2, <2>1, NodeSame
<1>18. StreamInv(x) /\ BridgeInv(x) /\ QueueInv(x)
  BY DEF IInv, NodeInv
<1>19. StreamInv(x)'
  BY <1>2, <1>5, <1>7, <1>8, <1>14, <1>15, <1>18 DEF StreamInv
<1>20. QueueInv(x)'
  BY <1>2, <1>5, <1>7, <1>15, <1>18, Outside DEF QueueInv
<1>21. BridgeInv(x)'
  <2>. SUFFICES ASSUME Settled(x)', inSync'[x], NEW k \in Pns, Removed(bridges'[x][k]),
                       Stays(d, k)
                PROVE  Owned(k, bridges[x][k], x)'
    BY <1>5 DEF BridgeInv
  <2>1. Settled(x) /\ x \notin leftover' /\ bridges'[x][k] # NoVal
    BY <1>15 DEF Settled, Removed
  <2>2. m.type # "inSync" /\ inSync[x]
    BY <1>10, <1>14, <2>1 DEF Handled
  <2>3. ~Removes(m, k)
    BY <1>9, <1>10, <2>1, <2>2 DEF Handled, Removes
  <2>4. CASE bridges'[x][k] = bridges[x][k]
    <3>1. Owned(k, bridges[x][k], x)
      BY <1>7, <1>18, <2>1, <2>2, <2>3, <2>4 DEF BridgeInv
    <3>2. \A sp : sp = bridges[x][k] => Owned(k, sp, x)'
      BY <1>2, <3>1, Outside
    <3>. QED
      BY <2>4, <3>2 DEF Owned
  <2>5. CASE bridges'[x][k] # bridges[x][k]
    <3>1. m.type = "create" /\ m.pn = k /\ bridges'[x][k] = m.spec
      BY <1>9, <1>10, <2>1, <2>2, <2>5 DEF Handled
    <3>2. Comes(c, k, m.spec)
      BY <1>7, <1>18, <2>2, <3>1 DEF StreamInv
    <3>3. Owned(k, m.spec, x)
      BY <1>9, <1>18, <2>1, <3>1, <3>2 DEF QueueInv
    <3>4. \A sp : sp = m.spec => Owned(k, sp, x)'
      BY <1>2, <3>3, Outside
    <3>. QED
      BY <3>1, <3>4 DEF Owned
  <2>. QED
    BY <2>4, <2>5
<1>22. ASSUME NEW n \in Nodes PROVE NodeAll(n)'
  <2>1. NodeAll(x)'
    BY <1>19, <1>20, <1>21 DEF NodeAll
  <2>. QED
    BY <1>17, <2>1
<1>. QED
  BY <1>2, <1>6, <1>11, <1>13, <1>16, <1>22, ServerStep

(***************************************************************************)
(* The specification.                                                      *)
(***************************************************************************)

\* At the start nothing is there.
LEMMA InitInv == Init => IInv
<1>. SUFFICES ASSUME Init PROVE IInv
  OBVIOUS
<1>. DEFINE z == Tombstone(0, 0)
<1>1. z \in Objects /\ z.rv = 0 /\ ~z.live /\ ~z.fin
  BY TombstoneType
<1>. HIDE DEF z
<1>2. /\ api = [k \in Pns |-> z] /\ cache = api /\ pending = [k \in Pns |-> {}] /\ queue = {}
      /\ pc = "idle" /\ req = NoVal /\ cr = z
  BY DEF Init, z
<1>3. KubeType /\ WorkerType /\ OvnType
  BY <1>1, <1>2 DEF Init, KubeType, WorkerType, OvnType, Pcs
<1>4. ServerType /\ AgentType
  BY DEF Init, ServerType, AgentType
<1>5. ChanType
  <2>1. <<>> \in Seq(Messages) /\ Len(<<>>) = 0 /\ 0 <= MaxChan
    BY Constants
  <2>. QED
    BY <2>1 DEF Init, ChanType
<1>6. TablesType /\ CountType
  BY DEF Init, TablesType, Tables, CountType
<1>7. TypeOK
  BY <1>3, <1>4, <1>5, <1>6, TypeParts
<1>8. KubeInv
  <2>. SUFFICES ASSUME NEW k \in Pns PROVE VersionsInv(k)
    BY DEF KubeInv, VersionsInv
  <2>1. api[k] = z /\ cache[k] = z /\ \A v \in Versions(k) : v = z
    BY <1>2 DEF Versions
  <2>. QED
    BY <1>1, <2>1
    DEF VersionsInv, VersionsOrdered, FinalizerKept, NoWayBack, SameObject, Holds
<1>9. CopyInv /\ SubsInv /\ ListInv
  BY DEF Init, CopyInv, SubsInv, ListInv
<1>10. ToldInv
  BY <1>1, <1>2 DEF ToldInv, Announced
<1>11. NodeInv
  <2>. SUFFICES ASSUME NEW n \in Nodes PROVE StreamInv(n) /\ BridgeInv(n) /\ QueueInv(n)
    BY DEF NodeInv
  <2>1. ~up[n] /\ chan[n] = <<>> /\ ~inSync[n] /\ clients[n] = NoVal /\ broken = {}
    BY DEF Init
  <2>2. ~Synced(chan[n]) /\ OneSync(chan[n])
    BY <2>1 DEF Synced, OneSync
  <2>. QED
    BY <2>1, <2>2 DEF StreamInv, BridgeInv, QueueInv, Settled, Current
<1>. QED
  BY <1>7, <1>8, <1>9, <1>10, <1>11 DEF IInv

\* A step that changes nothing.
LEMMA StutterInv == ASSUME IInv, UNCHANGED vars PROVE IInv'
<1>1. ServerType /\ AgentType /\ ChanType /\ TablesType /\ CountType
  BY TypeParts DEF IInv
<1>2. /\ UNCHANGED kubeState /\ UNCHANGED <<serverVars, agentVars, chan, history, faults, bounds>>
      /\ UNCHANGED <<clients, broken, subs, stream, up, inSync, store, seen, nodeVars, bridges,
                     unlisted, leftover>>
  BY DEF vars, kubeState, serverVars, agentVars, nodeVars, history
<1>3. api' = api
  BY <1>2, Outside
<1>4. ServerType' /\ AgentType' /\ ChanType' /\ TablesType' /\ CountType'
  BY <1>1, <1>2, TypeKept
<1>5. SubsInv' /\ ListInv'
  BY <1>2, <1>3 DEF IInv, SubsInv, ListInv
<1>6. ASSUME NEW n \in Nodes PROVE ToldStep(n) /\ NodeAll(n)'
  <2>1. SubsOf(n)' = SubsOf(n) /\ (Current(n)' <=> Current(n)) /\ (Running(n)' <=> Running(n))
    BY <1>2 DEF SubsOf, Current, Running
  <2>2. SameNode(n)
    BY <1>2, <2>1 DEF SameNode
  <2>3. ToldStep(n)
    BY <1>2, <1>3, <2>1, ToldKept
  <2>. QED
    BY <1>2, <2>2, <2>3, NodeSame
<1>. QED
  BY <1>2, <1>4, <1>5, <1>6, ServerStep

\* Every step keeps the invariant.
LEMMA NextInv == IInv /\ [Next]_vars => IInv'
<1>. SUFFICES ASSUME IInv, [Next]_vars PROVE IInv'
  OBVIOUS
<1>1. CASE UNCHANGED vars
  BY <1>1, StutterInv
<1>2. ASSUME NEW k \in Pns,
             UserCreate(k) \/ UserDelete(k) \/ Deliver(k) \/ Resync(k) \/ Reconcile(k)
      PROVE  IInv'
  BY <1>2, UserInv, WatchInv, ReconcileInv
<1>3. CASE WorkerStep
  BY <1>3, AddFinalizerInv, OvnInv, NotifyInv, UpdateStatusInv, UpdateDeleteStatusInv,
     RemoveFinalizerInv DEF WorkerStep
<1>4. ASSUME NEW s \in subs, SubscribeStep(s) PROVE IInv'
  BY <1>4, SubscribeRegisterInv, SubscribeListInv, SubscribeSendInv, SubscribeInSyncInv
  DEF SubscribeStep
<1>5. ASSUME NEW n \in Nodes, AgentSubscribe(n) \/ HandleNotif(n) \/ AgentDie(n) \/ NoticeBroken(n)
      PROVE  IInv'
  BY <1>5, AgentSubscribeInv, HandleNotifInv, AgentDieInv, NoticeBrokenInv
<1>6. CASE Crash
  BY <1>6, CrashInv
<1>. QED
  BY <1>1, <1>2, <1>3, <1>4, <1>5, <1>6 DEF Next

\* The inductive invariant of controller, notification server and agents.
THEOREM Invariance == Spec => []IInv
BY InitInv, NextInv, PTL DEF Spec

\* Every variable keeps its type, the worker of Reconcile works on an object that
\* existed when it was read, and Send never overruns a stream's window.
THEOREM TypeCorrect == Spec => []TypeOK
<1>1. IInv => TypeOK
  BY DEF IInv
<1>. QED
  BY <1>1, Invariance, PTL

(***************************************************************************)
(* A running agent's stream is in clientList, or is about to be put there, *)
(* or was replaced there by the Subscribe call of an earlier one.          *)
(***************************************************************************)
Registering(n) ==
  \E s \in subs : s.node = n /\ s.stream = stream[n] /\ s.step = "register"
Linked(n) == up[n] /\ n \notin displaced => Current(n) \/ Registering(n)
LinkInv == \A n \in Nodes : Linked(n)

\* A node whose stream and whose place in clientList are left alone, and whose
\* Subscribe call, if it has not put the stream there, does not end.
LEMMA LinkedKept ==
  ASSUME NEW n \in Nodes, Linked(n), up'[n] = up[n], n \in displaced => n \in displaced',
         clients'[n] = clients[n], stream'[n] = stream[n],
         \A s \in subs : s.step = "register" => s \in subs'
  PROVE  Linked(n)'
BY DEF Linked, Current, Registering

\* Steps that touch neither clientList nor agents and Subscribe calls.
LEMMA LinkQuiet ==
  ASSUME LinkInv, UNCHANGED <<clients, subs, stream, up, displaced>> PROVE LinkInv'
BY LinkedKept DEF LinkInv

\* Agents of D die, and at most Subscribe calls of theirs or of earlier streams end.
LEMMA LinkDie ==
  ASSUME IInv, LinkInv, NEW D \in SUBSET Nodes, Die(D),
         \A n \in Nodes : n \notin D => clients'[n] = clients[n] /\ stream'[n] = stream[n],
         \A s \in subs : s.stream = stream[s.node] /\ s.node \notin D => s \in subs'
  PROVE  LinkInv'
<1>. SUFFICES ASSUME NEW n \in Nodes PROVE Linked(n)'
  BY DEF LinkInv
<1>1. AgentType
  BY TypeParts DEF IInv
<1>2. CASE n \in D
  <2>1. ~up'[n]
    BY <1>1, <1>2 DEF Die, AgentType
  <2>. QED
    BY <2>1 DEF Linked
<1>3. CASE n \notin D
  <2>1. up'[n] = up[n] /\ (n \in displaced' <=> n \in displaced)
    BY <1>1, <1>3 DEF Die, AgentType
  <2>2. clients'[n] = clients[n] /\ stream'[n] = stream[n]
    BY <1>3
  <2>3. Registering(n) => Registering(n)'
    BY <1>3, <2>2 DEF Registering
  <2>. QED
    BY <2>1, <2>2, <2>3 DEF LinkInv, Linked, Current
<1>. QED
  BY <1>2, <1>3

\* An agent starts, with a Subscribe call that has yet to register its stream.
LEMMA LinkStart == ASSUME IInv, LinkInv, NEW x \in Nodes, AgentSubscribe(x) PROVE LinkInv'
<1>. DEFINE t == [node |-> x, stream |-> stream[x] + 1, step |-> "register", list |-> {}]
<1>1. ServerType /\ AgentType
  BY TypeParts DEF IInv
<1>2. /\ clients' = clients /\ displaced' = displaced /\ subs' = subs \cup {t}
      /\ up' = [up EXCEPT ![x] = TRUE] /\ stream' = [stream EXCEPT ![x] = @ + 1]
  BY DEF AgentSubscribe, history
<1>3. t.node = x /\ t.stream = stream[x] + 1 /\ t.step = "register"
  OBVIOUS
<1>. HIDE DEF t
<1>4. stream'[x] = stream[x] + 1
  BY <1>1, <1>2 DEF ServerType
<1>5. Linked(x)'
  BY <1>2, <1>3, <1>4 DEF Linked, Registering
<1>6. ASSUME NEW n \in Nodes, n # x PROVE Linked(n)'
  <2>1. up'[n] = up[n] /\ stream'[n] = stream[n]
    BY <1>1, <1>2, <1>6 DEF ServerType, AgentType
  <2>. QED
    BY <1>2, <2>1, LinkedKept DEF LinkInv
<1>. QED
  BY <1>5, <1>6 DEF LinkInv

\* A stream goes into clientList: that of the running agent, or one that replaces it.
LEMMA LinkRegister ==
  ASSUME IInv, LinkInv, NEW s \in subs, SubscribeRegister(s) PROVE LinkInv'
<1>1. ServerType /\ AgentType
  BY TypeParts DEF IInv
<1>2. s.node \in Nodes
  BY <1>1 DEF ServerType, Calls
<1>3. CASE /\ clients' = [clients EXCEPT ![s.node] = s.stream]
           /\ Replace(s, [s EXCEPT !.step = "list"])
           /\ displaced' = IF s.stream # stream[s.node] /\ Current(s.node)
                             THEN displaced \cup {s.node} ELSE displaced
           /\ UNCHANGED <<up, stream>>
  <2>1. clients'[s.node] = s.stream /\ \A n \in Nodes : n # s.node => clients'[n] = clients[n]
    BY <1>1, <1>2, <1>3 DEF ServerType
  <2>2. \A u \in subs : u # s => u \in subs'
    BY <1>3 DEF Replace
  <2>3. ASSUME NEW n \in Nodes, n # s.node \/ stream[n] # s.stream, Registering(n)
        PROVE  Registering(n)'
    BY <1>3, <2>2, <2>3 DEF Registering
  <2>4. ASSUME NEW n \in Nodes, n # s.node PROVE Linked(n)'
    BY <1>3, <2>1, <2>3, <2>4 DEF LinkInv, Linked, Current
  <2>5. CASE stream[s.node] = s.stream
    <3>1. Linked(s.node)'
      BY <1>3, <2>1, <2>5 DEF Linked, Current
    <3>. QED
      BY <2>4, <3>1 DEF LinkInv
  <2>6. CASE stream[s.node] # s.stream
    <3>1. CASE Current(s.node)
      <4>1. s.node \in displaced'
        BY <1>3, <2>6, <3>1
      <4>2. Linked(s.node)'
        BY <4>1 DEF Linked
      <4>. QED
        BY <2>4, <4>2 DEF LinkInv
    <3>2. CASE ~Current(s.node)
      <4>1. Linked(s.node)'
        BY <1>2, <1>3, <2>3, <2>6, <3>2 DEF LinkInv, Linked
      <4>. QED
        BY <2>4, <4>1 DEF LinkInv
    <3>. QED
      BY <3>1, <3>2
  <2>. QED
    BY <2>5, <2>6
<1>4. CASE /\ subs' = subs \ {s} /\ Die({n \in {s.node} : stream[n] = s.stream})
           /\ UNCHANGED <<clients, stream>>
  <2>. DEFINE D == {n \in {s.node} : stream[n] = s.stream}
  <2>1. D \in SUBSET Nodes /\ Die(D)
    BY <1>2, <1>4
  <2>2. ASSUME NEW u \in subs, u.stream = stream[u.node], u.node \notin D PROVE u \in subs'
    BY <1>4, <2>2
  <2>. HIDE DEF D
  <2>. QED
    BY <1>4, <2>1, <2>2, LinkDie
<1>. QED
  BY <1>3, <1>4 DEF SubscribeRegister

\* Every step keeps the link.
LEMMA LinkNext == ASSUME IInv, LinkInv, [Next]_vars PROVE LinkInv'
<1>1. ASSUME NEW k \in Pns,
             UserCreate(k) \/ UserDelete(k) \/ Deliver(k) \/ Resync(k) \/ Reconcile(k)
      PROVE  UNCHANGED <<clients, subs, stream, up, displaced>>
  BY <1>1 DEF UserCreate, UserDelete, UserStep, Deliver, Resync, Reconcile, serverVars,
              agentVars, history
<1>2. ASSUME WorkerStep PROVE UNCHANGED <<clients, subs, stream, up, displaced>>
  BY <1>2 DEF WorkerStep, AddFinalizer, OvnCreate, NotifyCreate, UpdateStatus, NotifyDelete,
              OvnDelete, UpdateDeleteStatus, RemoveFinalizer, serverVars, agentVars, history
<1>3. ASSUME NEW n \in Nodes, HandleNotif(n) \/ NoticeBroken(n)
      PROVE  UNCHANGED <<clients, subs, stream, up, displaced>>
  BY <1>3 DEF HandleNotif, NoticeBroken, serverVars, agentVars, history
<1>4. ASSUME UNCHANGED vars PROVE UNCHANGED <<clients, subs, stream, up, displaced>>
  BY <1>4 DEF vars, serverVars, agentVars, history
<1>5. ASSUME NEW s \in subs, SubscribeList(s) \/ SubscribeSend(s) \/ SubscribeInSync(s)
      PROVE  LinkInv'
  <2>1. UNCHANGED <<clients, stream, up, displaced>> /\ s.step # "register"
    BY <1>5 DEF SubscribeList, SubscribeSend, SubscribeInSync, agentVars, history
  <2>2. \A u \in subs : u # s => u \in subs'
    <3>1. CASE SubscribeList(s)
      BY <3>1 DEF SubscribeList, Replace
    <3>2. CASE SubscribeSend(s)
      BY <3>2, SubscribeSends DEF Replace
    <3>3. CASE SubscribeInSync(s)
      BY <3>3 DEF SubscribeInSync
    <3>. QED
      BY <1>5, <3>1, <3>2, <3>3
  <2>. QED
    BY <2>1, <2>2, LinkedKept DEF LinkInv
<1>6. ASSUME NEW n \in Nodes, AgentDie(n) PROVE LinkInv'
  <2>1. Die({n}) /\ UNCHANGED <<clients, subs, stream>> /\ {n} \in SUBSET Nodes
    BY <1>6 DEF AgentDie, serverVars
  <2>. QED
    BY <2>1, LinkDie
<1>7. ASSUME Crash PROVE LinkInv'
  <2>1. AgentType
    BY TypeParts DEF IInv
  <2>2. \A n \in Nodes : ~up'[n]
    BY <1>7, <2>1 DEF Crash, Die, AgentType
  <2>. QED
    BY <2>2 DEF LinkInv, Linked
<1>. QED
  BY <1>1, <1>2, <1>3, <1>4, <1>5, <1>6, <1>7, LinkQuiet, LinkStart, LinkRegister
  DEF Next, SubscribeStep

\* No agent runs when the system starts.
LEMMA LinkInit == Init => LinkInv
BY DEF Init, LinkInv, Linked

\* A running agent whose stream is not in clientList has a Subscribe call that has yet
\* to put it there, or that of an earlier stream has replaced it.
THEOREM LinkInvariance == Spec => [](IInv /\ LinkInv)
<1>1. IInv /\ LinkInv /\ [Next]_vars => (IInv /\ LinkInv)'
  BY NextInv, LinkNext
<1>. QED
  BY <1>1, InitInv, LinkInit, PTL DEF Spec

\* Because Subscribe puts its stream into clientList before it lists, a provider
\* network that is reported Created is never lost between SendNotif of the controller
\* and the list of a Subscribe call, for all networks, nodes and restarts, unless the
\* Subscribe call of an earlier stream puts that one into clientList last.
THEOREM NoLostCreateHolds == Spec => []NoLostCreate
<1>1. ASSUME IInv, LinkInv PROVE NoLostCreate
  <2>. SUFFICES ASSUME NEW k \in Pns, NEW n \in Nodes, api[k].live, api[k].state = "Created",
                       n \in Selected(api[k].spec), up[n], n \notin displaced
                PROVE  Told(k, api[k].inc, n) \/ Registering(n)
    BY DEF NoLostCreate, Told, Creates, WillTell, Registering
  <2>1. Announced(k)
    BY DEF Announced
  <2>2. Current(n) \/ Registering(n)
    BY <1>1 DEF LinkInv, Linked
  <2>. QED
    BY <1>1, <2>1, <2>2 DEF IInv, ToldInv
<1>. QED
  BY <1>1, LinkInvariance, PTL

\* deleteNetwork sends the removal before the finalizer goes, behind every create
\* message of the stream and the Subscribe call, so an agent in sync that has read its
\* stream keeps no bridge of an object that is gone, unless the removal was not sent, not
\* understood or failed, InSync left the bridge, or the Subscribe call of an earlier
\* stream sent a create message late or put its stream into clientList last.
THEOREM RemovalReachesNodeHolds == Spec => []RemovalReachesNode
<1>1. ASSUME IInv, LinkInv PROVE RemovalReachesNode
  <2>. SUFFICES ASSUME NEW k \in Pns, NEW n \in Nodes, ~api[k].live, up[n], inSync[n],
                       n \notin leftover, n \notin displaced,
                       bridges[n][k] # NoVal, bridges[n][k].sel # "ANY",
                       Removable(bridges[n][k]),
                       ~\E i \in 1..Len(chan[n]) :
                          chan[n][i].type = "remove" /\ chan[n][i].pn = k
                PROVE  FALSE
    BY DEF RemovalReachesNode
  <2>1. Settled(n)
    <3>1. ~Running(n)
      BY <1>1 DEF IInv, NodeInv, StreamInv
    <3>2. ~Registering(n)
      BY <3>1 DEF Running, Registering
    <3>. QED
      BY <1>1, <3>1, <3>2 DEF LinkInv, Linked, Settled
  <2>2. Stays(chan[n], k)
    BY DEF Stays, Removes
  <2>3. Owned(k, bridges[n][k], n)
    BY <1>1, <2>1, <2>2 DEF IInv, NodeInv, BridgeInv, Removed
  <2>4. api[k].fin => api[k].live
    BY <1>1, TypeParts, ObjectFields DEF IInv, KubeType
  <2>. QED
    BY <2>3, <2>4 DEF Owned
<1>. QED
  BY <1>1, LinkInvariance, PTL
=============================================================================

------------------------ MODULE PodControllerProofs ------------------------
(***************************************************************************)
(* Safety of PodController for every set of pods, switches and requests    *)
(* and every bound, by an inductive invariant.                             *)
(***************************************************************************)
EXTENDS PodController, WellFoundedInduction, TLAPS

(***************************************************************************)
(* The inductive invariant.                                                *)
(***************************************************************************)
Adding == {"find", "lspAdd", "readAddress", "patch"}

\* The worker: a run on a live pod works through the list of that pod and has an
\* entry for every interface before the one at hand; a run on a pod that is gone
\* deletes ports.
WorkerInv ==
  /\ pc = "idle" => req = NoVal
  /\ pc \in Adding => obj.live /\ todo = Todo(obj) /\ idx \in 1..Len(todo)
  /\ pc \in Adding \ {"patch"} => Len(entries) = idx - 1
  /\ pc = "patch" => Len(entries) = Len(todo)
  /\ pc \in {"listPorts", "lspDel"} => ~obj.live
  /\ pc \notin Adding => entries = <<>>

\* Who will remove the ports of pod p: its deletion is still to come, is in the
\* queue or at hand, or has been missed.
OwnerInv ==
  /\ \A n \in PortNames : ports[n] # NoVal =>
       cache[n[1]].live \/ n[1] \in queue \/ req = n[1] \/ n[1] \in missed
  /\ pc \in Adding => cache[req].live \/ req \in queue
  /\ pc = "lspDel" =>
       \A n \in PortNames : n[1] = req /\ ports[n] # NoVal => n \in toDel \/ req \in missed

\* v is an earlier version of the pod that is w now.
Before(v, w) ==
  /\ v.inc <= w.inc
  /\ v.inc = w.inc /\ w.live => v.live /\ v.nfn = w.nfn /\ v.ifs = w.ifs

\* The informer hands out the versions of a pod in order.
VersionInv(p) ==
  /\ Before(cache[p], api[p])
  /\ \A v \in pending[p] : Before(v, api[p]) /\ v.rv <= api[p].rv /\ cache[p].inc <= v.inc
  /\ \A v, w \in pending[p] : v.rv <= w.rv => v.inc <= w.inc

\* A run is on a version that the cache had.
ObjInv(p) == req = p => Before(obj, api[p]) /\ obj.inc <= cache[p].inc

\* Annotations are made for pods that the cache has seen, and no run is on a pod
\* before those.
AnnInv(p) ==
  \A a \in {api[p].ann, configured[p]} \ {NoVal} :
    /\ api[p].live /\ a.inc <= cache[p].inc
    /\ req = p => a.inc <= obj.inc

\* Address a is one that NewAddress gives for request r.
Fits(a, r) ==
  /\ a.sw = r.sw /\ a.ip = r.ip
  /\ a.mac = IF r.ip = NoVal THEN NoVal ELSE r.mac
  /\ r.ip # NoVal => ((a.tag = NoVal) <=> (r.mac # NoVal))

\* Port address a is what entry e says, up to a drawn MAC.
Kept(a, e) ==
  a = e.addr \/ (Drawn(e.addr) /\ a # NoVal /\ a.sw = e.addr.sw /\ a.ip = e.addr.ip)

Apart(t) == \A i, j \in 1..Len(t) : t[i].intf = t[j].intf => i = j

\* The entries es were made for the requests t of pod p, and pt still has them.
Backed(pt, p, es, t) ==
  \A i \in 1..Len(es) :
    /\ es[i].port = <<p, t[i].intf>> /\ Fits(es[i].addr, t[i])
    /\ es[i].addr.ip = NoVal => es[i].addr.tag # NoVal
    /\ Apart(t) => Kept(pt[es[i].port], es[i])

\* What the pod was configured with, or will be, is complete and backed by OVN.
ListInv(p) ==
  \A a \in {api[p].ann, configured[p]} \ {NoVal} :
    a.inc = api[p].inc =>
      Len(a.entries) = Len(Todo(api[p])) /\ Backed(ports, p, a.entries, Todo(api[p]))

\* So is what the run at hand has made, unless its pod is gone.
RunInv(p) ==
  req = p /\ pc \in Adding =>
    /\ api[p].live /\ obj.inc = api[p].inc => Backed(ports, p, entries, todo)
    /\ pc = "readAddress" => ports[port] # NoVal /\ Fits(ports[port], now)

\* Distinct pods have names of which none is part of the other.
NamesApart == \A p, q \in Pods : <<p, q>> \in Contains => p = q

OwnPorts == pc = "lspDel" => \A n \in toDel : n[1] = req

IInv == TypeOK /\ WorkerInv /\ OwnerInv

MatchInv ==
  /\ IInv /\ OwnPorts
  /\ \A p \in Pods : VersionInv(p) /\ ObjInv(p) /\ AnnInv(p)
  /\ \A p \in Pods \ cut : ListInv(p) /\ RunInv(p)

(***************************************************************************)
(* Facts about the constants and the operators of the model.               *)
(***************************************************************************)

\* What ConstantsAssumption says of the default network and of NoVal.
LEMMA NoValFacts ==
  /\ DefaultNw \in Switches
  /\ NoVal \notin Pods /\ NoVal \notin Switches /\ NoVal \notin Tags
BY ConstantsAssumption

\* The fields of a pod's spec.
LEMMA SpecFacts ==
  ASSUME NEW s \in PodSpecs
  PROVE  s.host \in BOOLEAN /\ s.nfn \in NfnTypes /\ s.ifs \in Seq(Requests)
<1>1. s \in [host: BOOLEAN, nfn: NfnTypes, ifs: Seq(Requests)]
  BY ConstantsAssumption
<1>. QED
  BY <1>1

\* A non-empty set of positions has a last one.
LEMMA LastOne ==
  ASSUME NEW i \in Nat, NEW js \in SUBSET (1..i), js # {}
  PROVE  \E j \in js : \A k \in js : k <= j
<1>. DEFINE R == {ss \in Nat \X Nat : ss[1] < ss[2]}
            ds == {d \in Nat : i - d \in js}
<1>1. IsWellFoundedOn(R, Nat)
  BY NatLessThanWellFounded DEF OpToRel
<1>2. ds \subseteq Nat /\ \A j \in js : i - j \in ds
  OBVIOUS
<1>3. ds # {}
  BY <1>2
<1>4. \E x \in ds : \A y \in ds : ~(<<y, x>> \in R)
  <2>. HIDE DEF R, ds
  <2>. QED
    BY <1>1, <1>2, <1>3, WFMin
<1>5. PICK x \in ds : \A y \in ds : ~(<<y, x>> \in R)
  BY <1>4
<1>6. \A y \in Nat : y < x => <<y, x>> \in R
  BY <1>2
<1>7. ASSUME NEW k \in js PROVE k <= i - x
  <2>1. i - k \in ds /\ k \in Nat /\ x \in Nat
    BY <1>2
  <2>2. ~(i - k < x)
    <3>. HIDE DEF R
    <3>. QED
      BY <1>2, <1>5, <1>6, <2>1
  <2>. QED
    BY <2>1, <2>2
<1>. QED
  BY <1>7

\* Latest answers with one of the values it is given.
LEMMA LatestType ==
  ASSUME NEW S, NEW n \in Nat, NEW x \in [1..n -> S \cup {NoVal}], NEW i \in 1..n
  PROVE  Latest(x, i) \in S \cup {NoVal}
<1>. DEFINE js == {j \in 1..i : x[j] # NoVal}
<1>1. CASE js = {}
  BY <1>1 DEF Latest
<1>2. CASE js # {}
  <2>1. \E j \in js : \A k \in js : k <= j
    <3>1. i \in Nat /\ js \in SUBSET (1..i)
      OBVIOUS
    <3>. QED
      BY <3>1, <1>2, LastOne
  <2>2. (CHOOSE j \in js : \A k \in js : k <= j) \in 1..i
    BY <2>1
  <2>. QED
    BY <2>2, <1>2 DEF Latest
<1>. QED
  BY <1>1, <1>2

\* What AddLogicalPorts decodes from the nfn-network annotation is a list of requests.
LEMMA DecodedType ==
  ASSUME NEW ifs \in Seq(Requests)
  PROVE  Decoded(ifs) \in Seq(Requests)
<1>. DEFINE n == Len(ifs)
            names == Intfs \cup {"*"}
<1>1. n \in Nat /\ \A j \in 1..n : ifs[j] \in Requests
  OBVIOUS
<1>2. \A r \in Requests : /\ r.sw \in Switches /\ r.intf \in names \cup {NoVal}
                          /\ r.ip \in Ips \cup {NoVal} /\ r.mac \in Macs \cup {NoVal}
  BY DEF Requests
<1>3. /\ [j \in 1..n |-> ifs[j].intf] \in [1..n -> names \cup {NoVal}]
      /\ [j \in 1..n |-> ifs[j].ip] \in [1..n -> Ips \cup {NoVal}]
      /\ [j \in 1..n |-> ifs[j].mac] \in [1..n -> Macs \cup {NoVal}]
  BY <1>1, <1>2
<1>. DEFINE intf(i) == Latest([j \in 1..n |-> ifs[j].intf], i)
            ip(i) == Latest([j \in 1..n |-> ifs[j].ip], i)
            mac(i) == Latest([j \in 1..n |-> ifs[j].mac], i)
<1>4. \A i \in 1..n : /\ intf(i) \in names \cup {NoVal}
                      /\ ip(i) \in Ips \cup {NoVal} /\ mac(i) \in Macs \cup {NoVal}
  BY <1>1, <1>3, LatestType
<1>. HIDE DEF intf, ip, mac
<1>5. \A i \in 1..n :
        [sw |-> ifs[i].sw, intf |-> IF intf(i) = NoVal /\ i > 1 THEN "*" ELSE intf(i),
         ip |-> ip(i), mac |-> mac(i)] \in Requests
  BY <1>1, <1>2, <1>4 DEF Requests
<1>6. Decoded(ifs) =
        [i \in 1..n |->
          [sw |-> ifs[i].sw, intf |-> IF intf(i) = NoVal /\ i > 1 THEN "*" ELSE intf(i),
           ip |-> ip(i), mac |-> mac(i)]]
  BY DEF Decoded, intf, ip, mac
<1>. QED
  BY <1>1, <1>5, <1>6

\* The list a run works through is never empty: AddLogicalPorts appends the default
\* interface unless one of the requests is for the default network.
LEMMA TodoType ==
  ASSUME NEW v \in Versions
  PROVE  Todo(v) \in Seq(Requests) /\ Len(Todo(v)) >= 1
<1>. DEFINE ifs == IF v.nfn = "ovn4nfv" THEN v.ifs ELSE <<>>
<1>1. ifs \in Seq(Requests)
  BY DEF Versions
<1>2. DefaultRequest \in Requests
  BY NoValFacts DEF DefaultRequest, Requests
<1>3. Decoded(ifs) \in Seq(Requests)
  BY <1>1, DecodedType
<1>4. Len(Decoded(ifs)) = Len(ifs)
  <2>1. DOMAIN Decoded(ifs) = 1..Len(ifs)
    BY DEF Decoded
  <2>. QED
    BY <1>1, <1>3, <2>1
<1>. HIDE DEF ifs
<1>5. CASE \E i \in 1..Len(ifs) : ifs[i].sw = DefaultNw
  <2>1. Todo(v) = Decoded(ifs)
    BY <1>5 DEF Todo, ifs
  <2>. QED
    BY <1>1, <1>3, <1>4, <1>5, <2>1
<1>6. CASE ~\E i \in 1..Len(ifs) : ifs[i].sw = DefaultNw
  <2>1. Todo(v) = Append(Decoded(ifs), DefaultRequest)
    BY <1>6 DEF Todo, ifs
  <2>. QED
    BY <1>2, <1>3, <2>1
<1>. QED
  BY <1>5, <1>6

\* The interfaces to make depend on the annotation of the pod only.
LEMMA TodoOfSpec ==
  ASSUME NEW v, NEW w, v.nfn = w.nfn, v.ifs = w.ifs
  PROVE  Todo(v) = Todo(w)
BY DEF Todo

\* The last version of a pod that is deleted is a version, without annotation.
LEMMA GoneType ==
  ASSUME NEW rv \in Nat, NEW inc \in Nat
  PROVE  /\ Gone(rv, inc) \in Versions /\ ~Gone(rv, inc).live /\ Gone(rv, inc).ann = NoVal
         /\ Gone(rv, inc).rv = rv /\ Gone(rv, inc).inc = inc
BY DEF Gone, Versions, NfnTypes

(***************************************************************************)
(* Types.                                                                  *)
(***************************************************************************)
KubeType ==
  /\ api \in [Pods -> Versions] /\ cache \in [Pods -> Versions]
  /\ pending \in [Pods -> SUBSET Versions] /\ queue \subseteq Pods
  /\ configured \in [Pods -> Annotations \cup {NoVal}]

WorkType ==
  /\ pc \in Pcs /\ req \in Pods \cup {NoVal} /\ (pc # "idle" => req \in Pods)
  /\ obj \in Versions /\ todo \in Seq(Requests) /\ idx \in Nat
  /\ pc \in {"find", "lspAdd", "readAddress"} => idx \in 1..Len(todo)
  /\ entries \in Seq(Entries) /\ toDel \subseteq PortNames

OvnType ==
  /\ switches \subseteq Switches
  /\ ports \in [PortNames -> Addresses \cup {NoVal}]
  /\ cut \subseteq Pods /\ missed \subseteq Pods
  /\ faults \in Nat /\ crashes \in Nat /\ ops \in Nat /\ switchOps \in Nat

\* The parts together are TypeOK.
LEMMA TypeParts == TypeOK <=> KubeType /\ WorkType /\ OvnType
BY DEF TypeOK, KubeType, WorkType, OvnType

\* Also in the next state.
LEMMA TypePartsNext == TypeOK' <=> KubeType' /\ WorkType' /\ OvnType'
BY DEF TypeOK, KubeType, WorkType, OvnType

\* The fields of a version.
LEMMA VersionType ==
  ASSUME NEW v \in Versions
  PROVE  /\ v.live \in BOOLEAN /\ v.rv \in Nat /\ v.inc \in Nat /\ v.node \in BOOLEAN
         /\ v.host \in BOOLEAN /\ v.nfn \in NfnTypes /\ v.ifs \in Seq(Requests)
         /\ v.ann \in Annotations \cup {NoVal}
BY DEF Versions

\* What a writer of a pod may change.
Touched(v, rv) == [v EXCEPT !.rv = rv]
Scheduled(v, rv) == [v EXCEPT !.rv = rv, !.node = TRUE]
Annotated(v, rv, a) == [v EXCEPT !.rv = rv, !.ann = a]

\* A version that the kubelet, the scheduler or the patch has changed is a version.
LEMMA ChangedType ==
  ASSUME NEW v \in Versions, NEW rv \in Nat
  PROVE  /\ Touched(v, rv) \in Versions /\ Scheduled(v, rv) \in Versions
         /\ \A a \in Annotations : Annotated(v, rv, a) \in Versions
<1>1. [v EXCEPT !.rv = rv] \in Versions
  BY DEF Versions
<1>2. [v EXCEPT !.rv = rv, !.node = TRUE] \in Versions
  BY DEF Versions
<1>3. ASSUME NEW a \in Annotations PROVE [v EXCEPT !.rv = rv, !.ann = a] \in Versions
  BY DEF Versions
<1>. QED
  BY <1>1, <1>2, <1>3 DEF Touched, Scheduled, Annotated

\* A new version of a pod that the API server stores.
Created(v, s) ==
  [live |-> TRUE, rv |-> v.rv + 1, inc |-> v.inc + 1, node |-> FALSE, host |-> s.host,
   nfn |-> s.nfn, ifs |-> s.ifs, ann |-> NoVal]

\* So is that of a pod created again.
LEMMA CreatedType ==
  ASSUME NEW v \in Versions, NEW s \in PodSpecs
  PROVE  Created(v, s) \in Versions
<1>1. v.rv \in Nat /\ v.inc \in Nat
  BY VersionType
<1>. QED
  BY <1>1, SpecFacts DEF Created, Versions

\* A port's name begins with that of its pod.
LEMMA PortNameFacts ==
  ASSUME NEW n \in PortNames
  PROVE  n[1] \in Pods
BY DEF PortNames

\* The annotation that the run at hand has made.
Made == [inc |-> obj.inc, entries |-> entries]

\* What users, the scheduler, the kubelet and setPodAnnotation store.
LEMMA Writes ==
  ASSUME TypeOK
  PROVE  /\ \A p \in Pods : UserCreate(p) => \E s \in PodSpecs : UserStep(p, Created(api[p], s))
         /\ \A p \in Pods : KubeletUpdate(p) => UserStep(p, Touched(api[p], api[p].rv + 1))
         /\ \A p \in Pods : Schedule(p) => Store(p, Scheduled(api[p], api[p].rv + 1))
         /\ SetPodAnnotation =>
              \/ UNCHANGED <<api, pending>>
              \/ api[req].live /\ Store(req, Annotated(api[req], api[req].rv + 1, Made))
<1>1. \A p \in Pods : UserCreate(p) => \E s \in PodSpecs : UserStep(p, Created(api[p], s))
  BY DEF UserCreate, Created
<1>2. \A p \in Pods : KubeletUpdate(p) => UserStep(p, Touched(api[p], api[p].rv + 1))
  BY DEF KubeletUpdate, Touched
<1>3. \A p \in Pods : Schedule(p) => Store(p, Scheduled(api[p], api[p].rv + 1))
  BY DEF Schedule, Scheduled
<1>4. SetPodAnnotation =>
        \/ UNCHANGED <<api, pending>>
        \/ api[req].live /\ Store(req, Annotated(api[req], api[req].rv + 1, Made))
  BY DEF SetPodAnnotation, Annotated, Made
<1>. QED
  BY <1>1, <1>2, <1>3, <1>4

\* Storing a version keeps the store and the watch well typed.
LEMMA StoreType ==
  ASSUME KubeType, NEW p \in Pods, NEW v \in Versions, Store(p, v)
  PROVE  api' \in [Pods -> Versions] /\ pending' \in [Pods -> SUBSET Versions]
BY DEF KubeType, Store

\* Every step keeps the types of store, watch and cache.
LEMMA KubeStep ==
  ASSUME TypeOK, [Next]_vars
  PROVE  KubeType'
<1>. USE TypeParts DEF KubeType
<1>1. ASSUME NEW p \in Pods, UserCreate(p) \/ UserDelete(p) \/ KubeletUpdate(p)
      PROVE  KubeType'
  <2>1. api[p] \in Versions /\ api[p].rv + 1 \in Nat /\ api[p].inc \in Nat
    BY VersionType
  <2>2. PICK v \in Versions : UserStep(p, v)
    <3>1. CASE UserCreate(p)
      BY <3>1, <2>1, CreatedType, Writes
    <3>2. CASE UserDelete(p)
      BY <3>2, <2>1, GoneType DEF UserDelete
    <3>3. CASE KubeletUpdate(p)
      BY <3>3, <2>1, ChangedType, Writes
    <3>. QED
      BY <1>1, <3>1, <3>2, <3>3
  <2>3. api' \in [Pods -> Versions] /\ pending' \in [Pods -> SUBSET Versions]
    BY <2>2, StoreType DEF UserStep
  <2>4. configured' \in [Pods -> Annotations \cup {NoVal}]
    BY <1>1 DEF UserCreate, UserDelete, KubeletUpdate
  <2>. QED
    BY <2>2, <2>3, <2>4 DEF UserStep
<1>2. ASSUME NEW p \in Pods, Schedule(p) PROVE KubeType'
  <2>1. Scheduled(api[p], api[p].rv + 1) \in Versions
    BY ChangedType, VersionType
  <2>2. api' \in [Pods -> Versions] /\ pending' \in [Pods -> SUBSET Versions]
    BY <1>2, <2>1, StoreType, Writes
  <2>. QED
    BY <1>2, <2>2 DEF Schedule
<1>3. ASSUME NEW p \in Pods, Deliver(p) PROVE KubeType'
  BY <1>3 DEF Deliver
<1>4. ASSUME NEW p \in Pods, Resync(p) PROVE KubeType'
  BY <1>4 DEF Resync, kubeVars
<1>5. ASSUME NEW p \in Pods, CniAdd(p) PROVE KubeType'
  <2>1. api[p].ann \in Annotations \cup {NoVal}
    BY VersionType
  <2>. QED
    BY <1>5, <2>1 DEF CniAdd, kubeVars
<1>6. ASSUME NEW p \in Pods, Reconcile(p) PROVE KubeType'
  BY <1>6 DEF Reconcile, kubeVars
<1>7. CASE FindLogicalSwitch \/ LspAdd \/ ReadAddress
  <2>1. UNCHANGED <<api, pending, cache, configured>>
    BY <1>7 DEF FindLogicalSwitch, LspAdd, ReadAddress, kubeVars
  <2>2. queue' = queue \/ (req \in Pods /\ queue' = queue \cup {req})
    BY <1>7 DEF FindLogicalSwitch, LspAdd, ReadAddress, Goto, Retry, WorkType
  <2>. QED
    BY <2>1, <2>2
<1>8. CASE SetPodAnnotation
  <2>1. req \in Pods /\ Made \in Annotations
    BY <1>8, VersionType DEF SetPodAnnotation, WorkType, Annotations, Made
  <2>2. Annotated(api[req], api[req].rv + 1, Made) \in Versions
    BY <2>1, ChangedType, VersionType
  <2>3. api' \in [Pods -> Versions] /\ pending' \in [Pods -> SUBSET Versions]
    BY <1>8, <2>1, <2>2, StoreType, Writes
  <2>4. UNCHANGED <<cache, queue, configured>>
    BY <1>8 DEF SetPodAnnotation, Done
  <2>. QED
    BY <2>3, <2>4
<1>9. CASE ListPorts \/ LspDel
  BY <1>9 DEF ListPorts, LspDel, Done, kubeVars
<1>10. CASE Crash
  BY <1>10 DEF Crash
<1>11. CASE (\E n \in PortNames : Allocate(n)) \/ (\E s \in Switches : CreateSwitch(s) \/ DeleteSwitch(s))
  BY <1>11 DEF Allocate, CreateSwitch, DeleteSwitch, kubeVars
<1>12. CASE UNCHANGED vars
  BY <1>12 DEF vars, kubeVars
<1>. QED
  BY <1>1, <1>2, <1>3, <1>4, <1>5, <1>6, <1>7, <1>8, <1>9, <1>10, <1>11, <1>12
  DEF Next, WorkerStep

\* The worker is idle after its last call, with nothing in hand.
LEMMA FinishWork ==
  ASSUME Finish
  PROVE  WorkType' /\ WorkerInv'
<1>1. Gone(0, 0) \in Versions
  BY GoneType
<1>. QED
  BY <1>1 DEF Finish, WorkType, WorkerInv, Pcs, Adding

\* Every step keeps the worker within the list of interfaces of its pod.
LEMMA WorkStep ==
  ASSUME TypeOK, WorkerInv, [Next]_vars
  PROVE  WorkType' /\ WorkerInv'
<1>. USE TypeParts
<1>1. CASE UNCHANGED workerVars
  BY <1>1 DEF workerVars, WorkType, WorkerInv
<1>2. CASE Finish
  BY <1>2, FinishWork
<1>3. ASSUME NEW l \in Adding, pc \in Adding, pc # "patch", l # "patch", Goto(l)
      PROVE  WorkType' /\ WorkerInv'
  BY <1>3 DEF Goto, WorkType, WorkerInv, Pcs, Adding
<1>4. ASSUME NEW p \in Pods, Reconcile(p) PROVE WorkType' /\ WorkerInv'
  <2>1. cache[p] \in Versions
    BY DEF KubeType
  <2>2. pc = "idle" /\ entries = <<>>
    BY <1>4 DEF Reconcile, WorkerInv, Adding
  <2>. DEFINE Begin(l, t) ==
                /\ pc' = l /\ req' = p /\ obj' = cache[p] /\ todo' = t /\ idx' = 1
                /\ UNCHANGED <<entries, toDel>>
  <2>3. ASSUME ~cache[p].live, Begin("listPorts", <<>>) PROVE WorkType' /\ WorkerInv'
    BY <2>1, <2>2, <2>3 DEF WorkType, WorkerInv, Pcs, Adding
  <2>4. ASSUME cache[p].live, Begin(StepFor(cache[p], 1), Todo(cache[p]))
        PROVE  WorkType' /\ WorkerInv'
    <3>1. StepFor(cache[p], 1) \in {"find", "lspAdd"}
      BY DEF StepFor
    <3>2. Todo(cache[p]) \in Seq(Requests) /\ 1 \in 1..Len(Todo(cache[p]))
      BY <2>1, TodoType
    <3>. QED
      BY <2>1, <2>2, <2>4, <3>1, <3>2 DEF WorkType, WorkerInv, Pcs, Adding
  <2>. QED
    BY <1>1, <1>4, <2>3, <2>4 DEF Reconcile
<1>5. CASE ReadAddress /\ ~Finish
  <2>1. /\ pc = "readAddress" /\ ports[port] # NoVal
        /\ entries' = Append(entries, [port |-> port, addr |-> ports[port]])
        /\ IF idx < Len(todo)
             THEN pc' = StepFor(obj, idx + 1) /\ idx' = idx + 1
             ELSE pc' = "patch" /\ idx' = idx
        /\ UNCHANGED <<req, obj, todo, toDel>>
    BY <1>5 DEF ReadAddress, Retry
  <2>2. idx \in 1..Len(todo) /\ Len(entries) = idx - 1 /\ req \in Pods
    BY <2>1 DEF WorkerInv, WorkType, Adding
  <2>3. todo[idx] \in Requests
    BY <2>2 DEF WorkType
  <2>4. port \in PortNames
    BY <2>2, <2>3 DEF port, now, PortNames, Requests
  <2>5. [port |-> port, addr |-> ports[port]] \in Entries
    BY <2>1, <2>4 DEF OvnType, Entries
  <2>6. entries' \in Seq(Entries) /\ Len(entries') = idx
    BY <2>1, <2>2, <2>5 DEF WorkType
  <2>7. StepFor(obj, idx + 1) \in {"find", "lspAdd"}
    BY DEF StepFor
  <2>. QED
    BY <2>1, <2>2, <2>6, <2>7 DEF WorkType, WorkerInv, Pcs, Adding
<1>6. CASE FindLogicalSwitch \/ LspAdd
  BY <1>2, <1>3, <1>6 DEF FindLogicalSwitch, LspAdd, Retry, Adding
<1>7. CASE SetPodAnnotation \/ Crash
  BY <1>2, <1>7 DEF SetPodAnnotation, Crash, Done
<1>8. CASE ListPorts /\ ~Finish
  <2>1. /\ pc = "listPorts" /\ pc' = "lspDel" /\ toDel' \subseteq PortNames
        /\ UNCHANGED <<req, obj, todo, idx, entries>>
    BY <1>8 DEF ListPorts, Done
  <2>. QED
    BY <2>1 DEF WorkType, WorkerInv, Pcs, Adding
<1>9. CASE LspDel /\ ~Finish
  <2>1. toDel' \subseteq PortNames /\ UNCHANGED <<pc, req, obj, todo, idx, entries>>
    BY <1>9 DEF LspDel, Done, WorkType
  <2>. QED
    BY <2>1 DEF WorkType, WorkerInv
<1>10. ASSUME NEW p \in Pods,
              \/ UserCreate(p) \/ UserDelete(p) \/ KubeletUpdate(p) \/ Schedule(p)
              \/ Deliver(p) \/ Resync(p) \/ CniAdd(p)
       PROVE  UNCHANGED workerVars
  BY <1>10 DEF UserCreate, UserDelete, KubeletUpdate, Schedule, Deliver, Resync, CniAdd, UserStep
<1>11. ASSUME \/ \E n \in PortNames : Allocate(n)
              \/ \E s \in Switches : CreateSwitch(s) \/ DeleteSwitch(s)
              \/ UNCHANGED vars
       PROVE  UNCHANGED workerVars
  BY <1>11 DEF Allocate, CreateSwitch, DeleteSwitch, vars
<1>. QED
  BY <1>1, <1>2, <1>4, <1>5, <1>6, <1>7, <1>8, <1>9, <1>10, <1>11 DEF Next, WorkerStep

\* Every step keeps the types of ports, switches and counters.
LEMMA OvnStep ==
  ASSUME TypeOK, [Next]_vars
  PROVE  OvnType'
<1>. USE TypeParts DEF OvnType
<1>1. ASSUME NEW p \in Pods,
             \/ UserCreate(p) \/ UserDelete(p) \/ KubeletUpdate(p) \/ Schedule(p)
             \/ Deliver(p) \/ Resync(p) \/ CniAdd(p) \/ Reconcile(p)
      PROVE  OvnType'
  <2>1. CASE UserCreate(p) \/ UserDelete(p) \/ KubeletUpdate(p)
    <3>1. /\ ops' = ops + 1
          /\ UNCHANGED <<switches, ports, cut, missed, faults, crashes, switchOps>>
      BY <2>1 DEF UserCreate, UserDelete, KubeletUpdate, UserStep, ovnVars, history
    <3>. QED
      BY <3>1
  <2>2. CASE ~(UserCreate(p) \/ UserDelete(p) \/ KubeletUpdate(p))
    BY <1>1, <2>2
    DEF Schedule, Deliver, Resync, CniAdd, Reconcile, ovnVars, history, bounds
  <2>. QED
    BY <2>1, <2>2
<1>2. faults' \in Nat \/ ~(Fault \/ NoFault)
  BY DEF Fault, NoFault
<1>3. CASE FindLogicalSwitch \/ ReadAddress \/ SetPodAnnotation
  BY <1>2, <1>3 DEF FindLogicalSwitch, ReadAddress, SetPodAnnotation, ovnVars, history, bounds
<1>4. CASE LspAdd
  <2>1. UNCHANGED ports \/ \E a \in Addresses : ports' = [ports EXCEPT ![port] = a]
    BY <1>4 DEF LspAdd
  <2>2. ports' \in [PortNames -> Addresses \cup {NoVal}]
    BY <2>1
  <2>3. faults' \in Nat
    BY <1>2, <1>4 DEF LspAdd
  <2>. QED
    BY <1>4, <2>2, <2>3 DEF LspAdd, history, bounds
<1>5. CASE ListPorts
  BY <1>2, <1>5 DEF ListPorts, WorkType, ovnVars, bounds
<1>6. CASE LspDel
  <2>1. PICK n \in toDel :
          \/ NoFault /\ ports' = [ports EXCEPT ![n] = NoVal] /\ UNCHANGED missed
          \/ Fault /\ UNCHANGED ports /\ missed' = missed \cup {n[1]}
    BY <1>6 DEF LspDel
  <2>2. n[1] \in Pods
    BY PortNameFacts DEF WorkType
  <2>. QED
    BY <1>2, <1>6, <2>1, <2>2 DEF LspDel, bounds
<1>7. ASSUME NEW n \in PortNames, Allocate(n) PROVE OvnType'
  <2>1. PICK t \in Tags : ports' = [ports EXCEPT ![n].tag = t]
    BY <1>7 DEF Allocate
  <2>2. ports[n] \in Addresses
    BY <1>7 DEF Allocate
  <2>3. [ports[n] EXCEPT !.tag = t] \in Addresses
    BY <2>2 DEF Addresses
  <2>4. ports' \in [PortNames -> Addresses \cup {NoVal}]
    BY <2>1, <2>3
  <2>. QED
    BY <1>7, <2>4 DEF Allocate, history, bounds
<1>8. ASSUME NEW s \in Switches, CreateSwitch(s) PROVE OvnType'
  BY <1>8 DEF CreateSwitch, history
<1>9. ASSUME NEW s \in Switches, DeleteSwitch(s) PROVE OvnType'
  <2>1. cut' \subseteq Pods
    BY <1>9, PortNameFacts DEF DeleteSwitch
  <2>2. ports' \in [PortNames -> Addresses \cup {NoVal}]
    BY <1>9 DEF DeleteSwitch
  <2>. QED
    BY <1>9, <2>1, <2>2 DEF DeleteSwitch
<1>10. CASE Crash
  BY <1>10 DEF Crash, ovnVars
<1>11. CASE UNCHANGED vars
  BY <1>11 DEF vars, ovnVars, history, bounds
<1>. QED
  BY <1>1, <1>3, <1>4, <1>5, <1>6, <1>7, <1>8, <1>9, <1>10, <1>11 DEF Next, WorkerStep

\* Every step keeps TypeOK, with the worker's place.
LEMMA TypeStep ==
  ASSUME TypeOK, WorkerInv, [Next]_vars
  PROVE  TypeOK' /\ WorkerInv'
BY KubeStep, WorkStep, OvnStep, TypePartsNext

(***************************************************************************)
(* Every port has someone who will remove it.                              *)
(***************************************************************************)
Exists(n) == ports[n] # NoVal

\* The controller will still look at the pod, or knows it as live.
Watched(p) == cache[p].live \/ p \in queue

\* OwnerInv in terms of ports that exist and pods that are watched.
LEMMA OwnerParts ==
  OwnerInv <=>
    /\ \A n \in PortNames : Exists(n) => Watched(n[1]) \/ req = n[1] \/ n[1] \in missed
    /\ pc \in Adding => Watched(req)
    /\ pc = "lspDel" => \A n \in PortNames : n[1] = req /\ Exists(n) => n \in toDel \/ req \in missed
BY DEF OwnerInv, Exists, Watched

\* Also in the next state.
LEMMA OwnerPartsNext ==
  OwnerInv' <=>
    /\ \A n \in PortNames : Exists(n)' => Watched(n[1])' \/ req' = n[1] \/ n[1] \in missed'
    /\ pc' \in Adding => cache'[req'].live \/ req' \in queue'
    /\ pc' = "lspDel" =>
         \A n \in PortNames : n[1] = req' /\ Exists(n)' => n \in toDel' \/ req' \in missed'
BY DEF OwnerInv, Exists, Watched

\* A step outside the worker that adds no port and forgets no pod.
LEMMA OwnerFrame ==
  ASSUME TypeOK, OwnerInv, UNCHANGED workerVars, missed' = missed,
         \A n \in PortNames : Exists(n)' => Exists(n),
         \A p \in Pods : Watched(p) => Watched(p)'
  PROVE  OwnerInv'
<1>1. pc # "idle" => req \in Pods
  BY DEF TypeOK
<1>. QED
  BY <1>1, OwnerParts, OwnerPartsNext, PortNameFacts DEF workerVars, Watched, Adding

\* No step leaves a port behind whose pod the controller will not see go: neither
\* the event filter nor the end of deleteLogicalPorts, unless that is on record.
LEMMA OwnerStep ==
  ASSUME TypeOK, WorkerInv, OwnerInv, [Next]_vars
  PROVE  OwnerInv'
<1>1. ASSUME NEW p \in Pods,
             UserCreate(p) \/ UserDelete(p) \/ KubeletUpdate(p) \/ Schedule(p) \/ CniAdd(p)
      PROVE  OwnerInv'
  <2>1. UNCHANGED <<workerVars, missed, ports, cache, queue>>
    BY <1>1 DEF UserCreate, UserDelete, KubeletUpdate, Schedule, CniAdd, UserStep,
                kubeVars, ovnVars, history
  <2>. QED
    BY <2>1, OwnerFrame DEF Exists, Watched
<1>2. ASSUME NEW p \in Pods, Resync(p) PROVE OwnerInv'
  <2>1. UNCHANGED <<workerVars, missed, ports, cache>> /\ queue \subseteq queue'
    BY <1>2 DEF Resync, kubeVars, ovnVars, history
  <2>. QED
    BY <2>1, OwnerFrame DEF Exists, Watched
<1>3. ASSUME NEW p \in Pods, Deliver(p) PROVE OwnerInv'
  <2>1. UNCHANGED <<workerVars, missed, ports>> /\ queue \subseteq queue'
    BY <1>3 DEF Deliver, ovnVars, history
  <2>2. \A q \in Pods : Watched(q) => Watched(q)'
    <3>1. PICK v \in pending[p] :
            /\ cache' = [cache EXCEPT ![p] = v]
            /\ queue' = IF Passes(cache[p], v) THEN queue \cup {p} ELSE queue
      BY <1>3 DEF Deliver
    <3>2. cache[p].live /\ ~v.live => Passes(cache[p], v)
      BY DEF Passes
    <3>3. cache \in [Pods -> Versions]
      BY DEF TypeOK
    <3>. QED
      BY <2>1, <3>1, <3>2, <3>3 DEF Watched
  <2>. QED
    BY <2>1, <2>2, OwnerFrame DEF Exists
<1>4. ASSUME \/ \E n \in PortNames : Allocate(n)
             \/ \E s \in Switches : CreateSwitch(s) \/ DeleteSwitch(s)
             \/ UNCHANGED vars
      PROVE  OwnerInv'
  <2>1. UNCHANGED <<workerVars, missed, cache, queue>>
    BY <1>4 DEF Allocate, CreateSwitch, DeleteSwitch, vars, kubeVars, history
  <2>2. \A n \in PortNames : Exists(n)' => Exists(n)
    <3>1. ports \in [PortNames -> Addresses \cup {NoVal}]
      BY DEF TypeOK
    <3>2. CASE \E n \in PortNames : Allocate(n)
      BY <3>1, <3>2 DEF Allocate, Exists
    <3>3. CASE \E s \in Switches : CreateSwitch(s) \/ DeleteSwitch(s)
      BY <3>1, <3>3 DEF CreateSwitch, DeleteSwitch, Exists
    <3>4. CASE UNCHANGED vars
      BY <3>4 DEF vars, ovnVars, Exists
    <3>. QED
      BY <1>4, <3>2, <3>3, <3>4
  <2>. QED
    BY <2>1, <2>2, OwnerFrame DEF Watched
<1>5. ASSUME NEW p \in Pods, Reconcile(p) PROVE OwnerInv'
  <2>1. pc = "idle" /\ req = NoVal /\ UNCHANGED <<ports, missed, cache>>
    BY <1>5 DEF Reconcile, WorkerInv, kubeVars, ovnVars, history
  <2>2. \/ UNCHANGED workerVars /\ (queue' = queue \/ (cache[p].live /\ queue' = queue \ {p}))
        \/ /\ req' = p /\ queue' = queue \ {p}
           /\ pc' = "listPorts" \/ (cache[p].live /\ pc' \in {"find", "lspAdd"})
    BY <1>5 DEF Reconcile, StepFor
  <2>3. CASE UNCHANGED workerVars /\ (queue' = queue \/ (cache[p].live /\ queue' = queue \ {p}))
    BY <2>1, <2>3, OwnerFrame DEF Exists, Watched
  <2>4. CASE /\ req' = p /\ queue' = queue \ {p}
             /\ pc' = "listPorts" \/ (cache[p].live /\ pc' \in {"find", "lspAdd"})
    <3>1. \A n \in PortNames : n[1] # NoVal
      BY NoValFacts, PortNameFacts
    <3>. QED
      BY <2>1, <2>4, <3>1, OwnerParts, OwnerPartsNext DEF Adding, Exists, Watched
  <2>. QED
    BY <2>2, <2>3, <2>4
<1>6. ASSUME FindLogicalSwitch \/ LspAdd \/ ReadAddress PROVE OwnerInv'
  <2>1. /\ UNCHANGED <<cache, missed>> /\ pc \in Adding
        /\ \/ req' = req /\ queue' = queue /\ pc' \in Adding
           \/ pc' = "idle" /\ queue' = queue \cup {req}
    BY <1>6 DEF FindLogicalSwitch, LspAdd, ReadAddress, Goto, Retry, Finish, StepFor, Adding,
                kubeVars, history
  <2>2. \A n \in PortNames : Exists(n)' => Exists(n) \/ n = port
    <3>1. ports \in [PortNames -> Addresses \cup {NoVal}]
      BY DEF TypeOK
    <3>. QED
      BY <1>6, <3>1 DEF FindLogicalSwitch, LspAdd, ReadAddress, Exists, ovnVars
  <2>3. port[1] = req
    BY DEF port
  <2>. QED
    BY <2>1, <2>2, <2>3, OwnerParts, OwnerPartsNext DEF Watched, Adding
<1>7. ASSUME SetPodAnnotation PROVE OwnerInv'
  <2>1. pc = "patch" /\ pc' = "idle" /\ UNCHANGED <<ports, missed, cache, queue>>
    BY <1>7 DEF SetPodAnnotation, Done, Finish, ovnVars, history
  <2>. QED
    BY <2>1, OwnerParts, OwnerPartsNext DEF Watched, Adding, Exists
<1>8. ASSUME ListPorts PROVE OwnerInv'
  <2>1. pc = "listPorts" /\ req \in Pods /\ UNCHANGED <<ports, cache, queue>> /\ missed \subseteq missed'
    BY <1>8 DEF ListPorts, Done, TypeOK, kubeVars, ovnVars
  <2>2. \A n \in PortNames : n[1] = req => <<req, n[1]>> \in Contains
    BY <2>1, ConstantsAssumption
  <2>3. \/ pc' = "lspDel" /\ req' = req /\ \A n \in PortNames : n[1] = req /\ Exists(n) => n \in toDel'
        \/ pc' = "idle" /\ \A n \in PortNames : n[1] = req => ~Exists(n)
        \/ pc' = "idle" /\ req \in missed'
    BY <1>8, <2>2 DEF ListPorts, Done, Finish, Exists
  <2>. QED
    BY <2>1, <2>3, OwnerParts, OwnerPartsNext DEF Watched, Adding, Exists
<1>9. ASSUME LspDel PROVE OwnerInv'
  <2>1. /\ pc = "lspDel" /\ req \in Pods /\ UNCHANGED <<cache, queue>> /\ toDel \subseteq PortNames
        /\ ports \in [PortNames -> Addresses \cup {NoVal}]
    BY <1>9 DEF LspDel, Done, TypeOK, kubeVars
  <2>2. PICK n \in toDel :
          /\ \/ ports' = [ports EXCEPT ![n] = NoVal] /\ UNCHANGED missed
             \/ UNCHANGED ports /\ missed' = missed \cup {n[1]}
          /\ \/ toDel = {n} /\ pc' = "idle"
             \/ toDel' = toDel \ {n} /\ pc' = pc /\ req' = req
    BY <1>9 DEF LspDel, Done, Finish
  <2>3. /\ \A m \in PortNames : Exists(m)' => Exists(m)
        /\ Exists(n)' => n[1] \in missed'
        /\ missed \subseteq missed'
    BY <2>1, <2>2 DEF Exists
  <2>4. \A m \in PortNames : m[1] = req /\ Exists(m)' => m \in toDel \ {n} \/ req \in missed'
    BY <2>1, <2>3, OwnerParts
  <2>. QED
    BY <2>1, <2>2, <2>3, <2>4, OwnerParts, OwnerPartsNext DEF Watched, Adding
<1>10. ASSUME Crash PROVE OwnerInv'
  <2>1. /\ pc' = "idle" /\ cache' = api /\ UNCHANGED ports
        /\ \A p \in Pods : ~api[p].live /\ (\E n \in PortNames : n[1] = p /\ Exists(n)) => p \in missed'
    BY <1>10 DEF Crash, Finish, Exists, ovnVars
  <2>. QED
    BY <2>1, PortNameFacts, OwnerPartsNext DEF Watched, Adding, Exists
<1>. QED
  BY <1>1, <1>2, <1>3, <1>4, <1>5, <1>6, <1>7, <1>8, <1>9, <1>10 DEF Next, WorkerStep

(***************************************************************************)
(* Versions and incarnations.                                              *)
(***************************************************************************)
\* v may be stored after w, and is of the same pod.
Rewrites(v, w) ==
  /\ v.rv = w.rv + 1 /\ v.inc = w.inc /\ v.live /\ w.live
  /\ v.nfn = w.nfn /\ v.ifs = w.ifs

\* v may be stored after w.
Follows(v, w) ==
  /\ v.rv = w.rv + 1
  /\ Rewrites(v, w) \/ (v.inc = w.inc /\ ~v.live) \/ v.inc = w.inc + 1

\* A version before one is before those that follow it.
LEMMA BeforeFollows ==
  ASSUME NEW u \in Versions, NEW v \in Versions, NEW w \in Versions,
         Before(u, w), Follows(v, w)
  PROVE  Before(u, v)
<1>1. u.inc \in Nat /\ v.inc \in Nat /\ w.inc \in Nat
  BY VersionType
<1>. QED
  BY <1>1 DEF Before, Follows, Rewrites

\* A version comes before itself, in this order.
LEMMA BeforeItself ==
  ASSUME NEW v \in Versions PROVE Before(v, v)
<1>1. v.inc \in Nat
  BY VersionType
<1>. QED
  BY <1>1 DEF Before

\* What the steps that store a version do.
LEMMA CreateStores ==
  ASSUME TypeOK, NEW q \in Pods, UserCreate(q)
  PROVE  /\ ~api[q].live /\ UNCHANGED <<cache, workerVars, ports, configured, cut>>
         /\ \E v \in Versions : /\ Store(q, v) /\ Follows(v, api[q])
                                /\ v.live /\ v.inc = api[q].inc + 1 /\ v.ann = NoVal
<1>1. ~api[q].live /\ UNCHANGED <<cache, workerVars, ports, configured, cut>>
  BY DEF UserCreate, UserStep, ovnVars, history
<1>2. PICK s \in PodSpecs : Store(q, Created(api[q], s))
  BY Writes DEF UserStep
<1>3. Created(api[q], s) \in Versions
  BY CreatedType DEF TypeOK
<1>. QED
  BY <1>1, <1>2, <1>3 DEF Created, Follows

\* A user's deletion stores the last version of the pod and ends its sandbox.
LEMMA DeleteStores ==
  ASSUME TypeOK, NEW q \in Pods, UserDelete(q)
  PROVE  /\ UNCHANGED <<cache, workerVars, ports, cut>>
         /\ configured' = [configured EXCEPT ![q] = NoVal]
         /\ \E v \in Versions : /\ Store(q, v) /\ Follows(v, api[q])
                                /\ ~v.live /\ v.inc = api[q].inc /\ v.ann = NoVal
<1>1. /\ UNCHANGED <<cache, workerVars, ports, cut>>
      /\ configured' = [configured EXCEPT ![q] = NoVal]
      /\ Store(q, Gone(api[q].rv + 1, api[q].inc))
  BY DEF UserDelete, UserStep, ovnVars, history
<1>2. api[q].rv + 1 \in Nat /\ api[q].inc \in Nat
  BY VersionType DEF TypeOK
<1>. QED
  BY <1>1, <1>2, GoneType DEF Follows

\* The kubelet and the scheduler leave annotation and spec of the pod as they are.
LEMMA RewriteStores ==
  ASSUME TypeOK, NEW q \in Pods, KubeletUpdate(q) \/ Schedule(q)
  PROVE  /\ UNCHANGED <<cache, workerVars, ports, configured, cut>>
         /\ \E v \in Versions : Store(q, v) /\ Rewrites(v, api[q]) /\ v.ann = api[q].ann
<1>1. /\ UNCHANGED <<cache, workerVars, ports, configured, cut>> /\ api[q].live
  BY DEF KubeletUpdate, Schedule, UserStep, ovnVars, history
<1>2. api[q] \in Versions /\ api[q].rv + 1 \in Nat
  BY VersionType DEF TypeOK
<1>. DEFINE v == Touched(api[q], api[q].rv + 1)
            w == Scheduled(api[q], api[q].rv + 1)
<1>3. v \in Versions /\ w \in Versions /\ (Store(q, v) \/ Store(q, w))
  BY <1>2, ChangedType, Writes DEF UserStep
<1>4. /\ Rewrites(v, api[q]) /\ v.ann = api[q].ann
      /\ Rewrites(w, api[q]) /\ w.ann = api[q].ann
  BY <1>1, <1>2 DEF Rewrites, Touched, Scheduled, Versions
<1>. QED
  BY <1>1, <1>3, <1>4

\* setPodAnnotation stores the entries of this run, or nothing.
LEMMA PatchStores ==
  ASSUME TypeOK, SetPodAnnotation
  PROVE  /\ pc = "patch" /\ req \in Pods /\ req' = NoVal
         /\ UNCHANGED <<cache, ports, configured, cut>>
         /\ \/ UNCHANGED <<api, pending>>
            \/ \E v \in Versions : Store(req, v) /\ Rewrites(v, api[req]) /\ v.ann = Made
<1>1. /\ pc = "patch" /\ req \in Pods /\ req' = NoVal
      /\ UNCHANGED <<cache, ports, configured, cut>>
  BY DEF SetPodAnnotation, Done, Finish, TypeOK, ovnVars, history
<1>2. api[req] \in Versions /\ api[req].rv + 1 \in Nat /\ Made \in Annotations
  BY <1>1, VersionType DEF TypeOK, Made, Annotations
<1>. DEFINE v == Annotated(api[req], api[req].rv + 1, Made)
<1>3. v \in Versions
  BY <1>2, ChangedType
<1>4. api[req].live => Rewrites(v, api[req]) /\ v.ann = Made
  BY <1>2 DEF Rewrites, Annotated, Versions
<1>5. UNCHANGED <<api, pending>> \/ (api[req].live /\ Store(req, v))
  BY Writes
<1>. QED
  BY <1>1, <1>3, <1>4, <1>5

\* What the other steps do to the versions.
LEMMA OtherSteps ==
  ASSUME [Next]_vars
  PROVE  \/ \E q \in Pods : UserCreate(q) \/ UserDelete(q) \/ KubeletUpdate(q) \/ Schedule(q)
         \/ SetPodAnnotation \/ Crash \/ \E q \in Pods : Deliver(q)
         \/ UNCHANGED kubeVars
BY DEF Next, WorkerStep, Resync, Reconcile, CniAdd, FindLogicalSwitch, LspAdd, ReadAddress,
       ListPorts, LspDel, Allocate, CreateSwitch, DeleteSwitch, vars

\* A new version that follows the stored one keeps the versions in order.
LEMMA VersionStored ==
  ASSUME TypeOK, NEW p \in Pods, VersionInv(p), NEW q \in Pods, NEW v \in Versions,
         Store(q, v), Follows(v, api[q]), cache' = cache
  PROVE  VersionInv(p)'
<1>1. /\ api \in [Pods -> Versions] /\ cache \in [Pods -> Versions]
      /\ pending \in [Pods -> SUBSET Versions]
  BY DEF TypeOK
<1>2. CASE p # q
  <2>1. api'[p] = api[p] /\ pending'[p] = pending[p]
    BY <1>1, <1>2 DEF Store
  <2>. QED
    BY <2>1 DEF VersionInv
<1>3. CASE p = q
  <2>1. api'[p] = v /\ pending'[p] = pending[p] \cup {v}
    BY <1>1, <1>3 DEF Store
  <2>2. \A u \in pending[p] \cup {cache[p]} : Before(u, v)
    BY <1>1, <1>3, BeforeFollows DEF VersionInv
  <2>3. \A u \in Versions : u.rv \in Nat /\ u.inc \in Nat
    BY VersionType
  <2>4. \A u \in pending[p] : u \in Versions /\ u.rv < v.rv /\ u.inc <= v.inc
    BY <1>1, <1>3, <2>2, <2>3 DEF VersionInv, Follows, Before
  <2>5. Before(v, v) /\ cache[p].inc <= v.inc
    BY <2>2, BeforeItself DEF Before
  <2>6. \A u \in pending'[p] : Before(u, v) /\ u.rv <= v.rv /\ cache[p].inc <= u.inc
    BY <2>1, <2>2, <2>3, <2>4, <2>5 DEF VersionInv
  <2>7. \A u, w \in pending'[p] : u.rv <= w.rv => u.inc <= w.inc
    BY <2>1, <2>3, <2>4 DEF VersionInv
  <2>. QED
    BY <2>1, <2>2, <2>6, <2>7 DEF VersionInv
<1>. QED
  BY <1>2, <1>3

\* Every step keeps them in order.
LEMMA VersionStep ==
  ASSUME TypeOK, NEW p \in Pods, VersionInv(p), [Next]_vars
  PROVE  VersionInv(p)'
<1>. USE DEF TypeOK
<1>1. ASSUME NEW q \in Pods, UserCreate(q) PROVE VersionInv(p)'
  BY <1>1, CreateStores, VersionStored
<1>2. ASSUME NEW q \in Pods, UserDelete(q) PROVE VersionInv(p)'
  BY <1>2, DeleteStores, VersionStored
<1>3. ASSUME NEW q \in Pods, KubeletUpdate(q) \/ Schedule(q) PROVE VersionInv(p)'
  BY <1>3, RewriteStores, VersionStored DEF Follows, Rewrites
<1>4. CASE UNCHANGED kubeVars
  BY <1>4 DEF VersionInv, kubeVars
<1>5. ASSUME SetPodAnnotation PROVE VersionInv(p)'
  BY <1>4, <1>5, PatchStores, VersionStored DEF Follows, Rewrites, kubeVars
<1>6. ASSUME NEW q \in Pods, Deliver(q) PROVE VersionInv(p)'
  <2>1. PICK v \in pending[q] :
          /\ \A w \in pending[q] : v.rv <= w.rv
          /\ cache' = [cache EXCEPT ![q] = v]
          /\ pending' = [pending EXCEPT ![q] = @ \ {v}]
          /\ api' = api
    BY <1>6 DEF Deliver
  <2>2. p # q => cache'[p] = cache[p] /\ pending'[p] = pending[p]
    BY <2>1
  <2>3. p = q => cache'[p] = v /\ pending'[p] = pending[p] \ {v}
    BY <2>1
  <2>. QED
    BY <2>1, <2>2, <2>3 DEF VersionInv
<1>7. ASSUME Crash PROVE VersionInv(p)'
  <2>1. api' = api /\ cache'[p] = api[p] /\ pending'[p] = {}
    BY <1>7 DEF Crash
  <2>. QED
    BY <2>1, BeforeItself DEF VersionInv
<1>. QED
  BY <1>1, <1>2, <1>3, <1>4, <1>5, <1>6, <1>7, OtherSteps

\* The cache never goes back, the API server neither.
LEMMA CacheAdvances ==
  ASSUME TypeOK, NEW p \in Pods, VersionInv(p), [Next]_vars
  PROVE  cache[p].inc <= cache'[p].inc
<1>1. cache[p].inc \in Nat /\ api[p].inc \in Nat
  BY VersionType DEF TypeOK
<1>2. ASSUME NEW q \in Pods, Deliver(q) PROVE cache[p].inc <= cache'[p].inc
  <2>1. PICK v \in pending[q] : cache' = [cache EXCEPT ![q] = v]
    BY <1>2 DEF Deliver
  <2>. QED
    BY <1>1, <2>1 DEF VersionInv, TypeOK
<1>3. CASE Crash
  BY <1>1, <1>3 DEF Crash, VersionInv, Before
<1>4. CASE cache' = cache
  BY <1>1, <1>4
<1>. QED
  BY <1>2, <1>3, <1>4, OtherSteps, CreateStores, DeleteStores, RewriteStores, PatchStores
  DEF kubeVars

\* A version before the stored one stays before it.
LEMMA ApiAdvances ==
  ASSUME TypeOK, NEW p \in Pods, [Next]_vars, NEW u \in Versions, Before(u, api[p])
  PROVE  Before(u, api'[p])
<1>1. api \in [Pods -> Versions]
  BY DEF TypeOK
<1>2. ASSUME NEW q \in Pods, NEW v \in Versions, Store(q, v), Follows(v, api[q])
      PROVE  Before(u, api'[p])
  <2>1. api'[p] = IF p = q THEN v ELSE api[p]
    BY <1>1, <1>2 DEF Store
  <2>. QED
    BY <1>1, <1>2, <2>1, BeforeFollows
<1>3. CASE api' = api
  BY <1>3
<1>4. ASSUME NEW q \in Pods, UserCreate(q) \/ UserDelete(q) PROVE Before(u, api'[p])
  BY <1>2, <1>4, CreateStores, DeleteStores
<1>5. ASSUME NEW q \in Pods, KubeletUpdate(q) \/ Schedule(q) PROVE Before(u, api'[p])
  BY <1>2, <1>5, RewriteStores DEF Follows, Rewrites
<1>6. ASSUME SetPodAnnotation PROVE Before(u, api'[p])
  BY <1>2, <1>3, <1>6, PatchStores DEF Follows, Rewrites
<1>7. ASSUME Crash \/ \E q \in Pods : Deliver(q) PROVE api' = api
  BY <1>7 DEF Crash, Deliver
<1>. QED
  BY <1>3, <1>4, <1>5, <1>6, <1>7, OtherSteps DEF kubeVars

\* The worker keeps its run, ends it, or begins one on the cached version.
LEMMA RunSteps ==
  ASSUME TypeOK, [Next]_vars
  PROVE  \/ UNCHANGED <<req, obj>>
         \/ req' = NoVal
         \/ \E q \in Pods : Reconcile(q) /\ req' = q /\ obj' = cache[q]
<1>1. ASSUME NEW q \in Pods,
             \/ UserCreate(q) \/ UserDelete(q) \/ KubeletUpdate(q) \/ Schedule(q)
             \/ Deliver(q) \/ Resync(q) \/ CniAdd(q)
      PROVE  UNCHANGED <<req, obj>>
  BY <1>1 DEF UserCreate, UserDelete, KubeletUpdate, Schedule, Deliver, Resync, CniAdd,
              UserStep, workerVars
<1>2. ASSUME NEW q \in Pods, Reconcile(q)
      PROVE  UNCHANGED <<req, obj>> \/ (req' = q /\ obj' = cache[q])
  BY <1>2 DEF Reconcile, workerVars
<1>3. ASSUME \/ FindLogicalSwitch \/ LspAdd \/ ReadAddress \/ SetPodAnnotation
             \/ ListPorts \/ LspDel \/ Crash
      PROVE  UNCHANGED <<req, obj>> \/ req' = NoVal
  BY <1>3 DEF FindLogicalSwitch, LspAdd, ReadAddress, SetPodAnnotation, ListPorts, LspDel,
              Crash, Retry, Done, Finish, Goto
<1>4. ASSUME \/ \E n \in PortNames : Allocate(n)
             \/ \E s \in Switches : CreateSwitch(s) \/ DeleteSwitch(s)
             \/ UNCHANGED vars
      PROVE  UNCHANGED <<req, obj>>
  BY <1>4 DEF Allocate, CreateSwitch, DeleteSwitch, vars, workerVars
<1>. QED
  BY <1>1, <1>2, <1>3, <1>4 DEF Next, WorkerStep

\* The worker's copy stays a version that the cache has had.
LEMMA ObjStep ==
  ASSUME TypeOK, NEW p \in Pods, VersionInv(p), ObjInv(p), [Next]_vars
  PROVE  ObjInv(p)'
<1>1. obj \in Versions /\ cache[p] \in Versions /\ p # NoVal
  BY NoValFacts DEF TypeOK
<1>2. cache[p].inc <= cache'[p].inc
  BY CacheAdvances
<1>3. /\ obj.inc \in Nat /\ cache[p].inc \in Nat /\ cache'[p].inc \in Nat
  <2>1. cache'[p] \in Versions
    BY KubeStep DEF KubeType
  <2>. QED
    BY <1>1, <2>1, VersionType
<1>4. CASE UNCHANGED <<req, obj>>
  BY <1>1, <1>2, <1>3, <1>4, ApiAdvances DEF ObjInv
<1>5. CASE req' = NoVal
  BY <1>1, <1>5 DEF ObjInv
<1>6. ASSUME NEW q \in Pods, req' = q, obj' = cache[q] PROVE ObjInv(p)'
  BY <1>1, <1>2, <1>6, ApiAdvances DEF ObjInv, VersionInv
<1>. QED
  BY <1>4, <1>5, <1>6, RunSteps

\* The version of a pod stays, or one that may follow it is stored.
LEMMA ApiSteps ==
  ASSUME TypeOK, NEW p \in Pods, [Next]_vars
  PROVE  api'[p] = api[p] \/ Follows(api'[p], api[p])
<1>1. api \in [Pods -> Versions]
  BY DEF TypeOK
<1>2. ASSUME NEW q \in Pods, NEW v \in Versions, Store(q, v), Follows(v, api[q])
      PROVE  api'[p] = api[p] \/ Follows(api'[p], api[p])
  BY <1>1, <1>2 DEF Store
<1>3. ASSUME NEW q \in Pods, UserCreate(q) \/ UserDelete(q)
      PROVE  api'[p] = api[p] \/ Follows(api'[p], api[p])
  BY <1>2, <1>3, CreateStores, DeleteStores
<1>4. ASSUME NEW q \in Pods, KubeletUpdate(q) \/ Schedule(q)
      PROVE  api'[p] = api[p] \/ Follows(api'[p], api[p])
  BY <1>2, <1>4, RewriteStores DEF Follows, Rewrites
<1>5. ASSUME SetPodAnnotation PROVE api'[p] = api[p] \/ Follows(api'[p], api[p])
  BY <1>2, <1>5, PatchStores DEF Follows, Rewrites
<1>6. ASSUME Crash \/ \E q \in Pods : Deliver(q) PROVE api' = api
  BY <1>6 DEF Crash, Deliver
<1>. QED
  BY <1>3, <1>4, <1>5, <1>6, OtherSteps DEF kubeVars

\* Where the annotations of a pod come from: they were there before, of the same
\* pod, or the run at hand has just patched its own onto it.
LEMMA AnnSources ==
  ASSUME TypeOK, NEW p \in Pods, AnnInv(p), [Next]_vars,
         NEW a \in {api'[p].ann, configured'[p]} \ {NoVal}
  PROVE  /\ api'[p].live /\ api'[p].inc = api[p].inc /\ api[p].live
         /\ Todo(api'[p]) = Todo(api[p])
         /\ \/ a \in {api[p].ann, configured[p]} \ {NoVal}
            \/ SetPodAnnotation /\ req = p /\ a = Made
<1>1. /\ api \in [Pods -> Versions]
      /\ configured \in [Pods -> Annotations \cup {NoVal}]
  BY DEF TypeOK
<1>. DEFINE Goal == /\ api'[p].live /\ api'[p].inc = api[p].inc /\ api[p].live
                    /\ Todo(api'[p]) = Todo(api[p])
                    /\ \/ a \in {api[p].ann, configured[p]} \ {NoVal}
                       \/ SetPodAnnotation /\ req = p /\ a = Made
<1>2. ASSUME api'[p] = api[p], configured'[p] \in {configured[p], api[p].ann, NoVal} PROVE Goal
  BY <1>2 DEF AnnInv
<1>3. ASSUME NEW q \in Pods, UserCreate(q) PROVE Goal
  <2>1. PICK v \in Versions : Store(q, v) /\ v.ann = NoVal
    BY <1>3, CreateStores
  <2>2. configured' = configured /\ ~api[q].live
    BY <1>3, CreateStores
  <2>3. CASE p # q
    BY <1>1, <1>2, <2>1, <2>2, <2>3 DEF Store
  <2>4. CASE p = q
    <3>1. api'[p].ann = NoVal
      BY <1>1, <2>1, <2>4 DEF Store
    <3>. QED
      BY <2>2, <2>4, <3>1 DEF AnnInv
  <2>. QED
    BY <2>3, <2>4
<1>4. ASSUME NEW q \in Pods, UserDelete(q) PROVE Goal
  <2>1. PICK v \in Versions : Store(q, v) /\ v.ann = NoVal
    BY <1>4, DeleteStores
  <2>2. configured' = [configured EXCEPT ![q] = NoVal]
    BY <1>4, DeleteStores
  <2>. QED
    BY <1>1, <1>2, <2>1, <2>2 DEF Store
<1>5. ASSUME NEW q \in Pods, NEW v \in Versions, Store(q, v), Rewrites(v, api[q]),
             configured' = configured,
             v.ann = api[q].ann \/ (SetPodAnnotation /\ req = q /\ v.ann = Made)
      PROVE  Goal
  <2>1. CASE p # q
    BY <1>1, <1>2, <1>5, <2>1 DEF Store
  <2>2. CASE p = q
    <3>1. api'[p] = v
      BY <1>1, <1>5, <2>2 DEF Store
    <3>2. Todo(v) = Todo(api[p])
      BY <1>5, <2>2, TodoOfSpec DEF Rewrites
    <3>. QED
      BY <1>5, <2>2, <3>1, <3>2 DEF Rewrites
  <2>. QED
    BY <2>1, <2>2
<1>6. ASSUME NEW q \in Pods, KubeletUpdate(q) \/ Schedule(q) PROVE Goal
  BY <1>5, <1>6, RewriteStores
<1>7. ASSUME SetPodAnnotation PROVE Goal
  BY <1>2, <1>5, <1>7, PatchStores
<1>8. ASSUME NEW q \in Pods, CniAdd(q) PROVE Goal
  <2>1. api' = api /\ configured' = [configured EXCEPT ![q] = api[q].ann]
    BY <1>8 DEF CniAdd, kubeVars
  <2>. QED
    BY <1>1, <1>2, <2>1
<1>9. ASSUME NEW q \in Pods, Deliver(q) \/ Resync(q) \/ Reconcile(q) PROVE Goal
  BY <1>2, <1>9 DEF Deliver, Resync, Reconcile, kubeVars
<1>10. ASSUME FindLogicalSwitch \/ LspAdd \/ ReadAddress \/ ListPorts \/ LspDel \/ Crash PROVE Goal
  BY <1>2, <1>10 DEF FindLogicalSwitch, LspAdd, ReadAddress, ListPorts, LspDel, Crash, kubeVars
<1>11. ASSUME \/ \E n \in PortNames : Allocate(n)
              \/ \E s \in Switches : CreateSwitch(s) \/ DeleteSwitch(s)
              \/ UNCHANGED vars
       PROVE  Goal
  BY <1>2, <1>11 DEF Allocate, CreateSwitch, DeleteSwitch, vars, kubeVars
<1>. HIDE DEF Goal
<1>12. Goal
  BY <1>3, <1>4, <1>6, <1>7, <1>8, <1>9, <1>10, <1>11 DEF Next, WorkerStep
<1>. QED
  BY <1>12 DEF Goal

\* A stored annotation, or one a sandbox runs with, is never of a pod after the one
\* that the worker is at.
LEMMA AnnStep ==
  ASSUME TypeOK, NEW p \in Pods, VersionInv(p), ObjInv(p), AnnInv(p), [Next]_vars
  PROVE  AnnInv(p)'
<1>. SUFFICES ASSUME NEW a \in {api'[p].ann, configured'[p]} \ {NoVal}
              PROVE  /\ api'[p].live /\ a.inc <= cache'[p].inc
                     /\ req' = p => a.inc <= obj'.inc
  BY DEF AnnInv
<1>1. api'[p].live
  BY AnnSources
<1>2. cache[p].inc <= cache'[p].inc
  BY CacheAdvances
<1>3. /\ cache[p].inc \in Nat /\ cache'[p].inc \in Nat /\ obj.inc \in Nat /\ p # NoVal
      /\ cache[p] \in Versions
  BY KubeStep, VersionType, NoValFacts DEF TypeOK, KubeType
<1>4. a.inc \in Nat
  <2>1. api'[p] \in Versions /\ configured'[p] \in Annotations \cup {NoVal}
    BY KubeStep DEF KubeType
  <2>2. a \in Annotations
    BY <2>1, VersionType
  <2>. QED
    BY <2>2 DEF Annotations
<1>5. CASE a \in {api[p].ann, configured[p]} \ {NoVal}
  <2>1. a.inc <= cache[p].inc /\ (req = p => a.inc <= obj.inc)
    BY <1>5 DEF AnnInv
  <2>2. req' = p => a.inc <= obj'.inc
    BY <1>3, <2>1, RunSteps
  <2>. QED
    BY <1>1, <1>2, <1>3, <1>4, <2>1, <2>2
<1>6. CASE SetPodAnnotation /\ req = p /\ a = Made
  BY <1>1, <1>2, <1>3, <1>6, PatchStores DEF ObjInv, Made
<1>. QED
  BY <1>5, <1>6, AnnSources

(***************************************************************************)
(* Ports and the annotations that name them.                               *)
(***************************************************************************)

\* Addresses are told apart by their fields.
LEMMA AddressFacts ==
  /\ NoVal \notin Addresses
  /\ \A a, b \in Addresses :
       a.sw = b.sw /\ a.ip = b.ip /\ a.mac = b.mac /\ a.tag = b.tag => a = b
BY ConstantsAssumption DEF Addresses

\* ovn-northd has given port address a a tag.
Tagged(a, b) ==
  /\ a # NoVal /\ a.ip = NoVal /\ a.tag = NoVal
  /\ b \in Addresses /\ b.sw = a.sw /\ b.ip = a.ip /\ b.mac = a.mac

\* What may happen to a port of a pod that loses no switch.
LEMMA PortSteps ==
  ASSUME TypeOK, OwnPorts, [Next]_vars, NEW n \in PortNames, n[1] \notin cut'
  PROVE  \/ ports'[n] = ports[n]
         \/ LspAdd /\ n = port /\ ports'[n] \in Addresses /\ NewAddress(ports'[n])
         \/ Tagged(ports[n], ports'[n])
         \/ pc = "lspDel" /\ req = n[1]
<1>1. ports \in [PortNames -> Addresses \cup {NoVal}] /\ toDel \subseteq PortNames
  BY DEF TypeOK
<1>2. CASE UNCHANGED ports
  BY <1>2
<1>3. CASE LspAdd
  <2>1. UNCHANGED ports \/ \E a \in Addresses : NewAddress(a) /\ ports' = [ports EXCEPT ![port] = a]
    BY <1>3 DEF LspAdd
  <2>. QED
    BY <1>1, <1>3, <2>1
<1>4. CASE LspDel
  <2>1. pc = "lspDel" /\ \E m \in toDel : UNCHANGED ports \/ ports' = [ports EXCEPT ![m] = NoVal]
    BY <1>4 DEF LspDel
  <2>2. \A m \in toDel : m[1] = req
    BY <2>1 DEF OwnPorts
  <2>. QED
    BY <1>1, <2>1, <2>2
<1>5. ASSUME NEW m \in PortNames, Allocate(m)
      PROVE  ports'[n] = ports[n] \/ Tagged(ports[n], ports'[n])
  <2>1. PICK t \in Tags : ports' = [ports EXCEPT ![m].tag = t]
    BY <1>5 DEF Allocate
  <2>2. ports[m] \in Addresses /\ ports[m] # NoVal /\ ports[m].ip = NoVal /\ ports[m].tag = NoVal
    BY <1>1, <1>5 DEF Allocate
  <2>3. [ports[m] EXCEPT !.tag = t] \in Addresses
    BY <2>2 DEF Addresses
  <2>4. Tagged(ports[m], [ports[m] EXCEPT !.tag = t])
    BY <2>2, <2>3 DEF Tagged, Addresses
  <2>5. ports'[n] = IF n = m THEN [ports[m] EXCEPT !.tag = t] ELSE ports[n]
    BY <1>1, <2>1
  <2>. QED
    BY <2>4, <2>5
<1>6. ASSUME NEW s \in Switches, DeleteSwitch(s) PROVE ports'[n] = ports[n]
  <2>. DEFINE on == {m \in PortNames : ports[m] # NoVal /\ ports[m].sw = s}
  <2>1. /\ ports' = [m \in PortNames |-> IF m \in on THEN NoVal ELSE ports[m]]
        /\ cut' = cut \cup {m[1] : m \in on}
    BY <1>6 DEF DeleteSwitch
  <2>2. n \notin on
    BY <2>1
  <2>. QED
    BY <2>1, <2>2
<1>7. ASSUME \/ \E q \in Pods : UserCreate(q) \/ UserDelete(q) \/ KubeletUpdate(q)
             \/ SetPodAnnotation
      PROVE  UNCHANGED ports
  BY SMTT(30), <1>7, CreateStores, DeleteStores, RewriteStores, PatchStores
<1>8. ASSUME \/ \E q \in Pods : Schedule(q) \/ Deliver(q) \/ Resync(q) \/ CniAdd(q) \/ Reconcile(q)
             \/ FindLogicalSwitch \/ ReadAddress \/ ListPorts \/ Crash
             \/ \E s \in Switches : CreateSwitch(s)
             \/ UNCHANGED vars
      PROVE  UNCHANGED ports
  BY <1>8 DEF Schedule, Deliver, Resync, CniAdd, Reconcile, FindLogicalSwitch, ReadAddress,
              ListPorts, Crash, CreateSwitch, vars, ovnVars
<1>. QED
  BY <1>2, <1>3, <1>4, <1>5, <1>6, <1>7, <1>8 DEF Next, WorkerStep

\* addLogicalPortWithSwitch may run again for an entry: up to a drawn MAC it gives
\* the address that the entry has.
LEMMA AddedAgain ==
  ASSUME NEW e \in Entries, NEW a \in Addresses, NEW b \in Addresses \cup {NoVal},
         NEW r \in Requests, Fits(e.addr, r), e.addr.ip = NoVal => e.addr.tag # NoVal,
         Kept(b, e), a.sw = r.sw, a.ip = r.ip,
         a.mac = IF r.ip = NoVal THEN NoVal ELSE r.mac,
         IF r.ip = NoVal THEN a.tag = IF b # NoVal /\ b.ip = NoVal THEN b.tag ELSE NoVal
                         ELSE (a.tag = NoVal) <=> (r.mac # NoVal)
  PROVE  Kept(a, e)
<1>1. e.addr \in Addresses
  BY DEF Entries
<1>2. CASE r.ip = NoVal
  <2>1. b = e.addr /\ b # NoVal
    BY <1>1, <1>2, AddressFacts DEF Kept, Drawn, Fits
  <2>2. a.tag = e.addr.tag
    BY <1>2, <2>1 DEF Fits
  <2>. QED
    BY <1>1, <1>2, <2>2, AddressFacts DEF Fits, Kept
<1>3. CASE r.ip # NoVal /\ r.mac # NoVal
  BY <1>1, <1>3, AddressFacts DEF Fits, Kept
<1>4. CASE r.ip # NoVal /\ r.mac = NoVal
  BY <1>1, <1>4, AddressFacts DEF Fits, Kept, Drawn
<1>. QED
  BY <1>2, <1>3, <1>4

\* Nothing takes a port from under an entry, unless its pod is deleted: a run on
\* the pod adds each port with the request that its entry was made for.
LEMMA BackedStep ==
  ASSUME TypeOK, WorkerInv, OwnPorts, [Next]_vars, NEW p \in Pods, p \notin cut',
         NEW es \in Seq(Entries), NEW t \in Seq(Requests), Len(es) <= Len(t),
         Backed(ports, p, es, t),
         req = p /\ pc \in Adding => t = todo,
         ~(req = p /\ pc = "lspDel")
  PROVE  Backed(ports', p, es, t)
<1>. SUFFICES ASSUME NEW i \in 1..Len(es), Apart(t)
              PROVE  Kept(ports'[es[i].port], es[i])
  BY DEF Backed
<1>. DEFINE e == es[i]
            n == e.port
<1>1. e \in Entries /\ i \in 1..Len(t) /\ t[i] \in Requests
  OBVIOUS
<1>2. n \in PortNames /\ e.addr \in Addresses
  BY <1>1 DEF Entries
<1>3. /\ n = <<p, t[i].intf>> /\ n[1] = p /\ Fits(e.addr, t[i])
      /\ e.addr.ip = NoVal => e.addr.tag # NoVal
      /\ Kept(ports[n], e)
  BY DEF Backed
<1>4. ports[n] \in Addresses \cup {NoVal}
  BY <1>2 DEF TypeOK
<1>. HIDE DEF e, n
<1>5. CASE ports'[n] = ports[n]
  BY <1>3, <1>5 DEF e, n
<1>6. CASE LspAdd /\ n = port /\ ports'[n] \in Addresses /\ NewAddress(ports'[n])
  <2>1. pc = "lspAdd" /\ port = <<req, todo[idx].intf>> /\ now = todo[idx]
    BY <1>6 DEF LspAdd, port, now
  <2>2. req = p /\ todo[idx].intf = t[i].intf
    BY <1>3, <1>6, <2>1
  <2>3. t = todo /\ idx \in 1..Len(t)
    BY <2>1, <2>2 DEF WorkerInv, Adding
  <2>4. idx = i /\ now = t[i]
    BY <1>1, <2>1, <2>2, <2>3 DEF Apart
  <2>5. Kept(ports'[n], e)
    BY <1>1, <1>3, <1>4, <1>6, <2>4, AddedAgain DEF NewAddress
  <2>. QED
    BY <2>5 DEF e, n
<1>7. CASE Tagged(ports[n], ports'[n])
  BY <1>3, <1>7 DEF Tagged, Kept, Drawn
<1>8. CASE pc = "lspDel" /\ req = n[1]
  BY <1>3, <1>8
<1>. QED
  BY <1>2, <1>3, <1>5, <1>6, <1>7, <1>8, PortSteps

\* With names apart, DeleteLogicalPorts lists the ports of its own pod only.
LEMMA OwnPortsStep ==
  ASSUME NamesApart, TypeOK, OwnPorts, [Next]_vars
  PROVE  OwnPorts'
<1>1. CASE UNCHANGED workerVars
  BY <1>1 DEF OwnPorts, workerVars
<1>2. CASE pc' # "lspDel"
  BY <1>2 DEF OwnPorts
<1>3. CASE ListPorts /\ pc' = "lspDel"
  <2>1. req \in Pods /\ req' = req /\ \A n \in toDel' : n \in PortNames /\ <<req, n[1]>> \in Contains
    BY <1>3 DEF ListPorts, Done, Finish, TypeOK
  <2>. QED
    BY <2>1, PortNameFacts DEF OwnPorts, NamesApart
<1>4. CASE LspDel /\ pc' = "lspDel"
  <2>1. pc = "lspDel" /\ req' = req /\ toDel' \subseteq toDel
    BY <1>4 DEF LspDel, Done, Finish
  <2>. QED
    BY <2>1 DEF OwnPorts
<1>5. ASSUME NEW q \in Pods,
             \/ UserCreate(q) \/ UserDelete(q) \/ KubeletUpdate(q) \/ Schedule(q)
             \/ Deliver(q) \/ Resync(q) \/ CniAdd(q)
      PROVE  UNCHANGED workerVars
  BY <1>5 DEF UserCreate, UserDelete, KubeletUpdate, Schedule, Deliver, Resync, CniAdd, UserStep
<1>6. ASSUME NEW q \in Pods, Reconcile(q) PROVE pc' # "lspDel"
  BY <1>6 DEF Reconcile, StepFor, workerVars
<1>7. ASSUME FindLogicalSwitch \/ LspAdd \/ ReadAddress \/ SetPodAnnotation \/ Crash
      PROVE  pc' # "lspDel"
  BY <1>7 DEF FindLogicalSwitch, LspAdd, ReadAddress, SetPodAnnotation, Crash, Retry, Done,
              Finish, Goto, StepFor
<1>8. ASSUME \/ \E n \in PortNames : Allocate(n)
             \/ \E s \in Switches : CreateSwitch(s) \/ DeleteSwitch(s)
             \/ UNCHANGED vars
      PROVE  UNCHANGED workerVars
  BY <1>8 DEF Allocate, CreateSwitch, DeleteSwitch, vars
<1>. QED
  BY <1>1, <1>2, <1>3, <1>4, <1>5, <1>6, <1>7, <1>8 DEF Next, WorkerStep

\* A pod that lost a port to ls-del stays on record.
LEMMA CutGrows ==
  ASSUME [Next]_vars
  PROVE  cut \subseteq cut'
<1>1. ASSUME NEW q \in Pods,
             \/ UserCreate(q) \/ UserDelete(q) \/ KubeletUpdate(q) \/ Schedule(q)
             \/ Deliver(q) \/ Resync(q) \/ CniAdd(q) \/ Reconcile(q)
      PROVE  cut' = cut
  BY <1>1 DEF UserCreate, UserDelete, KubeletUpdate, Schedule, Deliver, Resync, CniAdd, UserStep,
              Reconcile, history
<1>2. ASSUME \/ FindLogicalSwitch \/ LspAdd \/ ReadAddress \/ SetPodAnnotation \/ ListPorts
             \/ LspDel \/ Crash \/ \E n \in PortNames : Allocate(n)
      PROVE  cut' = cut
  BY <1>2 DEF FindLogicalSwitch, LspAdd, ReadAddress, SetPodAnnotation, ListPorts, LspDel, Crash,
              Allocate, history
<1>3. ASSUME \/ \E s \in Switches : CreateSwitch(s) \/ DeleteSwitch(s)
             \/ UNCHANGED vars
      PROVE  cut \subseteq cut'
  BY <1>3 DEF CreateSwitch, DeleteSwitch, vars, history
<1>. QED
  BY <1>1, <1>2, <1>3 DEF Next, WorkerStep

\* A run beside an annotation of the pod that is there now is on that pod.
LEMMA SamePod ==
  ASSUME TypeOK, WorkerInv, NEW p \in Pods, ObjInv(p), AnnInv(p), req = p,
         NEW a \in {api[p].ann, configured[p]} \ {NoVal}, a.inc = api[p].inc
  PROVE  obj.live /\ Todo(obj) = Todo(api[p])
<1>1. api[p].inc \in Nat /\ obj.inc \in Nat
  BY VersionType DEF TypeOK
<1>2. Before(obj, api[p]) /\ a.inc <= obj.inc /\ api[p].live
  BY DEF ObjInv, AnnInv
<1>3. obj.inc = api[p].inc
  BY <1>1, <1>2 DEF Before
<1>. QED
  BY <1>2, <1>3, TodoOfSpec DEF Before

\* Stored and configured addresses stay what OVN has: a run on a stale copy finds its
\* port and does not give it another address.
LEMMA ListStep ==
  ASSUME TypeOK, WorkerInv, OwnPorts, [Next]_vars, NEW p \in Pods, p \notin cut',
         ObjInv(p), AnnInv(p), ListInv(p), RunInv(p)
  PROVE  ListInv(p)'
<1>. SUFFICES ASSUME NEW a \in {api'[p].ann, configured'[p]} \ {NoVal}, a.inc = api'[p].inc
              PROVE  /\ Len(a.entries) = Len(Todo(api'[p]))
                     /\ Backed(ports', p, a.entries, Todo(api'[p]))
  BY DEF ListInv
<1>. DEFINE t == Todo(api[p])
<1>1. api'[p].inc = api[p].inc /\ Todo(api'[p]) = t /\ api[p].live
  BY AnnSources
<1>2. api[p] \in Versions /\ t \in Seq(Requests)
  BY TodoType DEF TypeOK
<1>3. CASE a \in {api[p].ann, configured[p]} \ {NoVal}
  <2>1. Len(a.entries) = Len(t) /\ Backed(ports, p, a.entries, t)
    BY <1>1, <1>3 DEF ListInv
  <2>2. a.entries \in Seq(Entries)
    <3>1. a \in Annotations
      BY <1>2, <1>3, VersionType DEF TypeOK
    <3>. QED
      BY <3>1 DEF Annotations
  <2>3. req = p => obj.live /\ Todo(obj) = t
    BY <1>1, <1>3, SamePod
  <2>4. req = p /\ pc \in Adding => t = todo
    BY <2>3 DEF WorkerInv
  <2>5. ~(req = p /\ pc = "lspDel")
    BY <2>3 DEF WorkerInv
  <2>6. Len(a.entries) <= Len(t)
    BY <1>2, <2>1
  <2>. HIDE DEF t
  <2>7. Backed(ports', p, a.entries, t)
    BY <1>2, <2>1, <2>2, <2>4, <2>5, <2>6, BackedStep
  <2>. QED
    BY <1>1, <2>1, <2>7
<1>4. CASE SetPodAnnotation /\ req = p /\ a = Made
  <2>1. pc = "patch" /\ ports' = ports
    BY <1>4, PatchStores
  <2>2. Before(obj, api[p]) /\ obj.inc = api[p].inc
    BY <1>1, <1>4 DEF ObjInv, Made
  <2>3. Todo(obj) = t /\ todo = t
    BY <1>1, <2>1, <2>2, TodoOfSpec DEF Before, WorkerInv, Adding
  <2>4. Len(entries) = Len(t) /\ Backed(ports, p, entries, t)
    BY <1>1, <1>4, <2>1, <2>2, <2>3 DEF WorkerInv, RunInv, Adding
  <2>. QED
    BY <1>1, <1>4, <2>1, <2>4 DEF Made
<1>. QED
  BY <1>3, <1>4, AnnSources

\* So do those of the entries the run at hand has made.
LEMMA RunStep ==
  ASSUME TypeOK, WorkerInv, OwnPorts, [Next]_vars, NEW p \in Pods, p \notin cut',
         ObjInv(p), RunInv(p)
  PROVE  RunInv(p)'
<1>. SUFFICES ASSUME req' = p, pc' \in Adding
              PROVE  /\ api'[p].live /\ obj'.inc = api'[p].inc => Backed(ports', p, entries', todo')
                     /\ pc' = "readAddress" => ports'[port'] # NoVal /\ Fits(ports'[port'], now')
  BY DEF RunInv
<1>0. p # NoVal /\ obj \in Versions /\ entries \in Seq(Entries) /\ todo \in Seq(Requests)
  BY NoValFacts DEF TypeOK
\* The entries that were there are kept.
<1>1. ASSUME req = p, pc \in Adding, UNCHANGED <<obj, todo>>, api'[p].live, obj.inc = api'[p].inc
      PROVE  Backed(ports', p, entries, todo)
  <2>1. obj.inc \in Nat /\ api[p].inc \in Nat /\ Before(obj, api[p])
    BY <1>0, <1>1, VersionType DEF ObjInv, TypeOK
  <2>2. api[p].live /\ api[p].inc = obj.inc
    BY <1>1, <2>1, ApiSteps DEF Follows, Rewrites, Before
  <2>3. Backed(ports, p, entries, todo)
    BY <1>1, <2>2 DEF RunInv
  <2>4. Len(entries) <= Len(todo)
    BY <1>0, <1>1 DEF WorkerInv, Adding
  <2>. QED
    BY <1>0, <1>1, <2>3, <2>4, BackedStep DEF Adding
\* So is the port of the interface at hand.
<1>2. ASSUME req = p, pc = "readAddress", UNCHANGED <<req, todo, idx>>
      PROVE  ports'[port] # NoVal /\ Fits(ports'[port], now)
  <2>1. idx \in 1..Len(todo) /\ todo[idx] \in Requests
    BY <1>0, <1>2 DEF WorkerInv, Adding
  <2>2. port \in PortNames /\ port[1] = p
    BY <1>2, <2>1 DEF port, now, PortNames, Requests
  <2>3. ports[port] # NoVal /\ Fits(ports[port], now)
    BY <1>2 DEF RunInv, Adding
  <2>4. CASE ports'[port] = ports[port]
    BY <2>3, <2>4
  <2>5. CASE Tagged(ports[port], ports'[port])
    BY <2>3, <2>5, AddressFacts DEF Tagged, Fits
  <2>6. ~LspAdd /\ pc # "lspDel"
    BY <1>2 DEF LspAdd
  <2>. QED
    BY <2>2, <2>4, <2>5, <2>6, PortSteps
<1>3. CASE UNCHANGED workerVars
  <2>1. UNCHANGED <<pc, req, obj, todo, idx, entries, port, now>>
    BY <1>3 DEF workerVars, port, now
  <2>. QED
    BY <1>1, <1>2, <2>1
<1>4. ASSUME NEW q \in Pods, Reconcile(q), ~UNCHANGED workerVars
      PROVE  pc' # "readAddress" /\ entries' = <<>>
  BY <1>4 DEF Reconcile, WorkerInv, Adding, StepFor
<1>5. CASE FindLogicalSwitch \/ LspAdd
  <2>1. /\ pc \in {"find", "lspAdd"} /\ UNCHANGED <<req, obj, todo, idx, entries, port, now>>
        /\ pc' = IF pc = "find" THEN "lspAdd" ELSE "readAddress"
        /\ pc = "lspAdd" => \E a \in Addresses : NewAddress(a) /\ ports' = [ports EXCEPT ![port] = a]
    BY <1>0, <1>5 DEF FindLogicalSwitch, LspAdd, Retry, Finish, Goto, port, now
  <2>2. pc' = "readAddress" => ports'[port] # NoVal /\ Fits(ports'[port], now)
    <3>1. idx \in 1..Len(todo) /\ todo[idx] \in Requests
      BY <1>0, <2>1 DEF WorkerInv, Adding
    <3>2. port \in PortNames
      BY <2>1, <3>1 DEF port, now, PortNames, Requests
    <3>3. ASSUME NEW a \in Addresses, NewAddress(a) PROVE a # NoVal /\ Fits(a, now)
      BY <3>3, AddressFacts DEF NewAddress, Fits
    <3>. QED
      BY <2>1, <3>2, <3>3 DEF TypeOK
  <2>. QED
    BY <1>1, <2>1, <2>2 DEF Adding
<1>6. CASE ReadAddress
  <2>. DEFINE e == [port |-> port, addr |-> ports[port]]
  <2>1. /\ pc = "readAddress" /\ UNCHANGED <<req, obj, todo, ports, api>>
        /\ ports[port].ip = NoVal => ports[port].tag # NoVal
        /\ entries' = Append(entries, e) /\ pc' # "readAddress"
    BY <1>0, <1>6 DEF ReadAddress, Retry, Finish, StepFor, kubeVars, ovnVars
  <2>2. Fits(ports[port], now) /\ Len(entries) = idx - 1 /\ idx \in 1..Len(todo)
    BY <2>1 DEF RunInv, WorkerInv, Adding
  <2>3. SUFFICES ASSUME api'[p].live, obj.inc = api'[p].inc
                 PROVE  Backed(ports, p, entries', todo)
    BY <2>1
  <2>4. Backed(ports, p, entries, todo)
    BY <1>1, <2>1, <2>3 DEF Adding
  <2>5. e.port = <<p, todo[idx].intf>> /\ e.addr = ports[e.port] /\ Fits(e.addr, todo[idx])
    BY <2>1, <2>2 DEF port, now
  <2>6. Kept(ports[e.port], e)
    BY <2>5 DEF Kept
  <2>7. e.addr.ip = NoVal => e.addr.tag # NoVal
    BY <2>1
  <2>. HIDE DEF e
  <2>8. \A i \in 1..Len(entries') : \/ i \in 1..Len(entries) /\ entries'[i] = entries[i]
                                    \/ i = idx /\ entries'[i] = e
    BY <1>0, <2>1, <2>2
  <2>. QED
    BY <2>4, <2>5, <2>6, <2>7, <2>8 DEF Backed
<1>7. ASSUME SetPodAnnotation \/ ListPorts \/ LspDel \/ Crash PROVE FALSE
  BY <1>0, <1>7 DEF SetPodAnnotation, ListPorts, LspDel, Crash, Done, Finish, Adding
<1>8. ASSUME NEW q \in Pods,
             \/ UserCreate(q) \/ UserDelete(q) \/ KubeletUpdate(q) \/ Schedule(q)
             \/ Deliver(q) \/ Resync(q) \/ CniAdd(q)
      PROVE  UNCHANGED workerVars
  BY <1>8 DEF UserCreate, UserDelete, KubeletUpdate, Schedule, Deliver, Resync, CniAdd, UserStep
<1>9. ASSUME \/ \E n \in PortNames : Allocate(n)
             \/ \E s \in Switches : CreateSwitch(s) \/ DeleteSwitch(s)
             \/ UNCHANGED vars
      PROVE  UNCHANGED workerVars
  BY <1>9 DEF Allocate, CreateSwitch, DeleteSwitch, vars
<1>10. ASSUME NEW q \in Pods, Reconcile(q)
       PROVE  /\ api'[p].live /\ obj'.inc = api'[p].inc => Backed(ports', p, entries', todo')
              /\ pc' = "readAddress" => ports'[port'] # NoVal /\ Fits(ports'[port'], now')
  BY <1>3, <1>4, <1>10 DEF Backed
<1>. QED
  BY <1>3, <1>5, <1>6, <1>7, <1>8, <1>9, <1>10 DEF Next, WorkerStep

(***************************************************************************)
(* The theorems.                                                           *)
(***************************************************************************)

\* The parts of both invariants hold initially.
LEMMA InitFacts ==
  ASSUME Init
  PROVE  /\ TypeOK /\ WorkerInv /\ OwnerInv /\ OwnPorts
         /\ \A p \in Pods : VersionInv(p) /\ ObjInv(p) /\ AnnInv(p) /\ ListInv(p) /\ RunInv(p)
<1>. DEFINE g == Gone(0, 0)
<1>1. g \in Versions /\ ~g.live /\ g.ann = NoVal /\ g.inc = 0
  BY GoneType
<1>. HIDE DEF g
<1>2. /\ api = [p \in Pods |-> g] /\ pending = [p \in Pods |-> {}] /\ cache = api /\ queue = {}
      /\ pc = "idle" /\ req = NoVal /\ obj = g /\ todo = <<>> /\ idx = 0 /\ entries = <<>>
      /\ toDel = {} /\ switches = Switches /\ ports = [n \in PortNames |-> NoVal]
      /\ configured = [p \in Pods |-> NoVal] /\ cut = {} /\ missed = {}
      /\ faults = 0 /\ crashes = 0 /\ ops = 0 /\ switchOps = 0
  BY DEF Init, g
<1>3. KubeType
  BY <1>1, <1>2 DEF KubeType
<1>4. WorkType
  BY <1>1, <1>2 DEF WorkType, Pcs
<1>5. OvnType
  BY <1>2 DEF OvnType
<1>6. WorkerInv /\ OwnPorts
  BY <1>2 DEF WorkerInv, Adding, OwnPorts
<1>7. OwnerInv
  BY <1>2 DEF OwnerInv, Adding
<1>8. ASSUME NEW p \in Pods
      PROVE  VersionInv(p) /\ ObjInv(p) /\ AnnInv(p) /\ ListInv(p) /\ RunInv(p)
  <2>1. api[p] = g /\ cache[p] = g /\ pending[p] = {} /\ configured[p] = NoVal /\ req # p
    BY <1>2, NoValFacts
  <2>. QED
    BY <1>1, <2>1, BeforeItself DEF VersionInv, ObjInv, AnnInv, ListInv, RunInv
<1>. QED
  BY <1>3, <1>4, <1>5, <1>6, <1>7, <1>8, TypeParts

\* The inductive invariant of the worker and the ports, whatever the names.
THEOREM Invariance == Spec => []IInv
<1>1. Init => IInv
  BY InitFacts DEF IInv
<1>2. IInv /\ [Next]_vars => IInv'
  BY TypeStep, OwnerStep DEF IInv
<1>. QED
  BY <1>1, <1>2, PTL DEF Spec

\* Reconcile, AddLogicalPorts, DeleteLogicalPorts: every variable keeps its type,
\* and the loop over the interfaces stays within its list, for every annotation.
THEOREM TypeCorrect == Spec => []TypeOK
<1>1. IInv => TypeOK
  BY DEF IInv
<1>. QED
  BY <1>1, Invariance, PTL

\* add(), Reconcile: whatever is created, deleted, retried, lost or restarted, a
\* port has a pod, or an event that will remove it, unless lsp-del failed or the
\* pod went while nfn-operator was down.
THEOREM PortsHaveOwnerHolds == Spec => []PortsHaveOwner
<1>1. IInv => PortsHaveOwner
  BY PortNameFacts DEF IInv, OwnerInv, PortsHaveOwner
<1>. QED
  BY <1>1, Invariance, PTL

\* Every step keeps MatchInv, when no pod's name contains another's.
LEMMA MatchStep ==
  ASSUME NamesApart, MatchInv, [Next]_vars
  PROVE  MatchInv'
<1>1. TypeOK /\ WorkerInv /\ OwnerInv /\ OwnPorts
  BY DEF MatchInv, IInv
<1>2. IInv'
  BY <1>1, TypeStep, OwnerStep DEF IInv
<1>3. OwnPorts'
  BY <1>1, OwnPortsStep
<1>4. ASSUME NEW p \in Pods PROVE VersionInv(p)' /\ ObjInv(p)' /\ AnnInv(p)'
  BY <1>1, VersionStep, ObjStep, AnnStep DEF MatchInv
<1>5. ASSUME NEW p \in Pods \ cut' PROVE ListInv(p)' /\ RunInv(p)'
  <2>1. p \in Pods \ cut /\ p \notin cut'
    BY CutGrows
  <2>. QED
    BY <1>1, <2>1, ListStep, RunStep DEF MatchInv
<1>. QED
  BY <1>2, <1>3, <1>4, <1>5 DEF MatchInv

\* What OVN has for the ports of a pod is what the pod was configured with.
LEMMA MatchImplies ==
  ASSUME MatchInv
  PROVE  ConfiguredMatchesOvn
<1>. SUFFICES ASSUME NEW p \in Pods \ cut, Configured(p),
                     NEW i \in 1..Len(configured[p].entries)
              PROVE  Kept(ports[configured[p].entries[i].port], configured[p].entries[i])
  BY DEF ConfiguredMatchesOvn, Kept
<1>. DEFINE a == configured[p]
            t == Todo(api[p])
<1>1. a # NoVal /\ a.inc = api[p].inc
  BY DEF Configured
<1>2. Len(a.entries) = Len(t) /\ Backed(ports, p, a.entries, t)
  BY <1>1 DEF MatchInv, ListInv
<1>. HIDE DEF a, t
<1>3. \A j, k \in 1..Len(a.entries) : a.entries[j].port = a.entries[k].port => j = k
  BY DEF Configured, a
<1>4. Apart(t)
  <2>1. \A j \in 1..Len(t) : a.entries[j].port = <<p, t[j].intf>>
    BY <1>2 DEF Backed
  <2>. QED
    BY <1>2, <1>3, <2>1 DEF Apart
<1>. QED
  BY <1>2, <1>4 DEF Backed, a

\* AddLogicalPorts, setPodAnnotation, cmdAdd: with pods of which none is part of
\* another's name, neither a run on a stale copy, nor a retry, nor the late removal
\* of the ports of an earlier pod changes what a running pod was configured with.
THEOREM ConfiguredMatchesOvnHolds == ASSUME NamesApart PROVE Spec => []ConfiguredMatchesOvn
<1>1. Init => MatchInv
  BY InitFacts DEF MatchInv, IInv
<1>2. MatchInv /\ [Next]_vars => MatchInv'
  BY MatchStep
<1>3. MatchInv => ConfiguredMatchesOvn
  BY MatchImplies
<1>. QED
  BY <1>1, <1>2, <1>3, PTL DEF Spec
=============================================================================

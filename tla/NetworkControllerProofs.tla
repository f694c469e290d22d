---------------------- MODULE NetworkControllerProofs ----------------------
(***************************************************************************)
(* Safety of NetworkController for every set of Networks and every bound,  *)
(* by one inductive invariant.                                             *)
(***************************************************************************)
EXTENDS NetworkController, TLAPS

\* Versions of k that are stored, on their way to the cache, or in it.
Versions(k) == {cache[k], api[k]} \cup pending[k]

\* A version on which Reconcile goes on to create the switch at once.
Holds(v) == v.live /\ v.fin /\ ~v.del

\* The cache follows the store, and resource versions tell versions apart.
VersionsOrdered(k) ==
  \A v \in Versions(k) :
    cache[k].rv <= v.rv /\ v.rv <= api[k].rv /\ (v.rv = api[k].rv => v = api[k])

\* While a version with the finalizer may still be read, the stored object has it.
FinalizerKept(k) == \A v \in Versions(k) : Holds(v) => api[k].live /\ api[k].fin

\* Behind a version marked for deletion, no later one carries the finalizer unmarked.
NoWayBack(k) ==
  \A v, w \in Versions(k) : v.live /\ v.del /\ v.rv <= w.rv => ~Holds(w)

\* The spec of a live version has a subnet.
HasSubnet(k) == \A v \in Versions(k) : v.live => v.subnet \in Subnets

\* Status "Created" is only written to an object that has the finalizer.
CreatedHasFinalizer(k) == api[k].live /\ api[k].state = "Created" => api[k].fin

KubeInv ==
  \A k \in Keys :
    VersionsOrdered(k) /\ FinalizerKept(k) /\ NoWayBack(k) /\ HasSubnet(k)
      /\ CreatedHasFinalizer(k)

CreatePcs == {"find", "lsAdd", "lrpAdd", "lspAdd", "statusCreated", "statusError"}
DeletePcs == {"lrpDel", "lsDel", "statusDelete", "removeFinalizer", "removeFinalizerErr"}

\* The worker's copy of the object against the stored one.
CopyInv ==
  pc # "idle" =>
    /\ cr.live /\ cr.subnet \in Subnets /\ cr.rv <= api[req].rv
    /\ cr.rv = api[req].rv => cr.fin = api[req].fin /\ cr.del = api[req].del
    /\ cr.rv = api[req].rv /\ pc # "removeFinalizerErr" => cr = api[req]
    /\ pc = "addFinalizer" => ~cr.del /\ ~cr.fin /\ cr.rv <= cache[req].rv
    /\ pc \in CreatePcs => ~cr.del /\ cr.fin
    /\ pc \in DeletePcs => cr.del /\ cr.fin /\ \A v \in Versions(req) : ~Holds(v)

\* The worker's place against the switch and the finalizer.
WorkerInv ==
  /\ pc \in {"find", "lsAdd"} => api[req].live /\ api[req].fin
  /\ pc \in {"lsAdd", "removeFinalizer"} => ls[name] = NoSubnet
  /\ pc \in {"lrpAdd", "lspAdd", "statusCreated"} => ls[name] # NoSubnet
  /\ pc = "lsDel" => name \notin rtos

IInv == TypeOK /\ KubeInv /\ CopyInv /\ WorkerInv /\ RouterPortHasSwitch /\ NoOrphanSwitch

(***************************************************************************)
(* Type correctness.                                                       *)
(***************************************************************************)

\* The fields of a version.
LEMMA ObjectFields ==
  ASSUME NEW o \in Objects
  PROVE  /\ o.rv \in Nat /\ o.live \in BOOLEAN /\ o.del \in BOOLEAN /\ o.fin \in BOOLEAN
         /\ o.subnet \in Subnets \cup {NoSubnet}
BY DEF Objects

\* A deleted object's last version is a version.
LEMMA TombstoneType == ASSUME NEW rv \in Nat PROVE Tombstone(rv) \in Objects
BY DEF Tombstone, Objects, States

\* What the API server stores for an accepted update is a version.
LEMMA AcceptedType == ASSUME NEW o \in Objects PROVE Accepted(o) \in Objects
<1>1. o.rv + 1 \in Nat
  BY ObjectFields
<1>2. ASSUME NEW r \in Nat PROVE [o EXCEPT !.rv = r] \in Objects
  BY DEF Objects
<1>. QED
  BY <1>1, <1>2, TombstoneType DEF Accepted

\* Storing a version keeps the store and the watch well typed.
LEMMA StoreType ==
  ASSUME TypeOK, NEW k \in Keys, NEW o \in Objects, Store(k, o)
  PROVE  api' \in [Keys -> Objects] /\ pending' \in [Keys -> SUBSET Objects]
BY DEF TypeOK, Store

\* The version a user's write gets.
LEMMA NextVersion ==
  ASSUME TypeOK, NEW k \in Keys PROVE api[k].rv \in Nat /\ api[k].rv + 1 \in Nat
<1>1. api[k] \in Objects
  BY DEF TypeOK
<1>. QED
  BY <1>1, ObjectFields

\* A user's write keeps the types.
LEMMA UserStepType ==
  ASSUME TypeOK, NEW k \in Keys, NEW o \in Objects, UserStep(k, o) PROVE TypeOK'
<1>1. ops' \in Nat
  BY DEF TypeOK, UserStep
<1>2. Store(k, o)
  BY DEF UserStep
<1>. QED
  BY <1>1, <1>2, StoreType DEF UserStep, TypeOK, workerVars, ovnVars

\* So does a write of the worker, whatever becomes of it.
LEMMA ApiCallType ==
  ASSUME TypeOK, req \in Keys, NEW o \in Objects, ApiCall(o, TRUE, TRUE)
  PROVE  /\ api' \in [Keys -> Objects] /\ pending' \in [Keys -> SUBSET Objects]
         /\ faults' \in Nat
<1>1. CASE UNCHANGED <<api, pending>>
  BY <1>1 DEF TypeOK, ApiCall, Fault, NoFault
<1>2. CASE Store(req, Accepted(o))
  <2>1. api' \in [Keys -> Objects] /\ pending' \in [Keys -> SUBSET Objects]
    BY <1>2, AcceptedType, StoreType
  <2>. QED
    BY <2>1 DEF TypeOK, ApiCall, Fault, NoFault
<1>. QED
  BY <1>1, <1>2 DEF ApiCall, Write

\* What the worker may have read: an object that existed, and that has the finalizer
\* if it is being deleted.
Readable(o) == o.live /\ (o.del => o.fin)

\* Such an object is there after an accepted write.
LEMMA WrittenReadable ==
  ASSUME TypeOK, req \in Keys, NEW o \in Objects, Readable(o), Write(req, o)
  PROVE  Readable(api'[req])
<1>1. CASE o = api[req] /\ api' = api
  BY <1>1
<1>2. CASE Store(req, Accepted(o))
  <2>1. api'[req] = Accepted(o)
    BY <1>2 DEF Store, TypeOK
  <2>2. Accepted(o) = [o EXCEPT !.rv = o.rv + 1]
    BY ObjectFields DEF Accepted, Readable
  <2>3. ASSUME NEW r PROVE Readable([o EXCEPT !.rv = r])
    BY DEF Readable, Objects
  <2>. QED
    BY <2>1, <2>2, <2>3
<1>. QED
  BY <1>1, <1>2 DEF Write

\* Init establishes the types.
LEMMA TypeInit == Init => TypeOK
BY ConstantsAssumption, TombstoneType DEF Init, TypeOK, Pcs

\* Every step keeps them.
LEMMA TypeStep == TypeOK /\ [Next]_vars => TypeOK'
<1>. SUFFICES ASSUME TypeOK, [Next]_vars PROVE TypeOK'
  OBVIOUS
<1>1. ASSUME NEW k \in Keys, UserCreate(k) PROVE TypeOK'
  <2>1. PICK t \in CniTypes, s \in Subnets :
          UserStep(k, [live |-> TRUE, rv |-> api[k].rv + 1, del |-> FALSE,
                       fin |-> FALSE, cni |-> t, subnet |-> s, state |-> ""])
    BY <1>1 DEF UserCreate
  <2>2. ASSUME NEW r \in Nat
        PROVE  [live |-> TRUE, rv |-> r, del |-> FALSE,
                fin |-> FALSE, cni |-> t, subnet |-> s, state |-> ""] \in Objects
    BY DEF Objects, States
  <2>. QED
    BY <2>1, <2>2, NextVersion, UserStepType
<1>2. ASSUME NEW k \in Keys, UserEdit(k) PROVE TypeOK'
  <2>1. PICK t \in CniTypes, s \in Subnets :
          UserStep(k, [api[k] EXCEPT !.rv = @ + 1, !.cni = t, !.subnet = s])
    BY <1>2 DEF UserEdit
  <2>2. ASSUME NEW r \in Nat
        PROVE  [api[k] EXCEPT !.rv = r, !.cni = t, !.subnet = s] \in Objects
    BY DEF TypeOK, Objects
  <2>. QED
    BY <2>1, <2>2, NextVersion, UserStepType
<1>3. ASSUME NEW k \in Keys, UserDelete(k) PROVE TypeOK'
  <2>1. ASSUME NEW r \in Nat PROVE [api[k] EXCEPT !.rv = r, !.del = TRUE] \in Objects
    BY DEF TypeOK, Objects
  <2>. QED
    BY <1>3, <2>1, NextVersion, TombstoneType, UserStepType DEF UserDelete
<1>4. ASSUME NEW k \in Keys, Deliver(k) PROVE TypeOK'
  BY <1>4 DEF Deliver, TypeOK, workerVars, ovnVars, bounds
<1>5. ASSUME NEW k \in Keys, Resync(k) PROVE TypeOK'
  BY <1>5 DEF Resync, TypeOK, kubeVars, workerVars, ovnVars, bounds
<1>6. ASSUME NEW k \in Keys, Reconcile(k) PROVE TypeOK'
  BY <1>6 DEF Reconcile, ReconcileFinalizers, TypeOK, Pcs, kubeVars, workerVars, ovnVars, bounds
<1>7. Tombstone(0) \in Objects
  BY TombstoneType
<1>8. ASSUME AddFinalizer PROVE TypeOK'
  <2>1. req \in Keys /\ [cr EXCEPT !.fin = TRUE] \in Objects
    BY <1>8 DEF AddFinalizer, TypeOK, Objects
  <2>2. ApiCall([cr EXCEPT !.fin = TRUE], TRUE, TRUE)
    BY <1>8 DEF AddFinalizer, ApiCall
  <2>3. Readable([cr EXCEPT !.fin = TRUE])
    BY <1>8 DEF AddFinalizer, TypeOK, Objects, Readable
  <2>4. pc' # "idle" => req' = req /\ Readable(cr')
    <3>1. pc' # "idle" => Write(req, [cr EXCEPT !.fin = TRUE]) /\ cr' = api'[req] /\ req' = req
      BY <1>8 DEF AddFinalizer, ApiCall, Goto, Retry, Finish
    <3>. QED
      BY <2>1, <2>3, <3>1, WrittenReadable
  <2>5. /\ pc' \in {"find", "idle"} /\ req' \in Keys \cup {NoKey} /\ cr' \in Objects
        /\ queue' \subseteq Keys
    BY <1>7, <1>8, <2>1, <2>2, ApiCallType
    DEF AddFinalizer, ApiCall, Goto, Retry, Finish, TypeOK
  <2>6. UNCHANGED <<cache, ls, rtos, stor, gatewayCache, leaked, crashes, ops>>
    BY <1>8 DEF AddFinalizer, ovnVars, bounds
  <2>. QED
    BY <2>1, <2>2, <2>4, <2>5, <2>6, ApiCallType DEF TypeOK, Pcs, Readable
<1>9. ASSUME FindLS PROVE TypeOK'
  BY <1>9 DEF FindLS, Goto, Fault, NoFault, TypeOK, Pcs, kubeVars, ovnVars, bounds
<1>10. ASSUME LsAdd PROVE TypeOK'
  <2>1. cr.subnet \in Subnets \cup {NoSubnet}
    BY ObjectFields DEF TypeOK
  <2>. QED
    BY <1>10, <2>1, ConstantsAssumption
    DEF LsAdd, Nbctl, name, Goto, Fault, NoFault, TypeOK, Pcs, kubeVars, ovnVars, bounds
<1>11. ASSUME LrpAdd PROVE TypeOK'
  BY <1>11, ConstantsAssumption
  DEF LrpAdd, Nbctl, name, Goto, Fault, NoFault, TypeOK, Pcs, kubeVars, ovnVars, bounds
<1>12. ASSUME LspAdd PROVE TypeOK'
  BY <1>12, ConstantsAssumption
  DEF LspAdd, Nbctl, name, Goto, Fault, NoFault, TypeOK, Pcs, kubeVars, ovnVars, bounds
<1>13. ASSUME UpdateStatus PROVE TypeOK'
  <2>. DEFINE s == IF pc = "statusCreated" THEN "Created" ELSE "CreateInternalError"
  <2>1. req \in Keys /\ [cr EXCEPT !.state = s] \in Objects
    BY <1>13 DEF UpdateStatus, TypeOK, Objects, States
  <2>2. ApiCall([cr EXCEPT !.state = s], TRUE, TRUE)
    BY <1>13 DEF UpdateStatus, ApiCall
  <2>. QED
    BY <1>7, <1>13, <2>1, <2>2, ApiCallType
    DEF UpdateStatus, ApiCall, Done, Retry, Finish, TypeOK, Pcs, ovnVars, bounds
<1>14. ASSUME LrpDel PROVE TypeOK'
  BY <1>14 DEF LrpDel, Nbctl, Goto, Fault, NoFault, TypeOK, Pcs, kubeVars, ovnVars, bounds
<1>15. ASSUME LsDel PROVE TypeOK'
  BY <1>15, ConstantsAssumption
  DEF LsDel, Nbctl, name, Goto, Fault, NoFault, TypeOK, Pcs, kubeVars, ovnVars, bounds
<1>16. ASSUME UpdateDeleteStatus PROVE TypeOK'
  <2>. DEFINE o == [cr EXCEPT !.state = "DeleteInternalError"]
  <2>1. req \in Keys /\ o \in Objects
    BY <1>16 DEF UpdateDeleteStatus, TypeOK, Objects, States
  <2>2. ApiCall(o, TRUE, TRUE) /\ (cr' = api'[req] \/ cr' = o)
    BY <1>16 DEF UpdateDeleteStatus, ApiCall
  <2>3. cr' \in Objects
    BY <2>1, <2>2, ApiCallType
  <2>4. Readable(o)
    BY <1>16 DEF UpdateDeleteStatus, TypeOK, Objects, Readable
  <2>5. (Write(req, o) /\ cr' = api'[req]) \/ cr' = o
    BY <1>16 DEF UpdateDeleteStatus, ApiCall
  <2>6. Readable(cr')
    BY <2>1, <2>4, <2>5, WrittenReadable
  <2>. QED
    BY <1>16, <2>1, <2>2, <2>3, <2>6, ApiCallType
    DEF UpdateDeleteStatus, Goto, TypeOK, Pcs, Readable, ovnVars, bounds
<1>17. ASSUME RemoveFinalizer PROVE TypeOK'
  <2>1. req \in Keys /\ [cr EXCEPT !.fin = FALSE] \in Objects
    BY <1>17 DEF RemoveFinalizer, TypeOK, Objects
  <2>2. ApiCall([cr EXCEPT !.fin = FALSE], TRUE, TRUE)
    BY <1>17 DEF RemoveFinalizer, ApiCall
  <2>3. name \in Names
    BY <2>1, ConstantsAssumption DEF name
  <2>. QED
    BY <1>7, <1>17, <2>1, <2>2, <2>3, ApiCallType
    DEF RemoveFinalizer, ApiCall, Done, Retry, Finish, TypeOK, Pcs, ovnVars, bounds
<1>18. ASSUME NEW n \in Names, GetGatewayFromSwitch(n) PROVE TypeOK'
  BY <1>18 DEF GetGatewayFromSwitch, TypeOK, kubeVars, workerVars, ovnVars, bounds
<1>19. ASSUME Crash PROVE TypeOK'
  BY <1>7, <1>19 DEF Crash, Finish, TypeOK, Pcs, ovnVars
<1>20. CASE UNCHANGED vars
  BY <1>20 DEF vars, TypeOK
<1>. QED
  BY <1>1, <1>2, <1>3, <1>4, <1>5, <1>6, <1>8, <1>9, <1>10, <1>11, <1>12, <1>13, <1>14,
     <1>15, <1>16, <1>17, <1>18, <1>19, <1>20 DEF Next, WorkerStep

\* Whatever calls fail and whenever nfn-operator restarts, the Network controller's
\* variables keep their types, and Reconcile always works for a request, on an object
\* that existed when it was read and that has the finalizer if it is being deleted.
THEOREM TypeCorrect == Spec => []TypeOK
<1>. QED
  BY TypeInit, TypeStep, PTL DEF Spec

(***************************************************************************)
(* The invariant, under steps of the store and the watch.                  *)
(***************************************************************************)

\* A step that leaves store, watch and cache alone keeps KubeInv.
LEMMA KubeStutter == ASSUME KubeInv, UNCHANGED kubeVars PROVE KubeInv'
BY DEF KubeInv, kubeVars, VersionsOrdered, FinalizerKept, NoWayBack, HasSubnet,
       CreatedHasFinalizer, Versions, Holds

\* A new stored version o of k keeps KubeInv, if o carries the finalizer unmarked
\* only when the one before did or when no version in sight is marked, and gives the
\* finalizer up only when no version in sight carries it unmarked.
LEMMA StoreKube ==
  ASSUME TypeOK, KubeInv, NEW k \in Keys, NEW o \in Objects, Store(k, o), cache' = cache,
         o.rv = api[k].rv + 1,
         Holds(o) => Holds(api[k]) \/ \A v \in Versions(k) : ~(v.live /\ v.del),
         (\E v \in Versions(k) : Holds(v)) => o.live /\ o.fin,
         o.live => o.subnet \in Subnets,
         o.live /\ o.state = "Created" => o.fin
  PROVE  KubeInv'
<1>1. api'[k] = o /\ cache'[k] = cache[k]
  BY DEF Store, TypeOK
<1>2. Versions(k)' \subseteq Versions(k) \cup {o}
  BY <1>1 DEF Store, TypeOK, Versions
<1>3. cache[k] \in Versions(k) /\ api[k] \in Versions(k)
  BY DEF Versions
<1>4. \A v \in Versions(k) : v.rv \in Nat
  BY ObjectFields DEF Versions, TypeOK
<1>5. \A v \in Versions(k) : cache[k].rv <= v.rv /\ v.rv <= api[k].rv
  BY DEF KubeInv, VersionsOrdered
<1>6. o.rv \in Nat /\ \A v \in Versions(k) : v.rv < o.rv
  BY <1>3, <1>4, <1>5
<1>7. VersionsOrdered(k)'
  BY <1>1, <1>2, <1>3, <1>4, <1>5, <1>6 DEF VersionsOrdered
<1>8. FinalizerKept(k)'
  BY <1>1, <1>2 DEF FinalizerKept, Holds
<1>9. NoWayBack(k)'
  <2>. SUFFICES ASSUME NEW v \in Versions(k)', NEW w \in Versions(k)',
                       v.live, v.del, v.rv <= w.rv, Holds(w)
                PROVE  FALSE
    BY DEF NoWayBack, Holds
  <2>1. CASE v = o
    <3>1. w = o
      BY <1>2, <1>4, <1>6, <2>1
    <3>. QED
      BY <2>1, <3>1 DEF Holds
  <2>2. CASE v \in Versions(k) /\ w \in Versions(k)
    BY <2>2 DEF KubeInv, NoWayBack
  <2>3. CASE v \in Versions(k) /\ w = o
    BY <1>3, <1>5, <2>3 DEF KubeInv, NoWayBack
  <2>. QED
    BY <1>2, <2>1, <2>2, <2>3
<1>10. HasSubnet(k)'
  BY <1>2 DEF HasSubnet, KubeInv
<1>11. CreatedHasFinalizer(k)'
  BY <1>1 DEF CreatedHasFinalizer
<1>12. ASSUME NEW j \in Keys, j # k
       PROVE  (VersionsOrdered(j) /\ FinalizerKept(j) /\ NoWayBack(j) /\ HasSubnet(j)
                 /\ CreatedHasFinalizer(j))'
  <2>1. api'[j] = api[j] /\ cache'[j] = cache[j] /\ pending'[j] = pending[j]
    BY <1>12 DEF Store, TypeOK
  <2>. QED
    BY <2>1 DEF KubeInv, VersionsOrdered, FinalizerKept, NoWayBack, HasSubnet,
                CreatedHasFinalizer, Versions, Holds
<1>. QED
  BY <1>7, <1>8, <1>9, <1>10, <1>11, <1>12 DEF KubeInv

\* The watch hands the oldest pending version to the cache.
LEMMA DeliverKube == ASSUME TypeOK, KubeInv, NEW k \in Keys, Deliver(k) PROVE KubeInv'
<1>1. PICK v \in pending[k] :
        /\ \A w \in pending[k] : v.rv <= w.rv
        /\ cache' = [cache EXCEPT ![k] = v]
        /\ pending' = [pending EXCEPT ![k] = @ \ {v}]
  BY DEF Deliver
<1>2. api' = api
  BY DEF Deliver
<1>3. ASSUME NEW j \in Keys, j # k
      PROVE  (VersionsOrdered(j) /\ FinalizerKept(j) /\ NoWayBack(j) /\ HasSubnet(j)
                /\ CreatedHasFinalizer(j))'
  <2>1. api'[j] = api[j] /\ cache'[j] = cache[j] /\ pending'[j] = pending[j]
    BY <1>1, <1>2, <1>3 DEF TypeOK
  <2>. QED
    BY <2>1 DEF KubeInv, VersionsOrdered, FinalizerKept, NoWayBack, HasSubnet,
                CreatedHasFinalizer, Versions, Holds
<1>4. Versions(k)' \subseteq Versions(k) /\ api'[k] = api[k] /\ cache'[k] = v
  BY <1>1, <1>2 DEF Versions, TypeOK
<1>5. \A w \in Versions(k)' : v.rv <= w.rv
  <2>1. Versions(k)' = {v, api[k]} \cup (pending[k] \ {v})
    BY <1>1, <1>2 DEF Versions, TypeOK
  <2>2. v.rv <= api[k].rv
    BY DEF KubeInv, VersionsOrdered, Versions
  <2>3. v.rv <= v.rv
    BY ObjectFields DEF TypeOK
  <2>. QED
    BY <1>1, <2>1, <2>2, <2>3
<1>6. (VersionsOrdered(k) /\ FinalizerKept(k) /\ NoWayBack(k) /\ HasSubnet(k)
         /\ CreatedHasFinalizer(k))'
  <2>1. VersionsOrdered(k)'
    BY <1>4, <1>5 DEF KubeInv, VersionsOrdered
  <2>2. FinalizerKept(k)' /\ HasSubnet(k)' /\ CreatedHasFinalizer(k)'
    BY <1>4 DEF KubeInv, FinalizerKept, HasSubnet, CreatedHasFinalizer, Holds
  <2>3. NoWayBack(k)'
    BY <1>4 DEF KubeInv, NoWayBack, Holds
  <2>. QED
    BY <2>1, <2>2, <2>3
<1>. QED
  BY <1>3, <1>6 DEF KubeInv

\* A user's write keeps IInv, if it neither puts the finalizer on an unmarked object
\* nor takes it off.
LEMMA UserStepInv ==
  ASSUME IInv, NEW k \in Keys, NEW o \in Objects, UserStep(k, o),
         o.rv = api[k].rv + 1,
         Holds(o) => Holds(api[k]),
         api[k].live /\ api[k].fin => o.live /\ o.fin,
         o.live => o.subnet \in Subnets,
         o.live /\ o.state = "Created" => o.fin
  PROVE  IInv'
<1>. USE DEF IInv
<1>1. TypeOK'
  BY UserStepType
<1>2. Store(k, o) /\ cache' = cache /\ UNCHANGED <<pc, req, cr, ls, rtos, stor, leaked>>
  BY DEF UserStep, workerVars, ovnVars
<1>3. (\E v \in Versions(k) : Holds(v)) => o.live /\ o.fin
  BY DEF KubeInv, FinalizerKept
<1>4. KubeInv'
  BY <1>2, <1>3, StoreKube
<1>5. api' = [api EXCEPT ![k] = o] /\ api[k].rv \in Nat
  BY <1>2, NextVersion DEF Store
<1>6. CopyInv'
  <2>. SUFFICES ASSUME pc # "idle" PROVE CopyInv'
    BY <1>2 DEF CopyInv
  <2>1. CASE req # k
    <3>1. api'[req] = api[req] /\ Versions(req)' = Versions(req)
      BY <1>2, <1>5, <2>1 DEF Store, Versions, TypeOK
    <3>. QED
      BY <1>2, <3>1 DEF CopyInv
  <2>2. CASE req = k
    <3>1. api'[req] = o /\ Versions(req)' \subseteq Versions(req) \cup {o}
      BY <1>2, <1>5, <2>2 DEF Store, Versions, TypeOK
    <3>2. cr.rv \in Nat /\ cr.rv <= api[req].rv
      BY ObjectFields DEF TypeOK, CopyInv
    <3>3. cr.rv <= o.rv /\ cr.rv # o.rv
      BY <1>5, <2>2, <3>2
    <3>4. api[k] \in Versions(k)
      BY DEF Versions
    <3>. QED
      BY <1>2, <2>2, <3>1, <3>3, <3>4 DEF CopyInv
  <2>. QED
    BY <2>1, <2>2
<1>7. WorkerInv'
  BY <1>2, <1>5 DEF WorkerInv, name, TypeOK
<1>8. RouterPortHasSwitch' /\ NoOrphanSwitch'
  BY <1>2, <1>5 DEF RouterPortHasSwitch, NoOrphanSwitch, TypeOK
<1>. QED
  BY <1>1, <1>4, <1>6, <1>7, <1>8

\* Users create, edit and delete.
LEMMA UserInv ==
  ASSUME IInv, NEW k \in Keys, UserCreate(k) \/ UserEdit(k) \/ UserDelete(k) PROVE IInv'
<1>. api[k] \in Objects /\ api[k].rv + 1 \in Nat
  BY NextVersion DEF IInv, TypeOK
<1>0. api[k].live => api[k].subnet \in Subnets
  BY DEF IInv, KubeInv, HasSubnet, Versions
<1>00. api[k].live /\ api[k].state = "Created" => api[k].fin
  BY DEF IInv, KubeInv, CreatedHasFinalizer
<1>1. CASE UserCreate(k)
  <2>1. PICK t \in CniTypes, s \in Subnets :
          UserStep(k, [live |-> TRUE, rv |-> api[k].rv + 1, del |-> FALSE,
                       fin |-> FALSE, cni |-> t, subnet |-> s, state |-> ""])
    BY <1>1 DEF UserCreate
  <2>. DEFINE o == [live |-> TRUE, rv |-> api[k].rv + 1, del |-> FALSE,
                    fin |-> FALSE, cni |-> t, subnet |-> s, state |-> ""]
  <2>2. ASSUME NEW r \in Nat
        PROVE  [live |-> TRUE, rv |-> r, del |-> FALSE,
                fin |-> FALSE, cni |-> t, subnet |-> s, state |-> ""] \in Objects
    BY DEF Objects, States
  <2>3. o \in Objects
    BY <2>2
  <2>4. o.rv = api[k].rv + 1 /\ ~o.fin /\ o.subnet \in Subnets /\ o.state # "Created"
    OBVIOUS
  <2>5. ~api[k].live
    BY <1>1 DEF UserCreate
  <2>. HIDE DEF o
  <2>. QED
    BY <2>1, <2>3, <2>4, <2>5, UserStepInv DEF Holds, o
<1>2. CASE UserEdit(k)
  <2>1. PICK t \in CniTypes, s \in Subnets :
          UserStep(k, [api[k] EXCEPT !.rv = @ + 1, !.cni = t, !.subnet = s])
    BY <1>2 DEF UserEdit
  <2>. DEFINE o == [api[k] EXCEPT !.rv = @ + 1, !.cni = t, !.subnet = s]
  <2>2. ASSUME NEW r \in Nat
        PROVE  [api[k] EXCEPT !.rv = r, !.cni = t, !.subnet = s] \in Objects
    BY DEF Objects
  <2>3. o \in Objects
    BY <2>2
  <2>4. /\ o.rv = api[k].rv + 1 /\ o.live = api[k].live /\ o.del = api[k].del
        /\ o.fin = api[k].fin /\ o.subnet \in Subnets /\ o.state = api[k].state
    BY DEF Objects
  <2>5. UserStep(k, o)
    BY <2>1
  <2>. HIDE DEF o
  <2>. QED
    BY <1>00, <2>5, <2>3, <2>4, UserStepInv DEF Holds
<1>3. CASE UserDelete(k)
  <2>1. CASE api[k].fin
    <3>. DEFINE o == [api[k] EXCEPT !.rv = @ + 1, !.del = TRUE]
    <3>1. ASSUME NEW r \in Nat PROVE [api[k] EXCEPT !.rv = r, !.del = TRUE] \in Objects
      BY DEF Objects
    <3>2. o \in Objects
      BY <3>1
    <3>3. /\ o.rv = api[k].rv + 1 /\ o.live = api[k].live /\ o.del
          /\ o.fin = api[k].fin /\ o.subnet = api[k].subnet /\ o.state = api[k].state
      BY DEF Objects
    <3>4. UserStep(k, o)
      BY <1>3, <2>1 DEF UserDelete
    <3>. HIDE DEF o
    <3>. QED
      BY <1>0, <1>00, <3>2, <3>3, <3>4, UserStepInv DEF Holds
  <2>2. CASE ~api[k].fin
    <3>. DEFINE o == Tombstone(api[k].rv + 1)
    <3>1. o \in Objects /\ o.rv = api[k].rv + 1 /\ ~o.live
      BY TombstoneType DEF Tombstone
    <3>2. UserStep(k, o)
      BY <1>3, <2>2 DEF UserDelete
    <3>. HIDE DEF o
    <3>. QED
      BY <2>2, <3>1, <3>2, UserStepInv DEF Holds
  <2>. QED
    BY <2>1, <2>2
<1>. QED
  BY <1>1, <1>2, <1>3

\* The watch delivers, a resync enqueues, Reconcile reads the cache.
LEMMA DeliverInv == ASSUME IInv, TypeOK', NEW k \in Keys, Deliver(k) PROVE IInv'
<1>. USE DEF IInv
<1>1. PICK v \in pending[k] :
        /\ cache' = [cache EXCEPT ![k] = v]
        /\ pending' = [pending EXCEPT ![k] = @ \ {v}]
  BY DEF Deliver
<1>2. UNCHANGED <<api, pc, req, cr, ls, rtos, stor, leaked>>
  BY DEF Deliver, workerVars, ovnVars
<1>3. KubeInv'
  BY DeliverKube
<1>4. CopyInv'
  <2>1. ASSUME NEW j \in Keys PROVE Versions(j)' \subseteq Versions(j)
    BY <1>1, <1>2 DEF Versions, TypeOK
  <2>2. cache[k].rv <= v.rv
    BY DEF KubeInv, VersionsOrdered, Versions
  <2>3. ASSUME NEW j \in Keys PROVE cache[j].rv <= cache'[j].rv
    BY <1>1, <2>2, ObjectFields DEF TypeOK
  <2>4. ASSUME NEW j \in Keys, cr.rv <= cache[j].rv PROVE cr.rv <= cache'[j].rv
    <3>1. cr.rv \in Nat /\ cache[j].rv \in Nat /\ cache'[j].rv \in Nat
      BY ObjectFields DEF TypeOK
    <3>. QED
      BY <2>3, <2>4, <3>1
  <2>. QED
    BY <1>2, <2>1, <2>4 DEF CopyInv, TypeOK
<1>5. WorkerInv' /\ RouterPortHasSwitch' /\ NoOrphanSwitch'
  BY <1>2 DEF WorkerInv, name, RouterPortHasSwitch, NoOrphanSwitch
<1>. QED
  BY <1>3, <1>4, <1>5

\* Reconcile starts from a cached version, which KubeInv relates to the stored one.
LEMMA ReconcileInv == ASSUME IInv, TypeOK', NEW k \in Keys, Reconcile(k) PROVE IInv'
<1>. USE DEF IInv
<1>1. UNCHANGED <<api, pending, cache, ls, rtos, stor, leaked>>
  BY DEF Reconcile, kubeVars, ovnVars
<1>2. KubeInv' /\ RouterPortHasSwitch' /\ NoOrphanSwitch'
  BY <1>1, KubeStutter DEF kubeVars, RouterPortHasSwitch, NoOrphanSwitch
<1>3. CASE UNCHANGED workerVars
  BY <1>1, <1>2, <1>3 DEF CopyInv, WorkerInv, name, Versions, Holds, workerVars
<1>4. CASE /\ pc' \in {"lrpDel", "removeFinalizerErr", "addFinalizer", "find"}
           /\ req' = k /\ cr' = cache[k] /\ cache[k].live
           /\ pc' = "addFinalizer" => ~cache[k].del /\ ~cache[k].fin
           /\ pc' = "find" => ~cache[k].del /\ cache[k].fin
           /\ pc' \in DeletePcs => cache[k].del /\ cache[k].fin
  <2>1. cache[k] \in Versions(k) /\ cache[k] \in Objects
    BY DEF Versions, TypeOK
  <2>2. /\ cache[k].rv <= api[k].rv /\ (cache[k].rv = api[k].rv => cache[k] = api[k])
        /\ cache[k].rv <= cache[k].rv
    BY <2>1 DEF KubeInv, VersionsOrdered
  <2>3. cache[k].subnet \in Subnets
    BY <1>4, <2>1 DEF KubeInv, HasSubnet
  <2>4. cache[k].del => \A v \in Versions(k) : ~Holds(v)
    BY <1>4, <2>1 DEF KubeInv, NoWayBack, VersionsOrdered
  <2>5. Versions(k)' = Versions(k)
    BY <1>1 DEF Versions
  <2>6. CopyInv'
    BY <1>1, <1>4, <2>2, <2>3, <2>4, <2>5 DEF CopyInv, CreatePcs, DeletePcs
  <2>7. WorkerInv'
    <3>1. pc' = "find" => api[k].live /\ api[k].fin
      BY <1>4, <2>1 DEF KubeInv, FinalizerKept, Holds
    <3>. QED
      BY <1>1, <1>4, <3>1 DEF WorkerInv
  <2>. QED
    BY <1>2, <2>6, <2>7
<1>. QED
  BY <1>3, <1>4 DEF Reconcile, ReconcileFinalizers, DeletePcs

(***************************************************************************)
(* The invariant, under the worker's calls of the API server.              *)
(***************************************************************************)

\* What an accepted update leaves of an object's fields.
LEMMA AcceptedFields ==
  ASSUME NEW o \in Objects
  PROVE  /\ Accepted(o).rv = o.rv + 1
         /\ o.del /\ ~o.fin => ~Accepted(o).live
         /\ ~(o.del /\ ~o.fin) =>
              /\ Accepted(o).live = o.live /\ Accepted(o).del = o.del
              /\ Accepted(o).fin = o.fin /\ Accepted(o).subnet = o.subnet
              /\ Accepted(o).state = o.state
BY DEF Accepted, Tombstone, Objects

\* Either the store is as it was, or the write was accepted.
LEMMA ApiCallCases ==
  ASSUME NEW o, ApiCall(o, TRUE, TRUE)
  PROVE  \/ UNCHANGED <<api, pending>>
         \/ api[req].live /\ api[req].rv = o.rv /\ Store(req, Accepted(o))
BY DEF ApiCall, Write, Rejected

\* The worker is idle after its last call.
LEMMA IdleInv ==
  ASSUME IInv, KubeInv', pc' = "idle", UNCHANGED <<ls, rtos, stor, leaked>>,
         \A k \in Keys : api[k].live /\ api[k].fin => api'[k].live /\ api'[k].fin
  PROVE  CopyInv' /\ WorkerInv' /\ RouterPortHasSwitch' /\ NoOrphanSwitch'
BY DEF IInv, CopyInv, WorkerInv, RouterPortHasSwitch, NoOrphanSwitch, CreatePcs, DeletePcs

\* A finalizer is only put on the version the worker read, so it stands when creation goes on.
LEMMA AddFinalizerInv == ASSUME IInv, TypeOK', AddFinalizer PROVE IInv'
<1>. DEFINE o == [cr EXCEPT !.fin = TRUE]
<1>. USE DEF IInv
<1>1. /\ req \in Keys /\ cr \in Objects /\ api[req] \in Objects
      /\ pc = "addFinalizer" /\ cache' = cache
      /\ UNCHANGED <<ls, rtos, stor, leaked>>
  BY DEF AddFinalizer, TypeOK, ovnVars
<1>2. /\ o \in Objects /\ o.fin /\ o.live = cr.live /\ o.rv = cr.rv /\ o.del = cr.del
      /\ o.subnet = cr.subnet /\ o.state = cr.state
  BY <1>1 DEF Objects
<1>3. ApiCall(o, TRUE, TRUE)
  BY DEF AddFinalizer, ApiCall
<1>. HIDE DEF o
<1>4. cr.live /\ cr.subnet \in Subnets /\ ~cr.del /\ ~cr.fin /\ cr.rv <= cache[req].rv
  BY <1>1 DEF CopyInv
<1>5. CASE UNCHANGED <<api, pending>>
  <2>1. KubeInv'
    BY <1>1, <1>5, KubeStutter DEF kubeVars
  <2>2. CASE pc' = "idle"
    BY <1>1, <1>5, <2>1, <2>2, IdleInv
  <2>3. CASE pc' # "idle"
    <3>1. pc' = "find" /\ req' = req /\ cr' = api[req] /\ ~Rejected(req, o) /\ Write(req, o)
      BY <1>5, <2>3 DEF AddFinalizer, ApiCall, Goto, Retry, Finish, o
    <3>2. o = api[req] \/ Store(req, Accepted(o))
      BY <3>1 DEF Write
    <3>3. o # api[req]
      BY <1>1, <1>2, <1>4, <3>1 DEF CopyInv, Rejected
    <3>4. Accepted(o).rv = o.rv + 1 /\ o.rv \in Nat
      BY <1>2, AcceptedFields, ObjectFields
    <3>5. api'[req] = Accepted(o)
      BY <1>1, <3>2, <3>3 DEF Store, TypeOK
    <3>. QED
      BY <1>5, <3>1, <3>4, <3>5 DEF Rejected
  <2>. QED
    BY <2>2, <2>3
<1>6. CASE api[req].live /\ api[req].rv = o.rv /\ Store(req, Accepted(o))
  <2>. DEFINE a == Accepted(o)
  <2>1. /\ a \in Objects /\ a.rv = api[req].rv + 1 /\ a.live /\ a.fin /\ ~a.del
        /\ a.subnet \in Subnets
    BY ZenonT(60), <1>2, <1>4, <1>6, AcceptedType, AcceptedFields
  <2>. HIDE DEF a
  <2>2. \A v \in Versions(req) : ~v.del
    <3>1. \A v \in Versions(req) : cache[req].rv <= v.rv /\ v.rv <= api[req].rv
                                     /\ (v.rv = api[req].rv => v = api[req])
      BY <1>1 DEF KubeInv, VersionsOrdered
    <3>2. \A v \in Versions(req) : v.rv \in Nat
      BY <1>1, ObjectFields DEF Versions, TypeOK
    <3>3. cache[req].rv \in Nat /\ api[req].rv \in Nat /\ cr.rv = api[req].rv
      BY <1>1, <1>2, <1>6, ObjectFields DEF TypeOK
    <3>4. \A v \in Versions(req) : v = api[req]
      BY <1>4, <3>1, <3>2, <3>3
    <3>. QED
      BY <1>1, <1>4, <3>3, <3>4 DEF CopyInv
  <2>3. KubeInv'
    <3>1. a.live /\ a.state = "Created" => a.fin
      BY <2>1
    <3>. QED
      BY <1>1, <1>6, <2>1, <2>2, <3>1, StoreKube DEF a
  <2>4. api' = [api EXCEPT ![req] = a]
    BY <1>6 DEF Store, a
  <2>5. api'[req] = a /\ \A k \in Keys : api[k].live /\ api[k].fin => api'[k].live /\ api'[k].fin
    BY <1>1, <2>1, <2>4 DEF TypeOK
  <2>6. CASE pc' = "idle"
    BY <1>1, <2>3, <2>5, <2>6, IdleInv
  <2>7. CASE pc' # "idle"
    <3>1. pc' = "find" /\ req' = req /\ cr' = a
      BY <2>5, <2>7 DEF AddFinalizer, ApiCall, Goto, Retry, Finish
    <3>2. CopyInv'
      BY <2>1, <2>5, <3>1, ObjectFields DEF CopyInv, CreatePcs, DeletePcs
    <3>3. WorkerInv'
      BY <2>1, <2>5, <3>1 DEF WorkerInv
    <3>4. RouterPortHasSwitch' /\ NoOrphanSwitch'
      BY <1>1, <2>5 DEF RouterPortHasSwitch, NoOrphanSwitch
    <3>. QED
      BY <2>3, <3>2, <3>3, <3>4
  <2>. QED
    BY <2>6, <2>7
<1>. QED
  BY <1>3, <1>5, <1>6, ApiCallCases

\* A status write that is accepted keeps finalizer and mark as they were.
LEMMA StatusKube ==
  ASSUME IInv, req \in Keys, pc # "idle", NEW o \in Objects, cache' = cache,
         o.live, o.subnet \in Subnets, o.fin, o.rv = cr.rv, o.del = cr.del, o.fin = cr.fin,
         api[req].live, api[req].rv = o.rv, Store(req, Accepted(o))
  PROVE  /\ KubeInv' /\ api' = [api EXCEPT ![req] = Accepted(o)]
         /\ Accepted(o).live /\ Accepted(o).fin /\ Accepted(o).del = o.del
         /\ Accepted(o).subnet = o.subnet /\ Accepted(o).rv = api[req].rv + 1
         /\ Accepted(o).state = o.state
<1>. USE DEF IInv
<1>. DEFINE a == Accepted(o)
<1>1. /\ a \in Objects /\ a.rv = api[req].rv + 1 /\ a.live /\ a.fin /\ a.del = o.del
      /\ a.subnet = o.subnet /\ a.state = o.state
  BY AcceptedType, AcceptedFields
<1>2. api[req].fin /\ api[req].del = o.del
  BY DEF CopyInv
<1>. HIDE DEF a
<1>3. Holds(a) => Holds(api[req])
  BY <1>1, <1>2 DEF Holds
<1>4. KubeInv'
  BY <1>1, <1>3, StoreKube DEF a
<1>. QED
  BY <1>1, <1>4 DEF Store, a

\* The status of a creation, written to the version the worker holds or refused.
LEMMA UpdateStatusInv == ASSUME IInv, TypeOK', UpdateStatus PROVE IInv'
<1>. DEFINE s == IF pc = "statusCreated" THEN "Created" ELSE "CreateInternalError"
            o == [cr EXCEPT !.state = s]
<1>. USE DEF IInv
<1>1. /\ req \in Keys /\ cr \in Objects /\ pc \in {"statusCreated", "statusError"}
      /\ pc' = "idle" /\ cache' = cache /\ UNCHANGED <<ls, rtos, stor, leaked>>
  BY DEF UpdateStatus, TypeOK, ovnVars, ApiCall, Done, Retry, Finish
<1>2. /\ o \in Objects /\ o.fin = cr.fin /\ o.live = cr.live /\ o.rv = cr.rv
      /\ o.del = cr.del /\ o.subnet = cr.subnet
  BY <1>1 DEF Objects, States
<1>3. ApiCall(o, TRUE, TRUE)
  BY DEF UpdateStatus, ApiCall
<1>. HIDE DEF o, s
<1>4. cr.live /\ cr.subnet \in Subnets /\ cr.fin
  BY <1>1 DEF CopyInv, CreatePcs
<1>5. CASE UNCHANGED <<api, pending>>
  <2>1. KubeInv'
    BY <1>1, <1>5, KubeStutter DEF kubeVars
  <2>. QED
    BY <1>1, <1>5, <2>1, IdleInv
<1>6. CASE api[req].live /\ api[req].rv = o.rv /\ Store(req, Accepted(o))
  <2>1. /\ KubeInv' /\ api' = [api EXCEPT ![req] = Accepted(o)]
        /\ Accepted(o).live /\ Accepted(o).fin
    BY <1>1, <1>2, <1>4, <1>6, StatusKube
  <2>2. \A k \in Keys : api[k].live /\ api[k].fin => api'[k].live /\ api'[k].fin
    BY <2>1 DEF TypeOK
  <2>. QED
    BY <1>1, <2>1, <2>2, IdleInv
<1>. QED
  BY <1>3, <1>5, <1>6, ApiCallCases

\* The status of a failed deletion; the worker goes on with its copy even if it is refused.
LEMMA UpdateDeleteStatusInv == ASSUME IInv, TypeOK', UpdateDeleteStatus PROVE IInv'
<1>. DEFINE o == [cr EXCEPT !.state = "DeleteInternalError"]
<1>. USE DEF IInv
<1>1. /\ req \in Keys /\ cr \in Objects /\ pc = "statusDelete"
      /\ pc' = "removeFinalizerErr" /\ req' = req /\ cache' = cache
      /\ UNCHANGED <<ls, rtos, stor, leaked>> /\ (cr' = api'[req] \/ cr' = o)
  BY DEF UpdateDeleteStatus, TypeOK, ovnVars, ApiCall, Goto
<1>2. /\ o \in Objects /\ o.fin = cr.fin /\ o.live = cr.live /\ o.rv = cr.rv
      /\ o.del = cr.del /\ o.subnet = cr.subnet
  BY <1>1 DEF Objects, States
<1>3. ApiCall(o, TRUE, TRUE) /\ (cr' = o \/ ~Rejected(req, o))
  BY DEF UpdateDeleteStatus, ApiCall
<1>. HIDE DEF o
<1>4. /\ cr.live /\ cr.subnet \in Subnets /\ cr.fin /\ cr.del /\ cr.rv <= api[req].rv
      /\ cr.rv = api[req].rv => cr.fin = api[req].fin /\ cr.del = api[req].del
                                /\ cr = api[req]
      /\ \A v \in Versions(req) : ~Holds(v)
  BY <1>1 DEF CopyInv, DeletePcs
<1>5. WorkerInv'
  BY <1>1 DEF WorkerInv
<1>6. CASE UNCHANGED <<api, pending>>
  <2>1. KubeInv' /\ RouterPortHasSwitch' /\ NoOrphanSwitch'
    BY <1>1, <1>6, KubeStutter DEF kubeVars, RouterPortHasSwitch, NoOrphanSwitch
  <2>2. Versions(req)' = Versions(req)
    BY <1>1, <1>6 DEF Versions
  <2>3. CopyInv'
    <3>1. CASE cr' = o
      BY <1>1, <1>2, <1>4, <1>6, <2>2, <3>1 DEF CopyInv, CreatePcs, Holds
    <3>2. CASE cr' = api[req] /\ ~Rejected(req, o)
      <4>1. cr' = cr
        BY <1>2, <1>4, <3>2 DEF Rejected
      <4>. QED
        BY <1>1, <1>4, <1>6, <2>2, <4>1 DEF CopyInv, CreatePcs, Holds
    <3>. QED
      BY <1>1, <1>3, <1>6, <3>1, <3>2
  <2>. QED
    BY <1>5, <2>1, <2>3
<1>7. CASE api[req].live /\ api[req].rv = o.rv /\ Store(req, Accepted(o))
  <2>. DEFINE a == Accepted(o)
  <2>1. /\ KubeInv' /\ api' = [api EXCEPT ![req] = a]
        /\ a.live /\ a.fin /\ a.del = o.del /\ a.subnet = o.subnet /\ a.rv = api[req].rv + 1
        /\ api[req].rv \in Nat /\ a \in Objects
    BY <1>1, <1>2, <1>4, <1>7, StatusKube, NextVersion, AcceptedType
  <2>. HIDE DEF a
  <2>2. api'[req] = a /\ \A k \in Keys : api[k].live /\ api[k].fin => api'[k].live /\ api'[k].fin
    BY <1>1, <2>1 DEF TypeOK
  <2>3. RouterPortHasSwitch' /\ NoOrphanSwitch'
    BY <1>1, <2>2 DEF RouterPortHasSwitch, NoOrphanSwitch
  <2>4. Versions(req)' \subseteq Versions(req) \cup {a}
    BY <1>1, <1>7, <2>2 DEF Versions, Store, TypeOK, a
  <2>5. \A v \in Versions(req)' : ~Holds(v)
    BY <1>2, <1>4, <2>1, <2>4 DEF Holds
  <2>6. CopyInv'
    <3>1. CASE cr' = o
      <4>1. cr'.rv <= a.rv /\ cr'.rv # a.rv
        BY <1>2, <1>7, <2>1, <3>1
      <4>. QED
        BY <1>1, <1>2, <1>4, <2>2, <2>5, <3>1, <4>1 DEF CopyInv, CreatePcs, Holds
    <3>2. CASE cr' = a
      <4>1. a.rv <= a.rv
        BY <2>1
      <4>. QED
        BY <1>1, <1>2, <1>4, <2>1, <2>2, <2>5, <3>2, <4>1 DEF CopyInv, CreatePcs, Holds
    <3>. QED
      BY <1>1, <2>2, <3>1, <3>2
  <2>. QED
    BY <1>5, <2>1, <2>3, <2>6
<1>. QED
  BY <1>3, <1>6, <1>7, ApiCallCases

\* Only this write takes a finalizer off: by then the switch is gone, or it is
\* recorded as leaked.
LEMMA RemoveFinalizerInv == ASSUME IInv, TypeOK', RemoveFinalizer PROVE IInv'
<1>. DEFINE o == [cr EXCEPT !.fin = FALSE]
<1>. USE DEF IInv
<1>1. /\ req \in Keys /\ cr \in Objects /\ pc \in {"removeFinalizer", "removeFinalizerErr"}
      /\ pc' = "idle" /\ cache' = cache /\ UNCHANGED <<ls, rtos, stor>>
  BY DEF RemoveFinalizer, TypeOK, ovnVars, ApiCall, Done, Retry, Finish
<1>2. o \in Objects /\ ~o.fin /\ o.rv = cr.rv /\ o.del = cr.del
  BY <1>1 DEF Objects
<1>3. ApiCall(o, TRUE, TRUE)
  BY DEF RemoveFinalizer, ApiCall
<1>4. leaked \subseteq leaked'
  BY DEF RemoveFinalizer
<1>. HIDE DEF o
<1>5. cr.del /\ \A v \in Versions(req) : ~Holds(v)
  BY <1>1 DEF CopyInv, DeletePcs
<1>6. CopyInv' /\ WorkerInv' /\ RouterPortHasSwitch'
  BY <1>1 DEF CopyInv, WorkerInv, RouterPortHasSwitch
<1>7. CASE UNCHANGED <<api, pending>>
  <2>1. KubeInv'
    BY <1>1, <1>7, KubeStutter DEF kubeVars
  <2>2. NoOrphanSwitch'
    BY <1>1, <1>4, <1>7 DEF NoOrphanSwitch
  <2>. QED
    BY <1>6, <2>1, <2>2
<1>8. CASE api[req].live /\ api[req].rv = o.rv /\ Store(req, Accepted(o))
  <2>. DEFINE a == Accepted(o)
  <2>1. a \in Objects /\ a.rv = api[req].rv + 1 /\ ~a.live
    BY <1>2, <1>5, <1>8, AcceptedType, AcceptedFields
  <2>. HIDE DEF a
  <2>2. KubeInv'
    BY <1>1, <1>5, <1>8, <2>1, StoreKube DEF Holds, a
  <2>3. api'[req] = a /\ \A k \in Keys : k # req => api'[k] = api[k]
    BY <1>1, <1>8 DEF Store, TypeOK, a
  <2>4. ls[name] = NoSubnet \/ name \in leaked'
    BY <1>1, <2>1, <2>3 DEF RemoveFinalizer, WorkerInv
  <2>5. NoOrphanSwitch'
    BY <1>1, <1>4, <2>3, <2>4 DEF NoOrphanSwitch, name
  <2>. QED
    BY <1>6, <2>2, <2>5
<1>. QED
  BY <1>3, <1>7, <1>8, ApiCallCases

(***************************************************************************)
(* The invariant, under the worker's ovn-nbctl commands.                   *)
(***************************************************************************)

\* A command moves the worker on within creation or within deletion: what was known
\* of its copy still holds.
LEMMA OvnCopy ==
  ASSUME IInv, UNCHANGED <<api, pending, cache, req, cr>>,
         \/ pc \in CreatePcs /\ pc' \in CreatePcs
         \/ pc \in DeletePcs /\ pc' \in DeletePcs /\ pc # "removeFinalizerErr"
  PROVE  KubeInv' /\ CopyInv'
<1>1. KubeInv'
  BY KubeStutter DEF IInv, kubeVars
<1>2. CopyInv'
  BY DEF IInv, CopyInv, CreatePcs, DeletePcs, Versions, Holds
<1>. QED
  BY <1>1, <1>2

\* The look-up establishes that there is no switch before ls-add, or that there is one.
LEMMA FindLSInv == ASSUME IInv, TypeOK', FindLS PROVE IInv'
<1>1. KubeInv' /\ CopyInv'
  BY OvnCopy DEF FindLS, Goto, CreatePcs, DeletePcs, kubeVars
<1>2. WorkerInv' /\ RouterPortHasSwitch' /\ NoOrphanSwitch'
  BY DEF IInv, WorkerInv, RouterPortHasSwitch, NoOrphanSwitch, FindLS, Goto, name, kubeVars, ovnVars
<1>. QED
  BY <1>1, <1>2 DEF IInv

\* A new switch belongs to the object in hand, which has the finalizer.
LEMMA LsAddInv == ASSUME IInv, TypeOK', LsAdd PROVE IInv'
<1>1. KubeInv' /\ CopyInv'
  BY OvnCopy DEF LsAdd, Nbctl, Goto, CreatePcs, DeletePcs, kubeVars
<1>2. /\ pc = "lsAdd" /\ pc' \in {"lrpAdd", "statusError"}
      /\ UNCHANGED <<api, req, rtos, stor, leaked>>
      /\ \/ ls' = [ls EXCEPT ![name] = cr.subnet]
         \/ ls' = ls /\ pc' = "statusError"
  BY DEF LsAdd, Nbctl, Goto, kubeVars, ovnVars
<1>3. /\ req \in Keys /\ name \in Names /\ cr.subnet # NoSubnet
      /\ api[req].live /\ api[req].fin /\ NameOf[req] = name
  BY <1>2, ConstantsAssumption DEF IInv, TypeOK, CopyInv, WorkerInv, name
<1>4. WorkerInv' /\ RouterPortHasSwitch' /\ NoOrphanSwitch'
  BY <1>2, <1>3 DEF IInv, TypeOK, WorkerInv, RouterPortHasSwitch, NoOrphanSwitch, name
<1>. QED
  BY <1>1, <1>4 DEF IInv

\* A router port is added to a switch that exists.
LEMMA LrpAddInv == ASSUME IInv, TypeOK', LrpAdd PROVE IInv'
<1>1. KubeInv' /\ CopyInv'
  BY OvnCopy DEF LrpAdd, Nbctl, Goto, CreatePcs, DeletePcs, kubeVars
<1>2. WorkerInv' /\ RouterPortHasSwitch' /\ NoOrphanSwitch'
  BY DEF IInv, WorkerInv, RouterPortHasSwitch, NoOrphanSwitch, LrpAdd, Nbctl, Goto, name,
         kubeVars, ovnVars
<1>. QED
  BY <1>1, <1>2 DEF IInv

\* A switch port is added to a switch that exists.
LEMMA LspAddInv == ASSUME IInv, TypeOK', LspAdd PROVE IInv'
<1>1. KubeInv' /\ CopyInv'
  BY OvnCopy DEF LspAdd, Nbctl, Goto, CreatePcs, DeletePcs, kubeVars
<1>2. WorkerInv' /\ RouterPortHasSwitch' /\ NoOrphanSwitch'
  BY DEF IInv, WorkerInv, RouterPortHasSwitch, NoOrphanSwitch, LspAdd, Nbctl, Goto, name,
         kubeVars, ovnVars
<1>. QED
  BY <1>1, <1>2 DEF IInv

\* After lrp-del the switch has no router port left.
LEMMA LrpDelInv == ASSUME IInv, TypeOK', LrpDel PROVE IInv'
<1>1. KubeInv' /\ CopyInv'
  BY OvnCopy DEF LrpDel, Nbctl, Goto, CreatePcs, DeletePcs, kubeVars
<1>2. WorkerInv' /\ RouterPortHasSwitch' /\ NoOrphanSwitch'
  BY DEF IInv, WorkerInv, RouterPortHasSwitch, NoOrphanSwitch, LrpDel, Nbctl, Goto, name,
         kubeVars, ovnVars
<1>. QED
  BY <1>1, <1>2 DEF IInv

\* After ls-del neither switch nor ports are left.
LEMMA LsDelInv == ASSUME IInv, TypeOK', LsDel PROVE IInv'
<1>1. KubeInv' /\ CopyInv'
  BY OvnCopy DEF LsDel, Nbctl, Goto, CreatePcs, DeletePcs, kubeVars
<1>2. /\ pc = "lsDel" /\ pc' \in {"removeFinalizer", "statusDelete"}
      /\ UNCHANGED <<api, req, rtos>>
      /\ leaked' = IF ls'[name] = NoSubnet THEN leaked \ {name} ELSE leaked
      /\ \/ ls' = [ls EXCEPT ![name] = NoSubnet] /\ stor' = stor \ {name}
         \/ UNCHANGED <<ls, stor>> /\ pc' = "statusDelete"
  BY DEF LsDel, Nbctl, Goto, kubeVars, ovnVars
<1>3. name \in Names /\ name \notin rtos
  BY <1>2, ConstantsAssumption DEF IInv, TypeOK, WorkerInv, name
<1>4. WorkerInv' /\ RouterPortHasSwitch'
  BY <1>2, <1>3 DEF IInv, TypeOK, WorkerInv, RouterPortHasSwitch, name
<1>5. NoOrphanSwitch'
  BY <1>2, <1>3 DEF IInv, TypeOK, NoOrphanSwitch
<1>. QED
  BY <1>1, <1>4, <1>5 DEF IInv

(***************************************************************************)
(* Restarts, and the theorems.                                             *)
(***************************************************************************)

\* After a restart the cache is what the API server lists.
LEMMA CrashInv == ASSUME IInv, TypeOK', Crash PROVE IInv'
<1>. USE DEF IInv
<1>1. /\ cache' = api /\ api' = api /\ pending' = [k \in Keys |-> {}]
      /\ pc' = "idle" /\ UNCHANGED <<ls, rtos, stor, leaked>>
  BY DEF Crash, Finish, ovnVars
<1>2. KubeInv'
  <2>. SUFFICES ASSUME NEW k \in Keys
                PROVE  (VersionsOrdered(k) /\ FinalizerKept(k) /\ NoWayBack(k)
                          /\ HasSubnet(k) /\ CreatedHasFinalizer(k))'
    BY DEF KubeInv
  <2>1. Versions(k)' = {api[k]} /\ api'[k] = api[k] /\ cache'[k] = api[k]
    BY <1>1 DEF Versions
  <2>2. api[k].rv <= api[k].rv
    BY NextVersion
  <2>3. api[k] \in Versions(k)
    BY DEF Versions
  <2>. QED
    BY <2>1, <2>2, <2>3 DEF KubeInv, VersionsOrdered, FinalizerKept, NoWayBack, HasSubnet,
                       CreatedHasFinalizer, Holds
<1>. QED
  BY <1>1, <1>2, IdleInv

\* The steps that touch neither the store, the worker nor the switches.
LEMMA OtherInv ==
  ASSUME IInv, TypeOK',
         UNCHANGED <<api, pending, cache, pc, req, cr, ls, rtos, stor, leaked>>
  PROVE  IInv'
<1>1. KubeInv'
  BY KubeStutter DEF IInv, kubeVars
<1>2. CopyInv' /\ WorkerInv' /\ RouterPortHasSwitch' /\ NoOrphanSwitch'
  BY DEF IInv, CopyInv, WorkerInv, RouterPortHasSwitch, NoOrphanSwitch, Versions, Holds, name
<1>. QED
  BY <1>1, <1>2 DEF IInv

\* The inductive invariant holds at the start.
LEMMA InvInit == Init => IInv
<1>. SUFFICES ASSUME Init PROVE IInv
  OBVIOUS
<1>1. TypeOK
  BY TypeInit
<1>2. \A k \in Keys : /\ Versions(k) = {Tombstone(0)} /\ api[k] = Tombstone(0)
                      /\ cache[k] = Tombstone(0)
  BY DEF Init, Versions
<1>3. Tombstone(0).rv <= Tombstone(0).rv /\ ~Tombstone(0).live
  BY DEF Tombstone
<1>4. KubeInv
  <2>1. ASSUME NEW k \in Keys PROVE VersionsOrdered(k)
    BY <1>2, <1>3 DEF VersionsOrdered
  <2>2. ASSUME NEW k \in Keys
        PROVE  FinalizerKept(k) /\ NoWayBack(k) /\ HasSubnet(k) /\ CreatedHasFinalizer(k)
    BY <1>2, <1>3 DEF FinalizerKept, NoWayBack, HasSubnet, CreatedHasFinalizer, Holds
  <2>. QED
    BY <2>1, <2>2 DEF KubeInv
<1>5. CopyInv /\ WorkerInv /\ RouterPortHasSwitch /\ NoOrphanSwitch
  BY DEF Init, CopyInv, WorkerInv, RouterPortHasSwitch, NoOrphanSwitch
<1>. QED
  BY <1>1, <1>4, <1>5 DEF IInv

\* Every step keeps the inductive invariant.
LEMMA InvStep == IInv /\ [Next]_vars => IInv'
<1>. SUFFICES ASSUME IInv, [Next]_vars PROVE IInv'
  OBVIOUS
<1>0. TypeOK'
  BY TypeStep DEF IInv
<1>1. ASSUME NEW k \in Keys, Resync(k) PROVE IInv'
  BY <1>0, <1>1, OtherInv DEF Resync, kubeVars, workerVars, ovnVars
<1>2. ASSUME NEW n \in Names, GetGatewayFromSwitch(n) PROVE IInv'
  BY <1>0, <1>2, OtherInv DEF GetGatewayFromSwitch, kubeVars, workerVars, ovnVars
<1>3. CASE UNCHANGED vars
  BY <1>0, <1>3, OtherInv DEF vars
<1>4. ASSUME NEW k \in Keys, UserCreate(k) \/ UserEdit(k) \/ UserDelete(k) PROVE IInv'
  BY <1>4, UserInv
<1>5. ASSUME NEW k \in Keys, Deliver(k) \/ Reconcile(k) PROVE IInv'
  BY <1>0, <1>5, DeliverInv, ReconcileInv
<1>6. CASE WorkerStep
  BY <1>0, <1>6, AddFinalizerInv, FindLSInv, LsAddInv, LrpAddInv, LspAddInv,
     UpdateStatusInv, LrpDelInv, LsDelInv, UpdateDeleteStatusInv, RemoveFinalizerInv
  DEF WorkerStep
<1>7. CASE Crash
  BY <1>0, <1>7, CrashInv
<1>. QED
  BY <1>1, <1>2, <1>3, <1>4, <1>5, <1>6, <1>7 DEF Next

\* The inductive invariant holds in every state.
THEOREM Invariance == Spec => []IInv
<1>. QED
  BY InvInit, InvStep, PTL DEF Spec

\* reconcileFinalizers: whatever interleaves with the worker, a switch that exists
\* belongs to a stored object with the finalizer, unless its deletion failed.
THEOREM NoOrphanSwitchHolds == Spec => []NoOrphanSwitch
<1>1. IInv => NoOrphanSwitch
  BY DEF IInv
<1>. QED
  BY Invariance, <1>1, PTL

\* CreateNetwork and DeleteNetwork: no failure, crash or restart leaves a router port
\* or its peer without the switch.
THEOREM RouterPortHasSwitchHolds == Spec => []RouterPortHasSwitch
<1>1. IInv => RouterPortHasSwitch
  BY DEF IInv
<1>. QED
  BY Invariance, <1>1, PTL

(***************************************************************************)
(* CreatedHasSwitch, when no two Networks share a name.                    *)
(***************************************************************************)

DistinctNames == \A j, k \in Keys : NameOf[j] = NameOf[k] => j = k

Reported(o) == o.live /\ ~o.del /\ o.state = "Created"

\* Only UpdateStatus, at the end of a creation, makes an object Created.
LEMMA ReportedStep ==
  ASSUME IInv, Next, NEW k \in Keys, Reported(api'[k])
  PROVE  Reported(api[k]) \/ (UpdateStatus /\ pc = "statusCreated" /\ k = req)
<1>. USE DEF IInv
<1>1. ASSUME NEW j \in Keys, NEW o, Store(j, o), ~Reported(o) \/ Reported(api[j])
      PROVE  Reported(api[k])
  BY <1>1 DEF Store, TypeOK
<1>2. CASE api' = api
  BY <1>2
<1>3. ASSUME NEW j \in Keys, UserCreate(j) PROVE Reported(api[k])
  <2>1. PICK t \in CniTypes, s \in Subnets :
          Store(j, [live |-> TRUE, rv |-> api[j].rv + 1, del |-> FALSE,
                    fin |-> FALSE, cni |-> t, subnet |-> s, state |-> ""])
    BY <1>3 DEF UserCreate, UserStep
  <2>. QED
    BY <1>1, <2>1 DEF Reported
<1>4. ASSUME NEW j \in Keys, UserEdit(j) PROVE Reported(api[k])
  <2>1. PICK t \in CniTypes, s \in Subnets :
          Store(j, [api[j] EXCEPT !.rv = @ + 1, !.cni = t, !.subnet = s])
    BY <1>4 DEF UserEdit, UserStep
  <2>. DEFINE o == [api[j] EXCEPT !.rv = @ + 1, !.cni = t, !.subnet = s]
  <2>2. o.live = api[j].live /\ o.del = api[j].del /\ o.state = api[j].state
    BY DEF TypeOK, Objects
  <2>3. ~Reported(o) \/ Reported(api[j])
    BY <2>2 DEF Reported
  <2>. HIDE DEF o
  <2>. QED
    BY <1>1, <2>1, <2>3 DEF o
<1>5. ASSUME NEW j \in Keys, UserDelete(j) PROVE Reported(api[k])
  <2>. DEFINE o == IF api[j].fin THEN [api[j] EXCEPT !.rv = @ + 1, !.del = TRUE]
                                 ELSE Tombstone(api[j].rv + 1)
  <2>1. Store(j, o)
    BY <1>5 DEF UserDelete, UserStep
  <2>2. [api[j] EXCEPT !.rv = @ + 1, !.del = TRUE].del
    BY DEF TypeOK, Objects
  <2>3. ~Tombstone(api[j].rv + 1).live
    BY DEF Tombstone
  <2>4. ~Reported(o)
    BY <2>2, <2>3 DEF Reported
  <2>. HIDE DEF o
  <2>. QED
    BY <1>1, <2>1, <2>4
<1>6. ASSUME NEW o \in Objects, ApiCall(o, TRUE, TRUE), req \in Keys,
             api[req].live /\ api[req].rv = o.rv /\ Reported(o) => Reported(api[req])
      PROVE  Reported(api[k])
  <2>1. CASE api' = api
    BY <2>1
  <2>2. CASE api[req].live /\ api[req].rv = o.rv /\ Store(req, Accepted(o))
    <3>1. Reported(Accepted(o)) => Reported(o)
      BY <1>6, AcceptedFields DEF Reported
    <3>. QED
      BY <1>1, <1>6, <2>2, <3>1
  <2>. QED
    BY <1>6, <2>1, <2>2, ApiCallCases
<1>7. CASE AddFinalizer
  <2>. DEFINE o == [cr EXCEPT !.fin = TRUE]
  <2>1. ApiCall(o, TRUE, TRUE) /\ req \in Keys /\ pc = "addFinalizer"
    BY <1>7 DEF AddFinalizer, ApiCall, TypeOK
  <2>2. o \in Objects /\ o.live = cr.live /\ o.del = cr.del /\ o.state = cr.state /\ o.rv = cr.rv
    BY DEF TypeOK, Objects
  <2>. HIDE DEF o
  <2>3. api[req].rv = o.rv => cr = api[req]
    BY <2>1, <2>2 DEF CopyInv
  <2>. QED
    BY <1>6, <2>1, <2>2, <2>3 DEF Reported
<1>8. CASE UpdateStatus
  <2>. DEFINE s == IF pc = "statusCreated" THEN "Created" ELSE "CreateInternalError"
              o == [cr EXCEPT !.state = s]
  <2>1. ApiCall(o, TRUE, TRUE) /\ req \in Keys
    BY <1>8 DEF UpdateStatus, ApiCall, TypeOK
  <2>2. o \in Objects /\ o.state = s
    BY DEF TypeOK, Objects, States
  <2>3. CASE pc # "statusCreated"
    <3>1. ~Reported(o)
      BY <2>2, <2>3 DEF Reported
    <3>. HIDE DEF o
    <3>. QED
      BY <1>6, <2>1, <2>2, <3>1
  <2>4. CASE pc = "statusCreated" /\ k # req
    <3>. HIDE DEF o
    <3>1. api'[k] = api[k]
      BY <2>1, <2>4, ApiCallCases DEF Store, TypeOK
    <3>. QED
      BY <3>1
  <2>. QED
    BY <1>8, <2>3, <2>4
<1>9. CASE UpdateDeleteStatus
  <2>. DEFINE o == [cr EXCEPT !.state = "DeleteInternalError"]
  <2>1. ApiCall(o, TRUE, TRUE) /\ req \in Keys
    BY <1>9 DEF UpdateDeleteStatus, ApiCall, TypeOK
  <2>2. o \in Objects /\ ~Reported(o)
    BY DEF TypeOK, Objects, States, Reported
  <2>. HIDE DEF o
  <2>. QED
    BY <1>6, <2>1, <2>2
<1>10. CASE RemoveFinalizer
  <2>. DEFINE o == [cr EXCEPT !.fin = FALSE]
  <2>1. ApiCall(o, TRUE, TRUE) /\ req \in Keys /\ pc \in {"removeFinalizer", "removeFinalizerErr"}
    BY <1>10 DEF RemoveFinalizer, ApiCall, TypeOK
  <2>2. o \in Objects /\ o.del = cr.del
    BY DEF TypeOK, Objects
  <2>3. ~Reported(o)
    BY <2>1, <2>2 DEF CopyInv, DeletePcs, Reported
  <2>. HIDE DEF o
  <2>. QED
    BY <1>6, <2>1, <2>2, <2>3
<1>11. ASSUME NEW j \in Keys, Deliver(j) \/ Resync(j) \/ Reconcile(j) PROVE api' = api
  BY <1>11 DEF Deliver, Resync, Reconcile, kubeVars
<1>12. CASE FindLS \/ LsAdd \/ LrpAdd \/ LspAdd \/ LrpDel \/ LsDel
  BY <1>2, <1>12 DEF FindLS, LsAdd, LrpAdd, LspAdd, LrpDel, LsDel, kubeVars
<1>13. CASE Crash \/ \E n \in Names : GetGatewayFromSwitch(n)
  BY <1>2, <1>13 DEF Crash, GetGatewayFromSwitch, kubeVars
<1>. QED
  BY <1>2, <1>3, <1>4, <1>5, <1>7, <1>8, <1>9, <1>10, <1>11, <1>12, <1>13 DEF Next, WorkerStep

\* Only LsDel takes a switch away.
LEMMA SwitchGone ==
  ASSUME IInv, Next, NEW n \in Names, ls[n] # NoSubnet, ls'[n] = NoSubnet
  PROVE  LsDel /\ n = name
<1>1. CASE LsAdd
  BY <1>1, ConstantsAssumption DEF LsAdd, Nbctl, ovnVars, IInv, TypeOK, CopyInv
<1>2. CASE LsDel
  BY <1>2 DEF LsDel, Nbctl, ovnVars, IInv, TypeOK
<1>3. ASSUME ~LsAdd, ~LsDel PROVE ls' = ls
  BY <1>3 DEF Next, WorkerStep, UserCreate, UserEdit, UserDelete, UserStep, Deliver, Resync,
       Reconcile, AddFinalizer, FindLS, LrpAdd, LspAdd, UpdateStatus, LrpDel, Nbctl,
       UpdateDeleteStatus, RemoveFinalizer, GetGatewayFromSwitch, Crash, ovnVars
<1>. QED
  BY <1>1, <1>2, <1>3

\* No step takes the switch from an object reported Created, nor reports one without a switch.
LEMMA CreatedStep ==
  ASSUME DistinctNames, IInv, CreatedHasSwitch, [Next]_vars PROVE CreatedHasSwitch'
<1>1. CASE UNCHANGED vars
  BY <1>1 DEF vars, CreatedHasSwitch
<1>2. CASE Next
  <2>. SUFFICES ASSUME NEW k \in Keys, Reported(api'[k]) PROVE ls'[NameOf[k]] # NoSubnet
    BY DEF CreatedHasSwitch, Reported
  <2>0. NameOf[k] \in Names
    BY ConstantsAssumption
  <2>1. CASE Reported(api[k])
    <3>1. ls[NameOf[k]] # NoSubnet
      BY <2>1 DEF CreatedHasSwitch, Reported
    <3>. SUFFICES ASSUME ls'[NameOf[k]] = NoSubnet PROVE FALSE
      OBVIOUS
    <3>2. LsDel /\ NameOf[k] = name
      BY <1>2, <2>0, <3>1, SwitchGone
    <3>3. pc = "lsDel" /\ req \in Keys
      BY <3>2 DEF LsDel, IInv, TypeOK
    <3>4. k = req
      BY <3>2, <3>3 DEF DistinctNames, name
    <3>5. ~Holds(api[req])
      BY <3>3 DEF IInv, CopyInv, DeletePcs, Versions
    <3>6. api[k].fin
      BY <2>1 DEF IInv, KubeInv, CreatedHasFinalizer, Reported
    <3>. QED
      BY <2>1, <3>4, <3>5, <3>6 DEF Holds, Reported
  <2>2. CASE UpdateStatus /\ pc = "statusCreated" /\ k = req
    BY <2>2 DEF UpdateStatus, IInv, WorkerInv, name, ovnVars
  <2>. QED
    BY <1>2, <2>1, <2>2, ReportedStep
<1>. QED
  BY <1>1, <1>2

\* createNetwork and deleteNetwork: with distinct names, neither a stale copy nor a
\* repeated deletion takes the switch from under an object reported Created.
THEOREM CreatedHasSwitchHolds == ASSUME DistinctNames PROVE Spec => []CreatedHasSwitch
<1>1. Init => CreatedHasSwitch
  <2>1. ~Tombstone(0).live
    BY DEF Tombstone
  <2>. QED
    BY <2>1 DEF Init, CreatedHasSwitch
<1>2. IInv /\ CreatedHasSwitch /\ [Next]_vars => CreatedHasSwitch'
  BY CreatedStep
<1>. QED
  BY Invariance, <1>1, <1>2, PTL DEF Spec
=============================================================================

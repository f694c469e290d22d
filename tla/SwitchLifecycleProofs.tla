----------------------- MODULE SwitchLifecycleProofs -----------------------
(***************************************************************************)
(* NetworkController implements SwitchLifecycle, for every set of Networks *)
(* and every bound: the initial states map to initial states, and every    *)
(* step of a state in the inductive invariant maps to a step or a stutter. *)
(***************************************************************************)
EXTENDS NetworkControllerProofs

\* The Network's finalizer holds its name.
Owner(o) == o.live /\ o.fin

\* The abstract step, or none.
LifecycleStep == [Lifecycle!Next]_(Lifecycle!vars)

(***************************************************************************)
(* Who owns a name, after a step of the store.                             *)
(***************************************************************************)

\* A step in which no Network takes or loses its finalizer leaves the owners alone.
LEMMA SameOwners ==
  ASSUME \A k \in Keys : Owner(api'[k]) <=> Owner(api[k])
  PROVE  Owners' = Owners
BY DEF Owners, Owner

\* Storing a version that has the finalizer like the one before leaves them alone.
LEMMA StoreSameOwners ==
  ASSUME TypeOK, NEW k \in Keys, NEW o, Store(k, o), Owner(o) <=> Owner(api[k])
  PROVE  Owners' = Owners
<1>1. \A j \in Keys : Owner(api'[j]) <=> Owner(api[j])
  BY DEF Store, TypeOK
<1>. QED
  BY <1>1, SameOwners

\* A version with the finalizer claims the Network's name.
LEMMA StoreClaims ==
  ASSUME TypeOK, NEW k \in Keys, NEW o, Store(k, o), Owner(o)
  PROVE  Owners' = [Owners EXCEPT ![NameOf[k]] = @ \cup {k}]
<1>1. api' = [api EXCEPT ![k] = o] /\ \A j \in Keys \ {k} : api'[j] = api[j]
  BY DEF Store, TypeOK
<1>2. api'[k] = o
  BY <1>1 DEF TypeOK
<1>3. NameOf[k] \in Names
  BY ConstantsAssumption
<1>4. /\ Owners = [n \in Names |-> {j \in Keys : NameOf[j] = n /\ Owner(api[j])}]
      /\ Owners' = [n \in Names |-> {j \in Keys : NameOf[j] = n /\ Owner(api'[j])}]
  BY DEF Owners, Owner
<1>5. ASSUME NEW n \in Names, n # NameOf[k] PROVE Owners'[n] = Owners[n]
  <2>1. {j \in Keys : NameOf[j] = n /\ Owner(api'[j])} = {j \in Keys : NameOf[j] = n /\ Owner(api[j])}
    BY <1>1, <1>5
  <2>. QED
    BY <1>4, <2>1
<1>6. Owners'[NameOf[k]] = Owners[NameOf[k]] \cup {k}
  <2>1. {j \in Keys : NameOf[j] = NameOf[k] /\ Owner(api'[j])}
          = {j \in Keys : NameOf[j] = NameOf[k] /\ Owner(api[j])} \cup {k}
    BY <1>1, <1>2
  <2>. QED
    BY <1>3, <1>4, <2>1
<1>7. Owners' = [n \in Names |-> Owners'[n]] /\ Owners = [n \in Names |-> Owners[n]]
  BY DEF Owners
<1>. QED
  BY <1>3, <1>5, <1>6, <1>7

\* A Network that is gone owns its name no more; nobody else is touched.
LEMMA GoneReleases ==
  ASSUME TypeOK, NEW k \in Keys, ~api'[k].live, \A j \in Keys \ {k} : api'[j] = api[j]
  PROVE  Owners' = [Owners EXCEPT ![NameOf[k]] = @ \ {k}]
<1>1. NameOf[k] \in Names
  BY ConstantsAssumption
<1>2. ASSUME NEW n \in Names, n # NameOf[k] PROVE Owners'[n] = Owners[n]
  BY <1>2 DEF Owners
<1>3. Owners'[NameOf[k]] = Owners[NameOf[k]] \ {k}
  BY <1>1 DEF Owners
<1>4. Owners' = [n \in Names |-> Owners'[n]] /\ Owners = [n \in Names |-> Owners[n]]
  BY DEF Owners
<1>. QED
  BY <1>1, <1>2, <1>3, <1>4

(***************************************************************************)
(* One lemma per kind of step.                                             *)
(***************************************************************************)

\* A step that touches neither owners nor switches is a stutter.
LEMMA Stutters ==
  ASSUME Owners' = Owners, UNCHANGED <<ls, rtos, leaked>> PROVE LifecycleStep
BY DEF LifecycleStep, Lifecycle!vars

\* A user's write never puts a finalizer on or takes one off.
LEMMA UserRefines ==
  ASSUME TypeOK, NEW k \in Keys, UserCreate(k) \/ UserEdit(k) \/ UserDelete(k)
  PROVE  LifecycleStep
<1>1. UNCHANGED <<ls, rtos, leaked>>
  BY DEF UserCreate, UserEdit, UserDelete, UserStep, ovnVars
<1>2. CASE UserCreate(k)
  <2>1. PICK t \in CniTypes, s \in Subnets :
          Store(k, [live |-> TRUE, rv |-> api[k].rv + 1, del |-> FALSE,
                    fin |-> FALSE, cni |-> t, subnet |-> s, state |-> ""])
    BY <1>2 DEF UserCreate, UserStep
  <2>2. ~Owner(api[k])
    BY <1>2 DEF UserCreate, Owner
  <2>. QED
    BY <1>1, <2>1, <2>2, StoreSameOwners, Stutters DEF Owner
<1>3. CASE UserEdit(k)
  <2>1. PICK t \in CniTypes, s \in Subnets :
          Store(k, [api[k] EXCEPT !.rv = @ + 1, !.cni = t, !.subnet = s])
    BY <1>3 DEF UserEdit, UserStep
  <2>. DEFINE o == [api[k] EXCEPT !.rv = @ + 1, !.cni = t, !.subnet = s]
  <2>2. Owner(o) <=> Owner(api[k])
    BY DEF TypeOK, Objects, Owner
  <2>. HIDE DEF o
  <2>. QED
    BY <1>1, <2>1, <2>2, StoreSameOwners, Stutters DEF o
<1>4. CASE UserDelete(k)
  <2>. DEFINE o == IF api[k].fin THEN [api[k] EXCEPT !.rv = @ + 1, !.del = TRUE]
                                 ELSE Tombstone(api[k].rv + 1)
  <2>1. Store(k, o)
    BY <1>4 DEF UserDelete, UserStep
  <2>2. Owner([api[k] EXCEPT !.rv = @ + 1, !.del = TRUE]) <=> Owner(api[k])
    BY DEF TypeOK, Objects, Owner
  <2>3. ~Owner(Tombstone(api[k].rv + 1))
    BY DEF Tombstone, Owner
  <2>4. Owner(o) <=> Owner(api[k])
    BY <2>2, <2>3 DEF Owner
  <2>. HIDE DEF o
  <2>. QED
    BY <1>1, <2>1, <2>4, StoreSameOwners, Stutters
<1>. QED
  BY <1>2, <1>3, <1>4

\* The first update of a creation claims the name, or is refused or lost.
LEMMA AddFinalizerRefines == ASSUME IInv, AddFinalizer PROVE LifecycleStep
<1>. DEFINE o == [cr EXCEPT !.fin = TRUE]
<1>1. /\ req \in Keys /\ name \in Names /\ pc = "addFinalizer"
      /\ UNCHANGED <<ls, rtos, leaked>> /\ ApiCall(o, TRUE, TRUE)
  BY ConstantsAssumption DEF AddFinalizer, IInv, TypeOK, ovnVars, name, ApiCall
<1>2. o \in Objects /\ o.fin /\ o.live
  BY <1>1 DEF IInv, TypeOK, CopyInv, Objects
<1>. HIDE DEF o
<1>3. CASE UNCHANGED <<api, pending>>
  BY <1>1, <1>3, SameOwners, Stutters
<1>4. CASE Store(req, Accepted(o))
  <2>1. Owner(Accepted(o))
    BY <1>2, AcceptedFields DEF Owner
  <2>2. Lifecycle!Claim(name, req)
    BY <1>1, <1>4, <2>1, StoreClaims DEF Lifecycle!Claim, IInv, name
  <2>. QED
    BY <1>1, <2>2 DEF LifecycleStep, Lifecycle!Next
<1>. QED
  BY <1>1, <1>3, <1>4, ApiCallCases

\* Writing the status keeps the finalizer of the object that is written.
LEMMA StatusRefines ==
  ASSUME IInv, UpdateStatus \/ UpdateDeleteStatus PROVE LifecycleStep
<1>1. /\ req \in Keys /\ pc \in CreatePcs \cup DeletePcs /\ UNCHANGED <<ls, rtos, leaked>>
      /\ cr \in Objects
  BY DEF UpdateStatus, UpdateDeleteStatus, IInv, TypeOK, ovnVars, CreatePcs, DeletePcs
<1>2. PICK s \in States : ApiCall([cr EXCEPT !.state = s], TRUE, TRUE)
  BY DEF UpdateStatus, UpdateDeleteStatus, ApiCall, States
<1>. DEFINE o == [cr EXCEPT !.state = s]
<1>3. o \in Objects /\ o.live /\ o.fin /\ o.rv = cr.rv
  BY <1>1 DEF IInv, CopyInv, CreatePcs, DeletePcs, Objects
<1>. HIDE DEF o
<1>4. CASE UNCHANGED <<api, pending>>
  BY <1>1, <1>4, SameOwners, Stutters
<1>5. CASE api[req].live /\ api[req].rv = o.rv /\ Store(req, Accepted(o))
  <2>1. Owner(Accepted(o))
    BY <1>3, AcceptedFields DEF Owner
  <2>2. Owner(api[req])
    BY <1>1, <1>3, <1>5 DEF Owner, IInv, CopyInv, CreatePcs, DeletePcs
  <2>. QED
    BY <1>1, <1>5, <2>1, <2>2, StoreSameOwners, Stutters DEF IInv
<1>. QED
  BY <1>2, <1>4, <1>5, ApiCallCases DEF o

\* The last update of a deletion releases the name of a switch that is gone, or of
\* one that is on record as leaked.
LEMMA RemoveFinalizerRefines == ASSUME IInv, RemoveFinalizer PROVE LifecycleStep
<1>. DEFINE o == [cr EXCEPT !.fin = FALSE]
<1>1. /\ req \in Keys /\ name \in Names /\ pc \in {"removeFinalizer", "removeFinalizerErr"}
      /\ UNCHANGED <<ls, rtos>> /\ ApiCall(o, TRUE, TRUE)
      /\ leaked' = IF pc = "removeFinalizerErr" /\ ~api'[req].live /\ ls[name] # NoSubnet
                     THEN leaked \cup {name} ELSE leaked
  BY ConstantsAssumption DEF RemoveFinalizer, IInv, TypeOK, ovnVars, name, ApiCall
<1>2. o \in Objects /\ ~o.fin /\ o.del
  BY <1>1 DEF IInv, TypeOK, CopyInv, DeletePcs, Objects
<1>. HIDE DEF o
<1>3. \/ api' = api /\ api'[req].live
      \/ ~api'[req].live /\ \A j \in Keys \ {req} : api'[j] = api[j]
  <2>1. CASE UNCHANGED <<api, pending>>
    BY <2>1
  <2>2. CASE Store(req, Accepted(o))
    BY <1>1, <1>2, <2>2, AcceptedFields DEF Store, IInv, TypeOK
  <2>. QED
    BY <1>1, <2>1, <2>2, ApiCallCases
<1>4. CASE api' = api /\ api'[req].live
  BY <1>1, <1>4, SameOwners, Stutters
<1>5. CASE ~api'[req].live /\ \A j \in Keys \ {req} : api'[j] = api[j]
  <2>1. Owners' = [Owners EXCEPT ![name] = @ \ {req}]
    BY <1>1, <1>5, GoneReleases DEF IInv, name
  <2>2. ls[name] # NoSubnet => name \in leaked'
    BY <1>1, <1>5 DEF IInv, WorkerInv
  <2>3. Lifecycle!Release(name, req)
    BY <1>1, <2>1, <2>2 DEF Lifecycle!Release
  <2>. QED
    BY <1>1, <2>3 DEF LifecycleStep, Lifecycle!Next
<1>. QED
  BY <1>3, <1>4, <1>5

\* The commands on switches and router ports.
LEMMA OvnRefines ==
  ASSUME IInv, LsAdd \/ LrpAdd \/ LrpDel \/ LsDel PROVE LifecycleStep
<1>1. /\ req \in Keys /\ name \in Names /\ api' = api /\ Owners' = Owners
  BY ConstantsAssumption, SameOwners
  DEF LsAdd, LrpAdd, LrpDel, LsDel, IInv, TypeOK, kubeVars, name
<1>2. CASE UNCHANGED <<ls, rtos, leaked>>
  BY <1>1, <1>2, Stutters
<1>3. CASE LsAdd /\ ls' = [ls EXCEPT ![name] = cr.subnet]
  <2>1. UNCHANGED <<rtos, leaked>> /\ pc = "lsAdd"
    BY <1>3 DEF LsAdd, Nbctl, ovnVars
  <2>2. cr.subnet \in Subnets /\ ls[name] = NoSubnet /\ Owner(api[req])
    BY <2>1 DEF IInv, CopyInv, WorkerInv, Owner
  <2>3. Owners[name] # {}
    BY <1>1, <2>2 DEF Owners, Owner, name
  <2>4. Lifecycle!Build(name, cr.subnet)
    BY <1>1, <1>3, <2>1, <2>2, <2>3 DEF Lifecycle!Build
  <2>. QED
    BY <1>1, <2>2, <2>4 DEF LifecycleStep, Lifecycle!Next
<1>4. CASE LrpAdd /\ rtos' = rtos \cup {name}
  <2>1. UNCHANGED <<ls, leaked>> /\ ls[name] # NoSubnet
    BY <1>4 DEF LrpAdd, Nbctl, ovnVars, IInv, WorkerInv
  <2>2. Lifecycle!Connect(name)
    BY <1>1, <1>4, <2>1 DEF Lifecycle!Connect
  <2>. QED
    BY <1>1, <2>2 DEF LifecycleStep, Lifecycle!Next
<1>5. CASE LrpDel /\ rtos' = rtos \ {name}
  <2>1. UNCHANGED <<ls, leaked>>
    BY <1>5 DEF LrpDel, Nbctl, ovnVars
  <2>2. Lifecycle!Disconnect(name)
    BY <1>1, <1>5, <2>1 DEF Lifecycle!Disconnect
  <2>. QED
    BY <1>1, <2>2 DEF LifecycleStep, Lifecycle!Next
<1>6. CASE LsDel /\ ls'[name] = NoSubnet
  <2>1. ls' = [ls EXCEPT ![name] = NoSubnet] /\ UNCHANGED rtos /\ name \notin rtos
    BY <1>1, <1>6 DEF LsDel, Nbctl, ovnVars, IInv, TypeOK, WorkerInv
  <2>2. leaked' = leaked \ {name}
    BY <1>6 DEF LsDel
  <2>3. Lifecycle!Remove(name)
    BY <1>1, <2>1, <2>2 DEF Lifecycle!Remove
  <2>. QED
    BY <1>1, <2>3 DEF LifecycleStep, Lifecycle!Next
<1>. QED
  BY <1>1, <1>2, <1>3, <1>4, <1>5, <1>6
  DEF LsAdd, LrpAdd, LrpDel, LsDel, Nbctl, ovnVars, IInv, TypeOK

\* Every step of the controller is a step of the switch's life, or changes nothing of it.
LEMMA StepRefines == IInv /\ [Next]_vars => LifecycleStep
<1>. SUFFICES ASSUME IInv, [Next]_vars PROVE LifecycleStep
  OBVIOUS
<1>1. ASSUME UNCHANGED <<api, ls, rtos, leaked>> PROVE LifecycleStep
  BY <1>1, SameOwners, Stutters
<1>2. CASE UNCHANGED vars
  BY <1>1, <1>2 DEF vars
<1>3. ASSUME NEW k \in Keys, UserCreate(k) \/ UserEdit(k) \/ UserDelete(k)
      PROVE  LifecycleStep
  BY <1>3, UserRefines DEF IInv
<1>4. ASSUME NEW k \in Keys, Deliver(k) \/ Resync(k) \/ Reconcile(k)
      PROVE  LifecycleStep
  BY <1>1, <1>4 DEF Deliver, Resync, Reconcile, kubeVars, ovnVars
<1>5. CASE FindLS \/ LspAdd
  BY <1>1, <1>5 DEF FindLS, LspAdd, Nbctl, kubeVars, ovnVars
<1>6. CASE WorkerStep
  BY <1>5, <1>6, AddFinalizerRefines, StatusRefines, RemoveFinalizerRefines, OvnRefines
  DEF WorkerStep
<1>7. CASE Crash \/ \E n \in Names : GetGatewayFromSwitch(n)
  BY <1>1, <1>7 DEF Crash, GetGatewayFromSwitch, kubeVars, ovnVars
<1>. QED
  BY <1>2, <1>3, <1>4, <1>6, <1>7 DEF Next

\* Before the first Network, no name is owned and no switch exists.
LEMMA InitRefines == Init => Lifecycle!Init
<1>. SUFFICES ASSUME Init PROVE Lifecycle!Init
  OBVIOUS
<1>1. \A k \in Keys : ~api[k].live
  BY DEF Init, Tombstone
<1>2. Owners = [n \in Names |-> {}]
  BY <1>1 DEF Owners
<1>. QED
  BY <1>2 DEF Init, Lifecycle!Init

\* createNetwork, deleteNetwork and reconcileFinalizers together: for any number of
\* Networks, also of one name, and under any stale copies, failures and restarts, the
\* controller goes through the life of a switch in its order: claim, build, connect,
\* disconnect, remove, release.
THEOREM ImplementsLifecycleHolds == Spec => ImplementsLifecycle
<1>. QED
  BY Invariance, InitRefines, StepRefines, PTL
  DEF Spec, ImplementsLifecycle, Lifecycle!Spec, LifecycleStep
=============================================================================

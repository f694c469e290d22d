------------------------- MODULE ProviderLifecycle -------------------------
(***************************************************************************)
(* What the ProviderNetwork controller, the notification server and the    *)
(* nfn-agents promise together, without API server, informer, streams,     *)
(* restarts or retries.  The switch of a provider network is built only    *)
(* while the network holds its finalizer; it is demolished, and nodes are  *)
(* told to take the network down, only when the network is being deleted   *)
(* or holds none (a deletion may be repeated from a stale copy).  What a   *)
(* node is told to set up is what was declared when the order was given; a *)
(* node in sync sets up what it was ordered to, and takes down what it was *)
(* told to.  ProviderNetwork implements it.                                *)
(***************************************************************************)
CONSTANTS Pns, Nodes, Specs, None

VARIABLES
  declared,   \* per provider network: its spec, or None
  owned,      \* networks that hold their finalizer
  dying,      \* networks that are being deleted
  switch,     \* networks that have a logical switch
  ports,      \* networks whose switch has its localnet port
  orders,     \* orders to set up a network, on their way: <<network, spec>>
  removals,   \* networks that some node is still to take down
  synced,     \* nodes whose agent is in sync
  bridge      \* per node and network: the spec of its bridge, or None

objectVars == <<declared, owned, dying>>
ovnVars    == <<switch, ports>>
orderVars  == <<orders, removals>>
nodeVars   == <<synced, bridge>>
vars == <<objectVars, ovnVars, orderVars, nodeVars>>

Init ==
  /\ declared = [k \in Pns |-> None] /\ owned = {} /\ dying = {}
  /\ switch = {} /\ ports = {}
  /\ orders = {} /\ removals = {}
  /\ synced = {} /\ bridge = [n \in Nodes |-> [k \in Pns |-> None]]

(***************************************************************************)
(* The object.                                                             *)
(***************************************************************************)
Declare(k, s) ==
  /\ declared[k] = None
  /\ declared' = [declared EXCEPT ![k] = s]
  /\ UNCHANGED <<owned, dying, ovnVars, orderVars, nodeVars>>

Claim(k) ==
  /\ declared[k] # None /\ k \notin dying
  /\ owned' = owned \cup {k}
  /\ UNCHANGED <<declared, dying, ovnVars, orderVars, nodeVars>>

\* A deletion waits for the finalizer.
Condemn(k) ==
  /\ k \in owned
  /\ dying' = dying \cup {k}
  /\ UNCHANGED <<declared, owned, ovnVars, orderVars, nodeVars>>

Discard(k) ==
  /\ k \notin owned
  /\ declared' = [declared EXCEPT ![k] = None]
  /\ UNCHANGED <<owned, dying, ovnVars, orderVars, nodeVars>>

Release(k) ==
  /\ k \in owned \cap dying
  /\ declared' = [declared EXCEPT ![k] = None]
  /\ owned' = owned \ {k} /\ dying' = dying \ {k}
  /\ UNCHANGED <<ovnVars, orderVars, nodeVars>>

(***************************************************************************)
(* Its switch: the localnet port comes with the switch or never.           *)
(***************************************************************************)
Build(k) ==
  /\ k \in owned /\ k \notin switch
  /\ switch' = switch \cup {k} /\ ports' \in {ports, ports \cup {k}}
  /\ UNCHANGED <<objectVars, orderVars, nodeVars>>

Demolish(k) ==
  /\ k \in owned => k \in dying
  /\ switch' = switch \ {k} /\ ports' = ports \ {k}
  /\ UNCHANGED <<objectVars, orderVars, nodeVars>>

(***************************************************************************)
(* Orders.  Any of them may get lost.                                      *)
(***************************************************************************)
Offers == {<<k, declared[k]>> : k \in {j \in Pns : declared[j] # None}}

Order ==
  /\ UNCHANGED <<objectVars, ovnVars, removals, nodeVars>>
  /\ orders' \subseteq orders \cup Offers

Withdraw(k) ==
  /\ k \in owned => k \in dying
  /\ removals' = removals \cup {k}
  /\ UNCHANGED <<objectVars, ovnVars, orders, nodeVars>>

Lose ==
  /\ UNCHANGED <<objectVars, ovnVars, bridge>>
  /\ orders' \subseteq orders /\ removals' \subseteq removals /\ synced' \subseteq synced

(***************************************************************************)
(* The nodes.                                                              *)
(***************************************************************************)
\* An agent that comes in sync takes down what it has no use for.
Sync(n) ==
  /\ n \notin synced /\ synced' = synced \cup {n}
  /\ \E K \in SUBSET Pns :
       bridge' = [bridge EXCEPT ![n] = [k \in Pns |-> IF k \in K THEN @[k] ELSE None]]
  /\ orders' \subseteq orders
  /\ UNCHANGED <<objectVars, ovnVars, removals>>

SetUp(n, k, s) ==
  /\ n \in synced /\ <<k, s>> \in orders
  /\ bridge' = [bridge EXCEPT ![n][k] = s]
  /\ orders' \subseteq orders
  /\ UNCHANGED <<objectVars, ovnVars, removals, synced>>

TearDown(n, k) ==
  /\ n \in synced /\ k \in removals
  /\ bridge' = [bridge EXCEPT ![n][k] = None]
  /\ removals' \subseteq removals
  /\ UNCHANGED <<objectVars, ovnVars, orders, synced>>

Next ==
  \/ Lose \/ Order
  \/ \E k \in Pns :
       \/ \E s \in Specs : Declare(k, s)
       \/ Claim(k) \/ Condemn(k) \/ Discard(k) \/ Release(k)
       \/ Build(k) \/ Demolish(k) \/ Withdraw(k)
  \/ \E n \in Nodes :
       \/ Sync(n)
       \/ \E o \in orders : SetUp(n, o[1], o[2])
       \/ \E k \in removals : TearDown(n, k)

Spec == Init /\ [][Next]_vars
=============================================================================

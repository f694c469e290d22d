----------------------- MODULE ChainControllerProofs -----------------------
(***************************************************************************)
(* Safety of ChainController for every set of chains, deployments and      *)
(* networks and every bound.                                               *)
(***************************************************************************)
EXTENDS ChainController, SequenceTheorems, WellFoundedInduction, TLAPS

\* The worker has room in chainRoutingInfo for the deployments that are left, and
\* starts to send at the first entry.
PlaceInv ==
  /\ pc \in {"idle", "addFinalizer", "calculate"} => sent = 0
  /\ pc = "addFinalizer" => pos = 1 /\ Len(info) + Len(deps) <= MaxInfo
  /\ pc = "calculate" => Len(info) + Len(deps) < MaxInfo + pos

\* Until the host's network is routed, the default route is the pod's own.
HostInv(d) ==
  /\ rt[d]["host"] \in {NoVal, "podGW"}
  /\ rt[d]["host"] = NoVal /\ pods[d].phase = "running" => rt[d]["default"] = "podGW"

IInv == TypeOK /\ PlaceInv /\ \A d \in Deps : HostInv(d)

\* Deployment d is the p-th one of chain k.
At(d, k, p) == k \in Chains /\ p \in 1..Len(DepsOf[k]) /\ d = DepsOf[k][p]

\* The destinations that a pod at position p of chain k is given a route to, to its
\* left and to its right.
Leftward(k, p, x)  == x = "left" \/ \E i \in 1..Len(NetsOf[k]) : i < p - 1 /\ x = NetsOf[k][i]
Rightward(k, p, x) == x = "right" \/ \E i \in 1..Len(NetsOf[k]) : i > p /\ x = NetsOf[k][i]

\* Gateway g is on the left, on the right of position p of chain k.
OnLeft(k, p, g)  == g \in PodIds => p > 1 /\ g[1] = DepsOf[k][p - 1]
OnRight(k, p, g) == g \in PodIds => p < Len(DepsOf[k]) /\ g[1] = DepsOf[k][p + 1]

\* The routes of a deployment for next hops l and r.
ChainRoutes(k, p, l, r) ==
  <<[dst |-> "left", gw |-> l], [dst |-> "right", gw |-> r]>>
    \o (RoutesTo(SubSeq(NetsOf[k], 1, p - 2), l)
          \o RoutesTo(SubSeq(NetsOf[k], p + 1, Len(NetsOf[k])), r)
          \o <<[dst |-> "default", gw |-> r]>>)

\* A message carries the routes of a deployment's place.
Placed(m) ==
  /\ Len(m.routes) > 2
  /\ \E k \in Chains : \E p \in 1..Len(DepsOf[k]) :
       LET l == m.routes[1].gw
           r == m.routes[2].gw
       IN  /\ At(m.pod[1], k, p) /\ OnLeft(k, p, l) /\ OnRight(k, p, r)
           /\ m.routes = ChainRoutes(k, p, l, r)

AllPlaced(s) == \A i \in 1..Len(s) : Placed(s[i])

MessageInv == AllPlaced(info) /\ \A n \in Nodes : AllPlaced(chan[n])

\* Route table t is one a pod at position p of chain k may have: its entries point to
\* their sides, and the default route to a pod comes when all others are there.
Pointed(t, k, p) ==
  /\ \A x \in Dsts : t[x] \in PodIds =>
       \/ Leftward(k, p, x) /\ OnLeft(k, p, t[x])
       \/ (Rightward(k, p, x) \/ x = "default") /\ OnRight(k, p, t[x])
  /\ t["default"] \in PodIds =>
       \A x \in Dsts : Leftward(k, p, x) \/ Rightward(k, p, x) => t[x] # NoVal

RouteInv(d) ==
  /\ \A k \in Chains : \A p \in 1..Len(DepsOf[k]) : At(d, k, p) => Pointed(rt[d], k, p)
  /\ (\A k \in Chains : \A p \in 1..Len(DepsOf[k]) : ~At(d, k, p))
       => \A x \in Dsts : rt[d][x] \notin PodIds

LoopInv == MessageInv /\ \A d \in Deps : RouteInv(d)

(***************************************************************************)
(* What the constants and the operators give.                              *)
(***************************************************************************)

\* Route tables of a container.
Tables == [Dsts -> Gateways \cup {NoVal}]

\* A non-empty set of natural numbers has a least one.
LEMMA Least ==
  ASSUME NEW T \in SUBSET Nat, T # {}
  PROVE  \E x \in T : \A y \in T : x <= y
<1>. DEFINE R == {ss \in Nat \X Nat : ss[1] < ss[2]}
<1>1. IsWellFoundedOn(R, Nat)
  BY NatLessThanWellFounded DEF OpToRel
<1>2. \A x, y \in Nat : y < x => <<y, x>> \in R
  OBVIOUS
<1>3. PICK x \in T : \A y \in T : ~(<<y, x>> \in R)
  <2>. HIDE DEF R
  <2>. QED
    BY <1>1, WFMin
<1>4. ASSUME NEW y \in T PROVE x <= y
  <2>1. x \in Nat /\ y \in Nat /\ ~(<<y, x>> \in R)
    BY <1>3
  <2>2. ~(y < x)
    <3>. HIDE DEF R
    <3>. QED
      BY <1>2, <2>1
  <2>. QED
    BY <2>1, <2>2
<1>. QED
  BY <1>4

\* No gateway is NoVal, and only a pod is in PodIds.
LEMMA GatewayFacts ==
  /\ NoVal \notin Gateways /\ {"left", "right", "podGW"} \cap PodIds = {}
  /\ {"left", "right", "podGW"} \subseteq Gateways /\ PodIds \subseteq Gateways
  /\ {"left", "right", "default", "host"} \subseteq Dsts /\ Nets \subseteq Dsts \ {"host"}
BY ConstantsAssumption DEF Gateways, PodIds, Dsts

\* One "ip route" command: what is there stays, but for the default route, and the
\* destination is routed.
LEMMA AddRouteFacts ==
  ASSUME NEW t \in Tables, NEW r, r.dst \in Dsts, r.gw \in Gateways \cup {NoVal}
  PROVE  /\ AddRoute(t, r) \in Tables
         /\ \A x \in Dsts : AddRoute(t, r)[x] # t[x] => x = r.dst
         /\ AddRoute(t, r)[r.dst] \in {t[r.dst], r.gw}
         /\ r.dst = "default" => AddRoute(t, r)[r.dst] = r.gw
         /\ r.dst # "default" =>
              AddRoute(t, r)[r.dst] = IF t[r.dst] = NoVal THEN r.gw ELSE t[r.dst]
BY DEF AddRoute, Tables

\* f lists the tables that ContainerAddRoute goes through.
Fold(t, rs, f) ==
  /\ f \in [0..Len(rs) -> Tables]
  /\ f[0] = AddRoute(t, [dst |-> "host", gw |-> t["default"]])
  /\ \A i \in 1..Len(rs) : f[i] = AddRoute(f[i - 1], rs[i])

\* Such a list exists, and ContainerAddRoute gives its last one.
LEMMA FoldExists ==
  ASSUME NEW t \in Tables, NEW rs \in Seq(Routes)
  PROVE  \E f : Fold(t, rs, f) /\ ContainerAddRoute(t, rs) = f[Len(rs)]
<1>. DEFINE t0 == AddRoute(t, [dst |-> "host", gw |-> t["default"]])
            Upto(n, g) == /\ g \in [0..n -> Tables] /\ g[0] = t0
                          /\ \A i \in 1..n : g[i] = AddRoute(g[i - 1], rs[i])
            T == {n \in 0..Len(rs) : ~\E g : Upto(n, g)}
<1>0. Len(rs) \in Nat
  OBVIOUS
<1>1. t0 \in Tables
  <2>1. t["default"] \in Gateways \cup {NoVal} /\ "host" \in Dsts
    BY GatewayFacts DEF Tables
  <2>. QED
    BY <2>1, AddRouteFacts
<1>2. ASSUME NEW n \in T, \A m \in T : n <= m PROVE FALSE
  <2>1. n # 0
    <3>1. Upto(0, [i \in 0..0 |-> t0])
      BY <1>1
    <3>. QED
      BY <3>1
  <2>2. n - 1 \in 0..Len(rs) /\ n \in 1..Len(rs) /\ ~(n <= n - 1)
    BY <1>0, <2>1
  <2>9. n - 1 \notin T
    BY <1>2, <2>2
  <2>3. PICK g : Upto(n - 1, g)
    BY <2>2, <2>9
  <2>. DEFINE h == [i \in 0..n |-> IF i = n THEN AddRoute(g[n - 1], rs[n]) ELSE g[i]]
  <2>4. AddRoute(g[n - 1], rs[n]) \in Tables
    <3>1. rs[n] \in Routes /\ g[n - 1] \in Tables
      BY <2>2, <2>3
    <3>2. rs[n].dst \in Dsts /\ rs[n].gw \in Gateways
      BY <3>1 DEF Routes
    <3>. QED
      BY <3>1, <3>2, AddRouteFacts
  <2>5. h \in [0..n -> Tables]
    BY <2>2, <2>3, <2>4
  <2>6. h[0] = t0
    BY <2>2, <2>3
  <2>7. ASSUME NEW i \in 1..n PROVE h[i] = AddRoute(h[i - 1], rs[i])
    BY <2>2, <2>3
  <2>8. Upto(n, h)
    BY <2>5, <2>6, <2>7
  <2>. QED
    BY <2>8
<1>3. T = {}
  <2>1. T \in SUBSET Nat
    BY <1>0
  <2>. HIDE DEF T
  <2>. QED
    BY <1>2, <2>1, Least
<1>4. PICK g : Upto(Len(rs), g)
  BY <1>0, <1>3
<1>. DEFINE body(f) == [i \in 0..Len(rs) |-> IF i = 0 THEN t0 ELSE AddRoute(f[i - 1], rs[i])]
            c == CHOOSE f : f = body(f)
<1>5. g = body(g)
  BY <1>0, <1>4
<1>6. c = body(c)
  <2>. HIDE DEF body
  <2>. QED
    BY <1>5
<1>7. ContainerAddRoute(t, rs) = c[Len(rs)]
  BY DEF ContainerAddRoute
<1>. DEFINE D == {i \in 0..Len(rs) : c[i] \notin Tables}
<1>8. c[0] = t0 /\ \A i \in 1..Len(rs) : c[i] = AddRoute(c[i - 1], rs[i])
  <2>. HIDE DEF c, t0
  <2>. QED
    BY <1>0, <1>6
<1>. HIDE DEF c
<1>9. ASSUME NEW i \in D, \A j \in D : i <= j PROVE FALSE
  <2>1. i # 0 /\ i \in 0..Len(rs) /\ c[i] \notin Tables
    BY <1>1, <1>8
  <2>2. i \in 1..Len(rs) /\ i - 1 \in 0..Len(rs) /\ ~(i <= i - 1)
    BY <1>0, <2>1
  <2>3. c[i - 1] \in Tables
    BY <1>9, <2>2
  <2>4. rs[i].dst \in Dsts /\ rs[i].gw \in Gateways
    <3>1. rs[i] \in Routes
      BY <2>2
    <3>. QED
      BY <3>1 DEF Routes
  <2>5. AddRoute(c[i - 1], rs[i]) \in Tables
    BY <2>3, <2>4, AddRouteFacts
  <2>. QED
    BY <1>8, <2>1, <2>2, <2>5
<1>10. D = {}
  <2>1. D \in SUBSET Nat
    BY <1>0
  <2>. HIDE DEF D
  <2>. QED
    BY <1>9, <2>1, Least
<1>11. c \in [0..Len(rs) -> Tables]
  <2>1. \A i \in 0..Len(rs) : c[i] \in Tables
    BY <1>10
  <2>. QED
    BY <1>6, <2>1
<1>. QED
  BY <1>7, <1>8, <1>11 DEF Fold

\* Table u is t after the first i routes of rs: what changed is one of those routes
\* or the host's, nothing is lost, each of the routes' destinations is routed, and the
\* host's network goes through the first default route.
Changed(t, rs, i, u) ==
  \A x \in Dsts : \/ u[x] = t[x]
                  \/ x = "host" /\ u[x] = t["default"]
                  \/ \E j \in 1..i : rs[j].dst = x /\ rs[j].gw = u[x]
Covered(t, rs, i, u) ==
  /\ \A x \in Dsts : t[x] # NoVal => u[x] # NoVal
  /\ \A j \in 1..i : u[rs[j].dst] # NoVal
  /\ u["host"] = IF t["host"] = NoVal THEN t["default"] ELSE t["host"]

\* One more route.
LEMMA OneMoreRoute ==
  ASSUME NEW t \in Tables, NEW rs \in Seq(Routes), NEW i \in 1..Len(rs), NEW u \in Tables,
         Changed(t, rs, i - 1, u), Covered(t, rs, i - 1, u)
  PROVE  Changed(t, rs, i, AddRoute(u, rs[i])) /\ Covered(t, rs, i, AddRoute(u, rs[i]))
<1>. DEFINE v == AddRoute(u, rs[i])
<1>1. rs[i].dst \in Dsts \ {"host"} /\ rs[i].gw \in Gateways /\ rs[i].gw # NoVal
  <2>1. rs[i] \in Routes
    OBVIOUS
  <2>. QED
    BY <2>1, GatewayFacts DEF Routes
<1>2. /\ \A x \in Dsts : v[x] # u[x] => x = rs[i].dst
      /\ v[rs[i].dst] \in {u[rs[i].dst], rs[i].gw}
      /\ v[rs[i].dst] # NoVal
  <2>1. v[rs[i].dst] # NoVal
    BY <1>1, AddRouteFacts
  <2>. QED
    BY <1>1, <2>1, AddRouteFacts
<1>3. i \in 1..i /\ 1..i = (1..(i - 1)) \cup {i}
  OBVIOUS
<1>. HIDE DEF v
<1>4. Changed(t, rs, i, v)
  <2>. SUFFICES ASSUME NEW x \in Dsts
                PROVE  \/ v[x] = t[x]
                       \/ x = "host" /\ v[x] = t["default"]
                       \/ \E j \in 1..i : rs[j].dst = x /\ rs[j].gw = v[x]
    BY DEF Changed
  <2>1. CASE v[x] = u[x]
    <3>1. \A j \in 1..(i - 1) : j \in 1..i
      OBVIOUS
    <3>2. \/ u[x] = t[x]
          \/ x = "host" /\ u[x] = t["default"]
          \/ \E j \in 1..(i - 1) : rs[j].dst = x /\ rs[j].gw = u[x]
      BY DEF Changed
    <3>. QED
      BY <2>1, <3>1, <3>2
  <2>2. CASE v[x] # u[x]
    BY <1>2, <1>3, <2>2
  <2>. QED
    BY <2>1, <2>2
<1>5. \A x \in Dsts : u[x] # NoVal => v[x] # NoVal
  BY <1>2
<1>6. ASSUME NEW j \in 1..i PROVE v[rs[j].dst] # NoVal
  <2>1. CASE j = i
    BY <1>2, <2>1
  <2>2. CASE j # i
    <3>1. j \in 1..(i - 1) /\ j \in 1..Len(rs)
      BY <2>2
    <3>2. rs[j] \in Routes
      BY <3>1
    <3>. QED
      BY <1>5, <3>1, <3>2 DEF Covered, Routes
  <2>. QED
    BY <2>1, <2>2
<1>7. v["host"] = u["host"]
  BY <1>1, <1>2, GatewayFacts
<1>8. Covered(t, rs, i, v)
  BY <1>5, <1>6, <1>7 DEF Covered
<1>. QED
  BY <1>4, <1>8 DEF v

\* ContainerAddRoute: what it does to a table.
LEMMA ContainerRoutes ==
  ASSUME NEW t \in Tables, NEW rs \in Seq(Routes)
  PROVE  LET u == ContainerAddRoute(t, rs)
         IN  u \in Tables /\ Changed(t, rs, Len(rs), u) /\ Covered(t, rs, Len(rs), u)
<1>. DEFINE Ok(i, u) == Changed(t, rs, i, u) /\ Covered(t, rs, i, u)
<1>0. Len(rs) \in Nat
  OBVIOUS
<1>1. PICK f : Fold(t, rs, f) /\ ContainerAddRoute(t, rs) = f[Len(rs)]
  BY FoldExists
<1>2. f \in [0..Len(rs) -> Tables]
  BY <1>1 DEF Fold
<1>3. Ok(0, f[0])
  <2>. DEFINE r == [dst |-> "host", gw |-> t["default"]]
  <2>1. r.dst = "host" /\ r.gw = t["default"] /\ f[0] = AddRoute(t, r)
    BY <1>1 DEF Fold
  <2>. HIDE DEF r
  <2>2. "host" \in Dsts /\ t["default"] \in Gateways \cup {NoVal}
    BY GatewayFacts DEF Tables
  <2>3. /\ \A x \in Dsts : f[0][x] # t[x] => x = "host"
        /\ f[0]["host"] = IF t["host"] = NoVal THEN t["default"] ELSE t["host"]
    BY <2>1, <2>2, AddRouteFacts
  <2>4. Changed(t, rs, 0, f[0])
    BY <2>3 DEF Changed
  <2>5. \A j \in 1..0 : FALSE
    OBVIOUS
  <2>6. \A x \in Dsts : t[x] # NoVal => f[0][x] # NoVal
    BY <2>3
  <2>7. Covered(t, rs, 0, f[0])
    BY <2>3, <2>5, <2>6 DEF Covered
  <2>. QED
    BY <2>4, <2>7
<1>4. ASSUME NEW i \in 1..Len(rs), Ok(i - 1, f[i - 1]) PROVE Ok(i, f[i])
  <2>1. i - 1 \in 0..Len(rs)
    BY <1>0
  <2>2. f[i - 1] \in Tables /\ f[i] = AddRoute(f[i - 1], rs[i])
    BY <1>1, <1>2, <2>1 DEF Fold
  <2>. QED
    BY <1>4, <2>2, OneMoreRoute
<1>. HIDE DEF Ok
<1>. DEFINE D == {i \in 0..Len(rs) : ~Ok(i, f[i])}
<1>5. ASSUME NEW i \in D, \A j \in D : i <= j PROVE FALSE
  <2>1. i \in 0..Len(rs) /\ i # 0
    BY <1>3
  <2>2. i \in 1..Len(rs) /\ i - 1 \in 0..Len(rs) /\ ~(i <= i - 1)
    BY <1>0, <2>1
  <2>3. Ok(i - 1, f[i - 1])
    BY <1>5, <2>2
  <2>. QED
    BY <1>4, <2>2, <2>3
<1>6. D = {}
  <2>1. D \in SUBSET Nat
    BY <1>0
  <2>. HIDE DEF D
  <2>. QED
    BY <1>5, <2>1, Least
<1>7. Len(rs) \in 0..Len(rs)
  BY <1>0
<1>8. Ok(Len(rs), f[Len(rs)]) /\ f[Len(rs)] \in Tables
  BY <1>2, <1>6, <1>7
<1>. QED
  BY <1>1, <1>8 DEF Ok

(***************************************************************************)
(* The inductive invariant, in the parts that the actions change.          *)
(***************************************************************************)
KubeInv ==
  /\ api \in [Chains -> Objects] /\ cache \in [Chains -> Objects]
  /\ pending \in [Chains -> SUBSET Objects] /\ queue \subseteq Chains
WorkerInv ==
  /\ pc \in Pcs /\ req \in Chains \cup {NoVal} /\ (pc # "idle" => req \in Chains)
  /\ cr \in Objects /\ pos \in Nat /\ sent \in Nat
  /\ pc = "calculate" => pos \in 1..Len(deps)
  /\ pc = "send" => sent < Len(info)
  /\ info \in Seq(Infos) /\ Len(info) <= MaxInfo
  /\ PlaceInv
PodInv ==
  /\ pods \in [Deps -> [phase: Phases, inc: Nat]] /\ rt \in [Deps -> Tables]
  /\ \A d \in Deps : HostInv(d)
NetInv ==
  /\ clients \in [Nodes -> {"none", "live", "dead"}]
  /\ chan \in [Nodes -> Seq(Infos)] /\ \A n \in Nodes : Len(chan[n]) <= MaxChan
  /\ missed \subseteq PodIds
CountInv == faults \in Nat /\ ops \in Nat

\* These are all of it.
LEMMA Parts == IInv <=> KubeInv /\ WorkerInv /\ PodInv /\ NetInv /\ CountInv
BY DEF IInv, TypeOK, KubeInv, WorkerInv, PodInv, NetInv, CountInv, Tables

\* In the next state too.
LEMMA PartsNext == KubeInv' /\ WorkerInv' /\ PodInv' /\ NetInv' /\ CountInv' => IInv'
BY DEF IInv, TypeOK, KubeInv, WorkerInv, PodInv, NetInv, CountInv, Tables

\* What a part speaks of is unchanged, and so is the part.
LEMMA Frame ==
  /\ KubeInv /\ UNCHANGED <<kubeVars, queue>> => KubeInv'
  /\ WorkerInv /\ UNCHANGED <<workerVars, info>> => WorkerInv'
  /\ PodInv /\ UNCHANGED podVars => PodInv'
  /\ NetInv /\ UNCHANGED <<netVars, missed>> => NetInv'
  /\ CountInv /\ UNCHANGED <<faults, ops>> => CountInv'
<1>1. KubeInv /\ UNCHANGED <<kubeVars, queue>> => KubeInv'
  BY DEF KubeInv, kubeVars
<1>2. WorkerInv /\ UNCHANGED <<workerVars, info>> => WorkerInv'
  BY DEF WorkerInv, workerVars, PlaceInv, deps
<1>3. PodInv /\ UNCHANGED podVars => PodInv'
  BY DEF PodInv, podVars, HostInv
<1>4. NetInv /\ UNCHANGED <<netVars, missed>> => NetInv'
  BY DEF NetInv, netVars
<1>5. CountInv /\ UNCHANGED <<faults, ops>> => CountInv'
  BY DEF CountInv
<1>. QED
  BY <1>1, <1>2, <1>3, <1>4, <1>5

\* The initial states.
LEMMA InitInv == Init => IInv
<1>. SUFFICES ASSUME Init PROVE IInv
  OBVIOUS
<1>0. Tombstone(0) \in Objects
  BY DEF Tombstone, Objects, States
<1>1. KubeInv
  BY <1>0 DEF Init, KubeInv
<1>2. WorkerInv
  BY <1>0, ConstantsAssumption DEF Init, WorkerInv, PlaceInv, Pcs
<1>3. PodInv
  <2>1. NoRoutes \in Tables /\ \A x \in Dsts : NoRoutes[x] = NoVal
    BY DEF NoRoutes, Tables
  <2>2. \A d \in Deps : HostInv(d)
    BY <2>1, GatewayFacts DEF Init, HostInv
  <2>. QED
    BY <2>1, <2>2 DEF Init, PodInv, Phases
<1>4. NetInv
  BY ConstantsAssumption DEF Init, NetInv
<1>5. CountInv
  BY DEF Init, CountInv
<1>. QED
  BY <1>1, <1>2, <1>3, <1>4, <1>5, Parts

\* Counters.
LEMMA CountStep ==
  /\ CountInv /\ (NoFault \/ Fault) /\ UNCHANGED ops => CountInv'
  /\ CountInv /\ ops' = ops + 1 /\ UNCHANGED faults => CountInv'
BY DEF CountInv, Fault, NoFault

\* Versions of an object.
LEMMA TombstoneType == ASSUME NEW rv \in Nat PROVE Tombstone(rv) \in Objects
BY DEF Tombstone, Objects, States

\* The fields that the worker changes.
LEMMA ObjectType ==
  ASSUME NEW o \in Objects
  PROVE  /\ o.rv \in Nat /\ o.rv + 1 \in Nat
         /\ \A r \in Nat : [o EXCEPT !.rv = r] \in Objects
         /\ \A f \in BOOLEAN : [o EXCEPT !.fin = f] \in Objects
         /\ \A s \in States : [o EXCEPT !.state = s] \in Objects
<1>1. o.rv \in Nat
  BY DEF Objects
<1>2. o.rv + 1 \in Nat
  BY <1>1
<1>3. \A r \in Nat : [o EXCEPT !.rv = r] \in Objects
  BY DEF Objects
<1>4. \A f \in BOOLEAN : [o EXCEPT !.fin = f] \in Objects
  BY DEF Objects
<1>5. \A s \in States : [o EXCEPT !.state = s] \in Objects
  BY DEF Objects
<1>. QED
  BY <1>1, <1>2, <1>3, <1>4, <1>5

\* Writes to the API server.
LEMMA StoreInv ==
  ASSUME KubeInv, NEW k \in Chains, NEW o \in Objects, Store(k, o)
  PROVE  api' \in [Chains -> Objects] /\ pending' \in [Chains -> SUBSET Objects]
BY DEF KubeInv, Store

\* A write of the worker, whatever becomes of it.
LEMMA ApiCallInv ==
  ASSUME KubeInv, req \in Chains, NEW o \in Objects, ApiCall(o, TRUE, TRUE)
  PROVE  /\ api' \in [Chains -> Objects] /\ pending' \in [Chains -> SUBSET Objects]
         /\ NoFault \/ Fault
<1>1. CASE UNCHANGED <<api, pending>>
  BY <1>1 DEF KubeInv, ApiCall
<1>2. CASE Store(req, Accepted(o))
  <2>1. Accepted(o) \in Objects
    BY ObjectType, TombstoneType DEF Accepted
  <2>. QED
    BY <1>2, <2>1, StoreInv DEF ApiCall
<1>. QED
  BY <1>1, <1>2 DEF ApiCall, Write

\* The worker's requests end.
LEMMA FinishInv ==
  ASSUME WorkerInv, Finish, info' \in Seq(Infos), Len(info') <= MaxInfo
  PROVE  WorkerInv'
<1>1. Tombstone(0) \in Objects
  BY DEF Tombstone, Objects, States
<1>. QED
  BY <1>1 DEF WorkerInv, Finish, PlaceInv, Pcs

(***************************************************************************)
(* One lemma per action.                                                   *)
(***************************************************************************)
\* Users.
LEMMA UserInv ==
  ASSUME IInv, NEW k \in Chains, UserCreate(k) \/ UserEdit(k) \/ UserDelete(k)
  PROVE  IInv'
<1>1. KubeInv /\ WorkerInv /\ PodInv /\ NetInv /\ CountInv
  BY Parts
<1>2. api[k] \in Objects
  BY <1>1 DEF KubeInv
<1>3. PICK o \in Objects : UserStep(k, o)
  <2>0. api[k].rv + 1 \in Nat
    BY <1>2, ObjectType
  <2>1. CASE UserCreate(k)
    <3>1. ASSUME NEW r \in Nat
          PROVE  [live |-> TRUE, rv |-> r, del |-> FALSE, fin |-> FALSE,
                  routing |-> TRUE, state |-> ""] \in Objects
      BY DEF Objects, States
    <3>. QED
      BY <2>0, <2>1, <3>1 DEF UserCreate
  <2>2. CASE UserEdit(k)
    <3>1. (~api[k].routing) \in BOOLEAN
      BY <1>2 DEF Objects
    <3>2. ASSUME NEW r \in Nat, NEW b \in BOOLEAN
          PROVE  [api[k] EXCEPT !.rv = r, !.routing = b] \in Objects
      BY <1>2 DEF Objects
    <3>3. UserStep(k, [api[k] EXCEPT !.rv = api[k].rv + 1, !.routing = ~api[k].routing])
      BY <2>2 DEF UserEdit
    <3>4. [api[k] EXCEPT !.rv = api[k].rv + 1, !.routing = ~api[k].routing] \in Objects
      BY <2>0, <3>1, <3>2
    <3>. QED
      BY <3>3, <3>4
  <2>3. CASE UserDelete(k)
    <3>1. ASSUME NEW r \in Nat PROVE [api[k] EXCEPT !.rv = r, !.del = TRUE] \in Objects
      BY <1>2 DEF Objects
    <3>. QED
      BY <2>0, <2>3, <3>1, TombstoneType DEF UserDelete
  <2>. QED
    BY <2>1, <2>2, <2>3
<1>4. KubeInv'
  BY <1>1, <1>3, StoreInv DEF UserStep, KubeInv
<1>5. WorkerInv' /\ PodInv' /\ NetInv'
  BY <1>1, <1>3, Frame DEF UserStep
<1>6. CountInv'
  BY <1>1, <1>3, CountStep DEF UserStep
<1>. QED
  BY <1>4, <1>5, <1>6, PartsNext

\* The informer.
LEMMA DeliverInv == ASSUME IInv, NEW k \in Chains, Deliver(k) PROVE IInv'
<1>1. KubeInv /\ WorkerInv /\ PodInv /\ NetInv /\ CountInv
  BY Parts
<1>2. KubeInv'
  <2>1. PICK v \in pending[k] : /\ cache' = [cache EXCEPT ![k] = v]
                                /\ pending' = [pending EXCEPT ![k] = @ \ {v}]
    BY DEF Deliver
  <2>. QED
    BY <1>1, <2>1 DEF Deliver, KubeInv
<1>3. WorkerInv' /\ PodInv' /\ NetInv' /\ CountInv'
  BY <1>1, Frame DEF Deliver
<1>. QED
  BY <1>2, <1>3, PartsNext

\* The periodic resync puts known chains into the queue again.
LEMMA ResyncInv == ASSUME IInv, NEW k \in Chains, Resync(k) PROVE IInv'
<1>1. KubeInv /\ WorkerInv /\ PodInv /\ NetInv /\ CountInv
  BY Parts
<1>2. KubeInv'
  BY <1>1 DEF Resync, kubeVars, KubeInv
<1>3. WorkerInv' /\ PodInv' /\ NetInv' /\ CountInv'
  BY <1>1, Frame DEF Resync
<1>. QED
  BY <1>2, <1>3, PartsNext

\* Reconcile starts a request only when there is room for its routes.
LEMMA ReconcileInv == ASSUME IInv, NEW k \in Chains, Reconcile(k) PROVE IInv'
<1>1. KubeInv /\ WorkerInv /\ PodInv /\ NetInv /\ CountInv
  BY Parts
<1>2. KubeInv'
  BY <1>1 DEF Reconcile, kubeVars, KubeInv
<1>3. WorkerInv'
  <2>0. Len(DepsOf[k]) \in Nat /\ Len(DepsOf[k]) > 0 /\ Len(info) \in Nat /\ cache[k] \in Objects
    BY <1>1, ConstantsAssumption DEF WorkerInv, KubeInv
  <2>1. CASE UNCHANGED workerVars
    BY <1>1, <2>1, Frame DEF Reconcile
  <2>2. ASSUME pc' \in {"removeFinalizer", "addFinalizer", "calculate"}, pc = "idle",
               req' = k, cr' = cache[k], pos' = 1, UNCHANGED <<sent, info>>,
               pc' # "removeFinalizer" => Room(k)
        PROVE  WorkerInv'
    <3>1. deps' = DepsOf[k] /\ sent' = 0 /\ info' = info /\ pc' \in Pcs
      BY <1>1, <2>2 DEF WorkerInv, PlaceInv, deps, Pcs
    <3>2. /\ 1 \in 1..Len(DepsOf[k])
          /\ Room(k) => Len(info) + Len(DepsOf[k]) <= MaxInfo
          /\ Room(k) => Len(info) + Len(DepsOf[k]) < MaxInfo + 1
      BY <2>0, ConstantsAssumption DEF Room
    <3>. QED
      BY <1>1, <2>0, <2>2, <3>1, <3>2 DEF WorkerInv, PlaceInv
  <2>. QED
    BY <2>1, <2>2 DEF Reconcile
<1>4. PodInv' /\ NetInv' /\ CountInv'
  BY <1>1, Frame DEF Reconcile
<1>. QED
  BY <1>2, <1>3, <1>4, PartsNext

\* The worker's writes.
LEMMA AddFinalizerInv == ASSUME IInv, AddFinalizer PROVE IInv'
<1>1. KubeInv /\ WorkerInv /\ PodInv /\ NetInv /\ CountInv
  BY Parts
<1>2. pc = "addFinalizer" /\ req \in Chains /\ [cr EXCEPT !.fin = TRUE] \in Objects
  BY <1>1, ObjectType DEF AddFinalizer, WorkerInv
<1>3. /\ api' \in [Chains -> Objects] /\ pending' \in [Chains -> SUBSET Objects]
      /\ NoFault \/ Fault
  <2>1. ApiCall([cr EXCEPT !.fin = TRUE], TRUE, TRUE)
    BY DEF AddFinalizer, ApiCall
  <2>. QED
    BY <1>1, <1>2, <2>1, ApiCallInv
<1>4. \/ pc' = "calculate" /\ cr' = api'[req] /\ UNCHANGED <<queue, req, pos, sent>>
      \/ Retry
  BY DEF AddFinalizer, ApiCall
<1>5. KubeInv'
  BY <1>1, <1>2, <1>3, <1>4 DEF AddFinalizer, KubeInv, Retry
<1>6. WorkerInv'
  <2>0. Len(deps) \in Nat /\ Len(deps) > 0 /\ Len(info) \in Nat
    BY <1>1, <1>2, ConstantsAssumption DEF WorkerInv, deps
  <2>1. CASE Retry
    BY <1>1, <2>1, FinishInv DEF AddFinalizer, Retry, WorkerInv
  <2>2. CASE pc' = "calculate" /\ cr' = api'[req] /\ UNCHANGED <<queue, req, pos, sent>>
    <3>1. cr' \in Objects /\ deps' = deps /\ info' = info /\ pos' = 1 /\ sent' = 0
      BY <1>1, <1>2, <1>3, <2>2 DEF deps, AddFinalizer, WorkerInv, PlaceInv
    <3>2. 1 \in 1..Len(deps) /\ Len(info) + Len(deps) < MaxInfo + 1
      BY <1>1, <1>2, <2>0, ConstantsAssumption DEF WorkerInv, PlaceInv
    <3>. QED
      BY <1>1, <1>2, <2>2, <3>1, <3>2 DEF WorkerInv, PlaceInv, Pcs
  <2>. QED
    BY <1>4, <2>1, <2>2
<1>7. PodInv' /\ NetInv' /\ CountInv'
  BY <1>1, <1>3, Frame, CountStep DEF AddFinalizer
<1>. QED
  BY <1>5, <1>6, <1>7, PartsNext

\* The status, and the finalizer that is taken away.
LEMMA StatusInv == ASSUME IInv, UpdateStatus \/ RemoveFinalizer PROVE IInv'
<1>1. KubeInv /\ WorkerInv /\ PodInv /\ NetInv /\ CountInv
  BY Parts
<1>2. PICK o \in Objects : ApiCall(o, Done, Retry)
  BY <1>1, ObjectType DEF UpdateStatus, RemoveFinalizer, WorkerInv
<1>3. req \in Chains /\ Finish /\ queue' \in {queue, queue \cup {req}}
  BY <1>1, <1>2 DEF UpdateStatus, RemoveFinalizer, WorkerInv, ApiCall, Done, Retry
<1>4. /\ api' \in [Chains -> Objects] /\ pending' \in [Chains -> SUBSET Objects]
      /\ NoFault \/ Fault
  <2>1. ApiCall(o, TRUE, TRUE)
    BY <1>2 DEF ApiCall
  <2>. QED
    BY <1>1, <1>3, <2>1, ApiCallInv
<1>5. UNCHANGED <<cache, info, podVars, netVars, missed, ops>>
  BY DEF UpdateStatus, RemoveFinalizer
<1>6. KubeInv'
  BY <1>1, <1>3, <1>4, <1>5 DEF KubeInv
<1>7. WorkerInv'
  BY <1>1, <1>3, <1>5, FinishInv DEF WorkerInv
<1>8. PodInv' /\ NetInv' /\ CountInv'
  BY <1>1, <1>4, <1>5, Frame, CountStep
<1>. QED
  BY <1>6, <1>7, <1>8, PartsNext

(***************************************************************************)
(* The routes of a deployment.                                             *)
(***************************************************************************)
\* Routes to a list of networks.
LEMMA RoutesToFacts ==
  ASSUME NEW ns \in Seq(Nets), NEW g \in Gateways
  PROVE  /\ RoutesTo(ns, g) \in Seq(Routes) /\ Len(RoutesTo(ns, g)) = Len(ns)
         /\ \A i \in 1..Len(ns) : RoutesTo(ns, g)[i] = [dst |-> ns[i], gw |-> g]
<1>1. Len(ns) \in Nat
  OBVIOUS
<1>2. ASSUME NEW i \in 1..Len(ns) PROVE [dst |-> ns[i], gw |-> g] \in Routes
  <2>1. ns[i] \in Dsts \ {"host"}
    BY GatewayFacts
  <2>. QED
    BY <2>1 DEF Routes
<1>. QED
  BY <1>1, <1>2 DEF RoutesTo

\* Route r of a pod at position p of chain k leads to its side, with next hops lg, rg.
Sided(k, p, lg, rg, r) ==
  (Leftward(k, p, r.dst) /\ r.gw = lg) \/ (Rightward(k, p, r.dst) /\ r.gw = rg)

\* All routes but the last, the default route, lead to their sides, and there is one
\* for every destination that is not next to the pod.
ForPlace(k, p, l, r, rs) ==
  /\ rs \in Seq(Routes) /\ Len(rs) > 2
  /\ rs[1] = [dst |-> "left", gw |-> l] /\ rs[2] = [dst |-> "right", gw |-> r]
  /\ rs[Len(rs)] = [dst |-> "default", gw |-> r]
  /\ \A j \in 1..Len(rs) - 1 : Sided(k, p, l, r, rs[j])
  /\ \A x : Leftward(k, p, x) \/ Rightward(k, p, x) => \E j \in 1..Len(rs) : rs[j].dst = x

\* Such are the routes that calculateDeploymentRoutes makes.
LEMMA ChainRoutesFacts ==
  ASSUME NEW k \in Chains, NEW p \in 1..Len(DepsOf[k]), NEW l \in Gateways, NEW r \in Gateways
  PROVE  ForPlace(k, p, l, r, ChainRoutes(k, p, l, r))
<1>. DEFINE N == NetsOf[k]
            A == SubSeq(N, 1, p - 2)
            B == SubSeq(N, p + 1, Len(N))
            H == <<[dst |-> "left", gw |-> l], [dst |-> "right", gw |-> r]>>
            D == <<[dst |-> "default", gw |-> r]>>
            M == RoutesTo(A, l) \o RoutesTo(B, r)
            rs == ChainRoutes(k, p, l, r)
<1>1. /\ N \in Seq(Nets) /\ Len(N) \in Nat /\ Len(DepsOf[k]) \in Nat
      /\ Len(N) \in {Len(DepsOf[k]) - 1, Len(DepsOf[k])}
  BY ConstantsAssumption
<1>2. p \in Nat /\ p - 2 <= Len(N) /\ p - 2 \in Int /\ p + 1 \in Int /\ p >= 1
  BY <1>1
<1>3. /\ A \in Seq(Nets) /\ Len(A) = (IF 1 <= p - 2 THEN p - 2 ELSE 0)
      /\ \A i \in 1..Len(A) : A[i] = N[i] /\ i \in 1..Len(N) /\ i < p - 1
      /\ \A i \in 1..Len(N) : i < p - 1 => i \in 1..Len(A)
  <2>1. \A i \in 1..(p - 2) : N[i] \in Nets
    BY <1>1, <1>2
  <2>. HIDE DEF N
  <2>2. /\ A \in Seq(Nets) /\ Len(A) = (IF 1 <= p - 2 THEN p - 2 - 1 + 1 ELSE 0)
        /\ \A i \in 1..(p - 2 - 1 + 1) : A[i] = N[1 + i - 1]
    BY <1>2, <2>1, SubSeqProperties
  <2>. HIDE DEF A
  <2>. QED
    BY <1>1, <1>2, <2>2
<1>4. /\ B \in Seq(Nets) /\ Len(B) = (IF p + 1 <= Len(N) THEN Len(N) - p ELSE 0)
      /\ \A i \in 1..Len(B) : B[i] = N[p + i] /\ p + i \in 1..Len(N) /\ p + i > p
      /\ \A i \in 1..Len(N) : i > p => i - p \in 1..Len(B) /\ p + (i - p) = i
  <2>1. \A i \in (p + 1)..Len(N) : N[i] \in Nets
    BY <1>1, <1>2
  <2>. HIDE DEF N
  <2>2. /\ B \in Seq(Nets) /\ Len(B) = (IF p + 1 <= Len(N) THEN Len(N) - (p + 1) + 1 ELSE 0)
        /\ \A i \in 1..(Len(N) - (p + 1) + 1) : B[i] = N[p + 1 + i - 1]
    BY <1>1, <1>2, <2>1, SubSeqProperties
  <2>. HIDE DEF B
  <2>. QED
    BY <1>1, <1>2, <2>2
<1>. DEFINE a == Len(A)
            b == Len(B)
<1>5. a \in Nat /\ b \in Nat
  BY <1>3, <1>4
<1>6. /\ RoutesTo(A, l) \in Seq(Routes) /\ Len(RoutesTo(A, l)) = a
      /\ \A i \in 1..a : RoutesTo(A, l)[i] = [dst |-> N[i], gw |-> l]
      /\ RoutesTo(B, r) \in Seq(Routes) /\ Len(RoutesTo(B, r)) = b
      /\ \A i \in 1..b : RoutesTo(B, r)[i] = [dst |-> N[p + i], gw |-> r]
  <2>. HIDE DEF A, B
  <2>. QED
    BY SMTT(30), <1>3, <1>4, RoutesToFacts
<1>7. H \in Seq(Routes) /\ Len(H) = 2 /\ D \in Seq(Routes) /\ Len(D) = 1
  BY DEF Routes, Dsts
<1>8. /\ M \in Seq(Routes) /\ Len(M) = a + b
      /\ \A i \in 1..a : M[i] = [dst |-> N[i], gw |-> l]
      /\ \A i \in 1..b : M[a + i] = [dst |-> N[p + i], gw |-> r]
  <2>1. /\ M \in Seq(Routes) /\ Len(M) = a + b
        /\ \A i \in 1..(a + b) : M[i] = IF i <= a THEN RoutesTo(A, l)[i] ELSE RoutesTo(B, r)[i - a]
    <3>. DEFINE X == RoutesTo(A, l)
                Y == RoutesTo(B, r)
    <3>1. X \in Seq(Routes) /\ Y \in Seq(Routes) /\ Len(X) = a /\ Len(Y) = b
      BY <1>6
    <3>. HIDE DEF a, b, X, Y
    <3>2. /\ X \o Y \in Seq(Routes) /\ Len(X \o Y) = Len(X) + Len(Y)
          /\ \A i \in 1..(Len(X) + Len(Y)) : (X \o Y)[i] = IF i <= Len(X) THEN X[i] ELSE Y[i - Len(X)]
      BY <3>1, ConcatProperties
    <3>. QED
      BY <3>1, <3>2 DEF X, Y
  <2>. HIDE DEF M, a, b
  <2>2. \A i \in 1..b : a + i \in 1..(a + b) /\ ~(a + i <= a) /\ (a + i) - a = i
    BY <1>5
  <2>3. \A i \in 1..a : i \in 1..(a + b) /\ i <= a
    BY <1>5
  <2>4. ASSUME NEW i \in 1..a PROVE M[i] = [dst |-> N[i], gw |-> l]
    <3>1. M[i] = RoutesTo(A, l)[i]
      BY <2>1, <2>3
    <3>. QED
      BY <1>6, <3>1
  <2>5. ASSUME NEW i \in 1..b PROVE M[a + i] = [dst |-> N[p + i], gw |-> r]
    <3>1. M[a + i] = RoutesTo(B, r)[(a + i) - a]
      BY <2>1, <2>2
    <3>. QED
      BY <1>6, <2>2, <3>1
  <2>. QED
    BY <2>1, <2>4, <2>5
<1>9. /\ M \o D \in Seq(Routes) /\ Len(M \o D) = a + b + 1
      /\ \A i \in 1..(a + b) : (M \o D)[i] = M[i]
      /\ (M \o D)[a + b + 1] = D[1]
  <2>1. /\ M \o D \in Seq(Routes) /\ Len(M \o D) = Len(M) + Len(D)
        /\ \A i \in 1..(Len(M) + Len(D)) : (M \o D)[i] = IF i <= Len(M) THEN M[i] ELSE D[i - Len(M)]
    <3>1. M \in Seq(Routes) /\ D \in Seq(Routes)
      BY <1>7, <1>8
    <3>. HIDE DEF M, D
    <3>. QED
      BY <3>1, ConcatProperties
  <2>. HIDE DEF M, D, a, b
  <2>2. \A i \in 1..(a + b) : i \in 1..(a + b + 1) /\ i <= a + b
    BY <1>5
  <2>3. a + b + 1 \in 1..(a + b + 1) /\ ~(a + b + 1 <= a + b) /\ (a + b + 1) - (a + b) = 1
    BY <1>5
  <2>. QED
    BY <1>7, <1>8, <2>1, <2>2, <2>3
<1>10. /\ rs \in Seq(Routes) /\ Len(rs) = a + b + 3
       /\ rs[1] = H[1] /\ rs[2] = H[2]
       /\ \A i \in 1..(a + b + 1) : rs[2 + i] = (M \o D)[i]
  <2>. DEFINE MD == M \o D
  <2>0. rs = H \o MD
    BY DEF ChainRoutes
  <2>. HIDE DEF MD, H, rs
  <2>1. /\ rs \in Seq(Routes) /\ Len(rs) = Len(H) + Len(MD)
        /\ \A i \in 1..(Len(H) + Len(MD)) : rs[i] = IF i <= Len(H) THEN H[i] ELSE MD[i - Len(H)]
    <3>1. H \in Seq(Routes) /\ MD \in Seq(Routes)
      BY <1>7, <1>9 DEF MD
    <3>2. /\ H \o MD \in Seq(Routes) /\ Len(H \o MD) = Len(H) + Len(MD)
          /\ \A i \in 1..(Len(H) + Len(MD)) : (H \o MD)[i] = IF i <= Len(H) THEN H[i] ELSE MD[i - Len(H)]
      BY <3>1, ConcatProperties
    <3>. QED
      BY <2>0, <3>2
  <2>. HIDE DEF a, b
  <2>2. \A i \in 1..(a + b + 1) : 2 + i \in 1..(2 + (a + b + 1)) /\ ~(2 + i <= 2) /\ (2 + i) - 2 = i
    BY <1>5
  <2>3. 1 \in 1..(2 + (a + b + 1)) /\ 2 \in 1..(2 + (a + b + 1)) /\ 2 + (a + b + 1) = a + b + 3
    BY <1>5
  <2>4. Len(MD) = a + b + 1
    BY <1>9 DEF MD
  <2>5. ASSUME NEW i \in 1..(a + b + 1) PROVE rs[2 + i] = MD[i]
    <3>1. rs[2 + i] = MD[(2 + i) - 2]
      BY <1>7, <2>1, <2>2, <2>4
    <3>. QED
      BY <2>2, <3>1
  <2>6. Len(rs) = a + b + 3 /\ rs[1] = H[1] /\ rs[2] = H[2]
    BY <1>7, <2>1, <2>3, <2>4
  <2>. QED
    BY <2>1, <2>5, <2>6 DEF MD
<1>. HIDE DEF M, rs, a, b, A, B
<1>11. /\ \A i \in 1..a : rs[2 + i] = [dst |-> N[i], gw |-> l]
       /\ \A i \in 1..b : rs[2 + a + i] = [dst |-> N[p + i], gw |-> r]
       /\ rs[Len(rs)] = [dst |-> "default", gw |-> r]
  <2>. HIDE DEF N
  <2>1. \A i \in 1..a : rs[2 + i] = M[i]
    <3>1. \A i \in 1..a : i \in 1..(a + b) /\ i \in 1..(a + b + 1)
      BY <1>5
    <3>. QED
      BY <1>9, <1>10, <3>1
  <2>2. \A i \in 1..b : rs[2 + a + i] = M[a + i]
    <3>1. \A i \in 1..b : a + i \in 1..(a + b) /\ a + i \in 1..(a + b + 1) /\ 2 + (a + i) = 2 + a + i
      BY <1>5
    <3>. QED
      BY <1>9, <1>10, <3>1
  <2>3. rs[Len(rs)] = D[1]
    <3>1. a + b + 1 \in 1..(a + b + 1) /\ 2 + (a + b + 1) = a + b + 3
      BY <1>5
    <3>. QED
      BY <1>9, <1>10, <3>1
  <2>. QED
    BY <1>8, <2>1, <2>2, <2>3
<1>12. ASSUME NEW j \in 1..Len(rs) - 1 PROVE Sided(k, p, l, r, rs[j])
  <2>1. CASE j \in {1, 2}
    BY <1>10, <2>1 DEF Sided, Leftward, Rightward
  <2>2. CASE j \in 3..(2 + a)
    <3>1. j - 2 \in 1..a /\ 2 + (j - 2) = j
      BY <1>5, <2>2
    <3>2. rs[j] = [dst |-> N[j - 2], gw |-> l] /\ j - 2 \in 1..Len(N) /\ j - 2 < p - 1
      BY <1>3, <1>11, <3>1 DEF a
    <3>. QED
      BY <3>2 DEF Sided, Leftward
  <2>3. CASE j \in (3 + a)..(2 + a + b)
    <3>1. j - 2 - a \in 1..b /\ 2 + a + (j - 2 - a) = j
      BY <1>5, <2>3
    <3>2. PICK i \in 1..b : j = 2 + a + i
      BY <3>1
    <3>3. rs[j] = [dst |-> N[p + i], gw |-> r] /\ p + i \in 1..Len(N) /\ p + i > p
      BY <1>4, <1>11, <3>2 DEF b
    <3>. QED
      BY <3>3 DEF Sided, Rightward
  <2>4. j \in {1, 2} \/ j \in 3..(2 + a) \/ j \in (3 + a)..(2 + a + b)
    BY <1>5, <1>10
  <2>. QED
    BY <2>1, <2>2, <2>3, <2>4
<1>13. ASSUME NEW x, Leftward(k, p, x) PROVE \E j \in 1..Len(rs) : rs[j].dst = x
  <2>1. CASE x = "left"
    <3>1. 1 \in 1..Len(rs) /\ rs[1].dst = x
      BY <1>5, <1>10, <2>1
    <3>. QED
      BY <3>1
  <2>2. CASE \E i \in 1..Len(N) : i < p - 1 /\ x = N[i]
    <3>1. PICK i \in 1..a : x = N[i]
      BY <1>3, <2>2 DEF a
    <3>2. 2 + i \in 1..Len(rs)
      BY <1>5, <1>10
    <3>3. rs[2 + i] = [dst |-> N[i], gw |-> l]
      BY <1>11
    <3>. QED
      BY <3>1, <3>2, <3>3
  <2>. QED
    BY <1>13, <2>1, <2>2 DEF Leftward
<1>14. ASSUME NEW x, Rightward(k, p, x) PROVE \E j \in 1..Len(rs) : rs[j].dst = x
  <2>1. CASE x = "right"
    <3>1. 2 \in 1..Len(rs) /\ rs[2].dst = x
      BY <1>5, <1>10, <2>1
    <3>. QED
      BY <3>1
  <2>2. CASE \E i \in 1..Len(N) : i > p /\ x = N[i]
    <3>1. PICK i \in 1..b : x = N[p + i]
      BY <1>4, <2>2 DEF b
    <3>2. 2 + a + i \in 1..Len(rs)
      BY <1>5, <1>10
    <3>3. rs[2 + a + i] = [dst |-> N[p + i], gw |-> r]
      BY <1>11
    <3>. QED
      BY <3>1, <3>2, <3>3
  <2>. QED
    BY <1>14, <2>1, <2>2 DEF Rightward
<1>15. Len(rs) > 2
  BY <1>5, <1>10
<1>. QED
  BY <1>10, <1>11, <1>12, <1>13, <1>14, <1>15 DEF rs, ForPlace

(***************************************************************************)
(* Calculating and sending.                                                *)
(***************************************************************************)
\* Messages are of pods.
LEMMA PodsInType ==
  ASSUME NetInv, NEW S \in SUBSET Nodes
  PROVE  PodsIn(S) \subseteq PodIds
<1>. SUFFICES ASSUME NEW n \in S, NEW i \in 1..Len(chan[n]) PROVE chan[n][i].pod \in PodIds
  BY DEF PodsIn
<1>1. chan[n][i] \in Infos
  BY DEF NetInv
<1>. QED
  BY <1>1 DEF Infos

\* The death of nfn-operator.
LEMMA DieInv ==
  ASSUME KubeInv, WorkerInv, PodInv, NetInv, Die
  PROVE  KubeInv' /\ WorkerInv' /\ PodInv' /\ NetInv'
<1>1. KubeInv'
  BY DEF KubeInv, Die
<1>2. WorkerInv'
  <2>1. info' \in Seq(Infos) /\ Len(info') <= MaxInfo /\ Finish
    BY ConstantsAssumption DEF Die
  <2>. QED
    BY <2>1, FinishInv
<1>3. PodInv'
  BY Frame DEF Die
<1>4. NetInv'
  <2>1. missed' \subseteq PodIds
    BY PodsInType DEF Die, NetInv
  <2>. QED
    BY <2>1, ConstantsAssumption DEF Die, NetInv
<1>. QED
  BY <1>1, <1>2, <1>3, <1>4

\* The address of a pod is that of one of the two deployments on the network.
LEMMA AddressType ==
  ASSUME PodInv, req \in Chains, NEW i \in 1..Len(deps) - 1, NEW d,
         NEW g \in GetIPAdressForPod(i, d), g # NoVal
  PROVE  /\ g \in PodIds /\ g[1] \in {deps[i], deps[i + 1]} /\ <<d, g[1]>> \in Contains
         /\ 1 <= g[2] /\ g[2] <= pods[g[1]].inc
<1>1. deps[i] \in Deps /\ deps[i + 1] \in Deps
  <2>1. deps \in Seq(Deps) /\ i \in 1..Len(deps) /\ i + 1 \in 1..Len(deps)
    BY ConstantsAssumption DEF deps
  <2>. QED
    BY <2>1
<1>. DEFINE found == {e \in {deps[i], deps[i + 1]} : <<d, e>> \in Contains}
            from == {{e} \X (1..pods[e].inc) : e \in found}
<1>0. g \in UNION from
  <2>. DEFINE rest == IF \E e \in found : pods[e].phase # "running" THEN {NoVal} ELSE {}
  <2>0. GetIPAdressForPod(i, d) = (UNION from) \cup rest
    BY DEF GetIPAdressForPod
  <2>1. g \in (UNION from) \cup rest
    <3>. HIDE DEF from, rest
    <3>. QED
      BY <2>0
  <2>2. g \notin rest
    OBVIOUS
  <2>. HIDE DEF from, rest
  <2>. QED
    BY <2>1, <2>2
<1>2. PICK e \in {deps[i], deps[i + 1]} : <<d, e>> \in Contains /\ g \in {e} \X (1..pods[e].inc)
  <2>1. PICK G \in from : g \in G
    BY <1>0
  <2>. HIDE DEF found
  <2>2. PICK e \in found : G = {e} \X (1..pods[e].inc)
    BY <2>1
  <2>. QED
    BY <2>1, <2>2 DEF found
<1>3. pods[e].inc \in Nat /\ e \in Deps
  BY <1>1 DEF PodInv
<1>4. g = <<e, g[2]>> /\ g[2] \in Nat /\ g[1] = e /\ 1 <= g[2] /\ g[2] <= pods[e].inc
  BY <1>2, <1>3
<1>. QED
  BY <1>2, <1>3, <1>4 DEF PodIds

\* The next hops that calculateDeploymentRoutes may find.
LeftHops  == IF pos = 1 THEN {"left"} ELSE GetIPAdressForPod(pos - 1, deps[pos - 1])
RightHops == IF pos = Len(deps) THEN {"right"} ELSE GetIPAdressForPod(pos, deps[pos + 1])

\* They are gateways: an edge network's, or a pod's.
LEMMA HopsType ==
  ASSUME PodInv, WorkerInv, pc = "calculate", NEW l \in LeftHops, NEW r \in RightHops,
         NoVal \notin {l, r}
  PROVE  l \in Gateways /\ r \in Gateways
<1>1. req \in Chains /\ pos \in 1..Len(deps) /\ Len(deps) \in Nat
  BY ConstantsAssumption DEF WorkerInv, deps
<1>2. l \in Gateways
  <2>1. CASE pos = 1
    BY <2>1, GatewayFacts DEF LeftHops
  <2>2. CASE pos # 1
    <3>1. pos - 1 \in 1..Len(deps) - 1
      BY <1>1, <2>2
    <3>. QED
      BY <1>1, <2>2, <3>1, AddressType, GatewayFacts DEF LeftHops
  <2>. QED
    BY <2>1, <2>2
<1>3. r \in Gateways
  <2>1. CASE pos = Len(deps)
    BY <2>1, GatewayFacts DEF RightHops
  <2>2. CASE pos # Len(deps)
    <3>1. pos \in 1..Len(deps) - 1
      BY <1>1, <2>2
    <3>. QED
      BY <1>1, <2>2, <3>1, AddressType, GatewayFacts DEF RightHops
  <2>. QED
    BY <2>1, <2>2
<1>. QED
  BY <1>2, <1>3

\* A deployment's routes are appended, and the worker goes on.
LEMMA AppendedInv ==
  ASSUME WorkerInv, pc = "calculate", NEW m \in Infos, info' = Append(info, m), NextDeployment
  PROVE  WorkerInv'
<1>1. /\ req \in Chains /\ pos \in 1..Len(deps) /\ Len(deps) \in Nat /\ Len(info) \in Nat
      /\ Len(info) + Len(deps) < MaxInfo + pos /\ sent = 0
  BY ConstantsAssumption DEF WorkerInv, PlaceInv, deps
<1>2. info' \in Seq(Infos) /\ Len(info') = Len(info) + 1
  BY DEF WorkerInv
<1>3. deps' = deps /\ req' = req /\ cr' = cr /\ sent' = 0
  BY <1>1 DEF NextDeployment, deps
<1>4. Len(info') <= MaxInfo /\ 0 < Len(info')
  BY <1>1, <1>2, ConstantsAssumption
<1>5. CASE pos < Len(deps)
  <2>1. pos' = pos + 1 /\ pc' = "calculate"
    BY <1>5 DEF NextDeployment
  <2>2. pos + 1 \in 1..Len(deps) /\ Len(info) + 1 + Len(deps) < MaxInfo + (pos + 1)
    BY <1>1, <1>5, ConstantsAssumption
  <2>. QED
    BY <1>1, <1>2, <1>3, <1>4, <2>1, <2>2 DEF WorkerInv, PlaceInv, Pcs
<1>6. CASE ~(pos < Len(deps))
  <2>1. pos' = pos /\ pc' = "send"
    BY <1>6 DEF NextDeployment
  <2>. QED
    BY <1>1, <1>2, <1>3, <1>4, <2>1 DEF WorkerInv, PlaceInv, Pcs
<1>. QED
  BY <1>5, <1>6

\* What CalculateRoutes does: it ends the request, dies, or appends the routes of a
\* deployment for the next hops it found.
LEMMA CalculateCases ==
  ASSUME CalculateRoutes
  PROVE  /\ pc = "calculate" /\ UNCHANGED ops /\ (NoFault \/ Fault)
         /\ \/ Die
            \/ Retry /\ UNCHANGED <<kubeVars, info, podVars, netVars, missed>>
            \/ /\ UNCHANGED <<kubeVars, podVars, netVars, missed>> /\ NextDeployment
               /\ pods[deps[pos]].phase # "absent"
               /\ \E l \in LeftHops, r \in RightHops : \E b \in BOOLEAN :
                    /\ NoVal \notin {l, r}
                    /\ info' = Append(info, [pod |-> Pod(deps[pos]), id |-> b,
                                             routes |-> DeploymentRoutes(pos, l, r)])
<1>1. (pods[deps[pos]].phase = "running") \in BOOLEAN
  OBVIOUS
<1>. QED
  BY <1>1 DEF CalculateRoutes, LeftHops, RightHops

\* A deployment's routes stay within the bound of chainRoutingInfo.
LEMMA CalculateInv == ASSUME IInv, CalculateRoutes PROVE IInv'
<1>1. KubeInv /\ WorkerInv /\ PodInv /\ NetInv /\ CountInv
  BY Parts
<1>2. CountInv' /\ pc = "calculate" /\ req \in Chains
  BY <1>1, CalculateCases, CountStep DEF WorkerInv
<1>3. CASE Die
  BY <1>1, <1>2, <1>3, DieInv, PartsNext
<1>4. CASE Retry /\ UNCHANGED <<kubeVars, info, podVars, netVars, missed>>
  <2>1. KubeInv'
    BY <1>1, <1>2, <1>4 DEF KubeInv, Retry, kubeVars
  <2>2. WorkerInv'
    BY <1>1, <1>4, FinishInv DEF Retry, WorkerInv
  <2>. QED
    BY <1>1, <1>2, <1>4, <2>1, <2>2, Frame, PartsNext
<1>5. ASSUME UNCHANGED <<kubeVars, podVars, netVars, missed>>, NextDeployment,
             NEW l \in LeftHops, NEW r \in RightHops, NEW b \in BOOLEAN, NoVal \notin {l, r},
             info' = Append(info, [pod |-> Pod(deps[pos]), id |-> b,
                                   routes |-> DeploymentRoutes(pos, l, r)])
      PROVE  IInv'
  <2>1. l \in Gateways /\ r \in Gateways
    BY <1>1, <1>2, <1>5, HopsType
  <2>2. DeploymentRoutes(pos, l, r) = ChainRoutes(req, pos, l, r)
    BY DEF DeploymentRoutes, DynamicRoutes, ChainRoutes, nets
  <2>3. pos \in 1..Len(DepsOf[req])
    BY <1>1, <1>2 DEF WorkerInv, deps
  <2>. DEFINE rs == DeploymentRoutes(pos, l, r)
              m == [pod |-> Pod(deps[pos]), id |-> b, routes |-> rs]
  <2>4. rs \in Seq(Routes)
    <3>1. ForPlace(req, pos, l, r, rs)
      BY <1>2, <2>1, <2>2, <2>3, ChainRoutesFacts
    <3>. HIDE DEF rs
    <3>. QED
      BY <3>1 DEF ForPlace
  <2>5. Pod(deps[pos]) \in PodIds
    <3>1. deps[pos] \in Deps
      BY <1>2, <2>3, ConstantsAssumption DEF deps
    <3>. QED
      BY <1>1, <3>1 DEF Pod, PodIds, PodInv
  <2>6. m \in Infos
    <3>. HIDE DEF rs
    <3>. QED
      BY <2>4, <2>5 DEF Infos
  <2>7. WorkerInv'
    <3>1. info' = Append(info, m) /\ NextDeployment
      BY <1>5
    <3>. HIDE DEF m
    <3>. QED
      BY <1>1, <1>2, <2>6, <3>1, AppendedInv
  <2>8. KubeInv' /\ PodInv' /\ NetInv'
    <3>1. UNCHANGED <<kubeVars, queue>>
      BY SMTT(30), <1>5 DEF NextDeployment
    <3>. QED
      BY <1>1, <1>5, <3>1, Frame
  <2>. QED
    BY <1>2, <2>7, <2>8, PartsNext
<1>. QED
  BY <1>3, <1>4, <1>5, CalculateCases

\* SendRouteNotif: what it leaves alone, where the entry m for node n goes, and where
\* the worker goes.
SendFrame ==
  pc = "send" /\ UNCHANGED <<req, pos, kubeVars, queue, info, podVars, clients, faults, ops>>
SendStream(n, m) ==
  \/ /\ missed' = missed /\ Len(chan[n]) < MaxChan
     /\ chan' = [chan EXCEPT ![n] = Append(@, m)]
  \/ missed' = missed \cup {m.pod} /\ chan' = chan
SendStop(s) ==
  /\ pc' = "status" /\ sent' \in {sent, sent + 1}
  /\ cr' = [cr EXCEPT !.state = s]
  /\ s = "Created" => ~(sent + 1 < Len(info))
SendWorker ==
  \/ sent + 1 < Len(info) /\ sent' = sent + 1 /\ pc' = pc /\ cr' = cr
  \/ \E s \in States : SendStop(s)

\* An entry goes into a stream or is missed, and the worker goes on.
LEMMA SendCases ==
  ASSUME SendRouteNotif
  PROVE  SendFrame /\ SendStream(NodeOf[info[sent + 1].pod[1]], info[sent + 1]) /\ SendWorker
<1>. DEFINE m == info[sent + 1]
            n == NodeOf[m.pod[1]]
            Go(s) == IF sent + 1 < Len(info)
                       THEN sent' = sent + 1 /\ UNCHANGED <<pc, cr>>
                       ELSE sent' = sent + 1 /\ pc' = "status" /\ cr' = [cr EXCEPT !.state = s]
            Stop == pc' = "status" /\ cr' = [cr EXCEPT !.state = "CreateInternalError"] /\ UNCHANGED sent
<1>1. /\ pc = "send" /\ NoFault
      /\ UNCHANGED <<req, pos, kubeVars, queue, info, podVars, clients, ops>>
  BY DEF SendRouteNotif
<1>2. \/ /\ Len(chan[n]) < MaxChan /\ Go("Created")
         /\ chan' = [chan EXCEPT ![n] = Append(@, m)] /\ UNCHANGED missed
      \/ Go("Created") /\ missed' = missed \cup {m.pod} /\ UNCHANGED chan
      \/ Stop /\ missed' = missed \cup {m.pod} /\ UNCHANGED chan
  BY Zenon DEF SendRouteNotif
<1>. HIDE DEF m, n, Go, Stop
<1>3. SendFrame
  BY <1>1 DEF SendFrame, NoFault
<1>4. SendStream(n, m)
  BY <1>2 DEF SendStream
<1>5. Go("Created") => SendWorker
  <2>1. CASE sent + 1 < Len(info)
    BY <2>1 DEF Go, SendWorker
  <2>2. CASE ~(sent + 1 < Len(info))
    <3>1. Go("Created") => SendStop("Created")
      BY <2>2 DEF Go, SendStop
    <3>. QED
      BY <3>1 DEF SendWorker, States
  <2>. QED
    BY <2>1, <2>2
<1>6. Stop => SendWorker
  <2>1. Stop => SendStop("CreateInternalError")
    BY DEF Stop, SendStop
  <2>. QED
    BY <2>1 DEF SendWorker, States
<1>7. SendWorker
  BY <1>2, <1>5, <1>6
<1>. QED
  BY SMTT(30), <1>3, <1>4, <1>7 DEF m, n

\* The entry that is sent, and its node.
LEMMA SendEntry ==
  ASSUME WorkerInv, SendRouteNotif
  PROVE  /\ sent \in Nat /\ Len(info) \in Nat /\ sent < Len(info) /\ sent + 1 \in 1..Len(info)
         /\ info \in Seq(Infos) /\ info[sent + 1] \in Infos
         /\ info[sent + 1].pod \in PodIds /\ info[sent + 1].pod[1] \in Deps
         /\ NodeOf[info[sent + 1].pod[1]] \in Nodes
<1>1. sent \in Nat /\ sent < Len(info) /\ info \in Seq(Infos)
  BY SendCases DEF SendFrame, WorkerInv
<1>2. Len(info) \in Nat
  BY <1>1
<1>3. sent + 1 \in 1..Len(info)
  BY <1>1, <1>2
<1>4. info[sent + 1] \in Infos
  BY <1>1, <1>3
<1>5. info[sent + 1].pod \in PodIds /\ info[sent + 1].pod[1] \in Deps
  BY <1>4 DEF Infos, PodIds
<1>6. NodeOf[info[sent + 1].pod[1]] \in Nodes
  BY <1>5, ConstantsAssumption
<1>. QED
  BY <1>1, <1>2, <1>3, <1>4, <1>5, <1>6

\* The worker stays at an entry of chainRoutingInfo until all are sent.
LEMMA SendInv == ASSUME IInv, SendRouteNotif PROVE IInv'
<1>1. KubeInv /\ WorkerInv /\ PodInv /\ NetInv /\ CountInv
  BY Parts
<1>. DEFINE m == info[sent + 1]
            n == NodeOf[m.pod[1]]
<1>2. SendFrame /\ SendStream(n, m) /\ SendWorker
  BY SendCases
<1>3. m \in Infos /\ m.pod \in PodIds /\ n \in Nodes
  BY <1>1, SendEntry
<1>4. sent \in Nat /\ sent + 1 \in Nat
  BY <1>1 DEF WorkerInv
<1>. HIDE DEF m, n
<1>5. NetInv'
  <2>0. UNCHANGED clients
    BY <1>2 DEF SendFrame
  <2>1. CASE missed' = missed \cup {m.pod} /\ chan' = chan
    BY <1>1, <1>3, <2>0, <2>1 DEF NetInv
  <2>2. CASE missed' = missed /\ Len(chan[n]) < MaxChan /\ chan' = [chan EXCEPT ![n] = Append(@, m)]
    <3>1. chan[n] \in Seq(Infos) /\ Append(chan[n], m) \in Seq(Infos)
      BY <1>1, <1>3 DEF NetInv
    <3>2. Len(Append(chan[n], m)) <= MaxChan
      <4>1. Len(Append(chan[n], m)) = Len(chan[n]) + 1 /\ Len(chan[n]) \in Nat
        BY <1>3, <3>1
      <4>. QED
        BY <2>2, <4>1, ConstantsAssumption
    <3>3. chan' \in [Nodes -> Seq(Infos)]
      BY <1>1, <2>2, <3>1 DEF NetInv
    <3>4. ASSUME NEW x \in Nodes PROVE Len(chan'[x]) <= MaxChan
      <4>1. chan'[x] = IF x = n THEN Append(chan[n], m) ELSE chan[x]
        BY <1>1, <2>2 DEF NetInv
      <4>. QED
        BY <1>1, <3>2, <4>1 DEF NetInv
    <3>. QED
      BY <1>1, <2>0, <2>2, <3>3, <3>4 DEF NetInv
  <2>. QED
    BY <1>2, <2>1, <2>2 DEF SendStream
<1>6. WorkerInv'
  <2>0. pc = "send" /\ UNCHANGED <<req, pos, info, deps>>
    BY <1>2 DEF SendFrame, deps
  <2>1. CASE sent + 1 < Len(info) /\ sent' = sent + 1 /\ pc' = pc /\ cr' = cr
    BY <1>1, <1>4, <2>0, <2>1 DEF WorkerInv, PlaceInv
  <2>2. ASSUME NEW s \in States, SendStop(s) PROVE WorkerInv'
    <3>1. pc' = "status" /\ sent' \in Nat
      BY <1>4, <2>2 DEF SendStop
    <3>2. cr' \in Objects
      BY <1>1, <2>2, ObjectType DEF WorkerInv, SendStop
    <3>. QED
      BY <1>1, <2>0, <3>1, <3>2 DEF WorkerInv, PlaceInv, Pcs
  <2>. QED
    BY <1>2, <2>1, <2>2 DEF SendWorker
<1>7. KubeInv' /\ PodInv' /\ CountInv'
  BY <1>1, <1>2, Frame DEF SendFrame
<1>. QED
  BY <1>5, <1>6, <1>7, PartsNext

(***************************************************************************)
(* Pods, agents and restarts.                                              *)
(***************************************************************************)
\* A pod without routes.
LEMMA NoRoutesFacts ==
  /\ NoRoutes \in Tables /\ \A x \in Dsts : NoRoutes[x] = NoVal
  /\ [NoRoutes EXCEPT !["default"] = "podGW"] \in Tables
  /\ \A x \in Dsts : [NoRoutes EXCEPT !["default"] = "podGW"][x]
                       = IF x = "default" THEN "podGW" ELSE NoVal
BY GatewayFacts DEF NoRoutes, Tables

\* The pod of one deployment changes.
LEMMA OnePod ==
  ASSUME PodInv, NEW d \in Deps, NEW q \in [phase: Phases, inc: Nat], NEW t \in Tables,
         pods' = [pods EXCEPT ![d] = q], rt' = [rt EXCEPT ![d] = t],
         t["host"] \in {NoVal, "podGW"},
         t["host"] = NoVal /\ q.phase = "running" => t["default"] = "podGW"
  PROVE  PodInv'
<1>1. pods' \in [Deps -> [phase: Phases, inc: Nat]] /\ rt' \in [Deps -> Tables]
  BY DEF PodInv
<1>2. ASSUME NEW e \in Deps PROVE HostInv(e)'
  <2>1. CASE e = d
    <3>1. rt'[e] = t /\ pods'[e] = q
      BY <2>1 DEF PodInv
    <3>. QED
      BY <3>1 DEF HostInv
  <2>2. CASE e # d
    <3>1. rt'[e] = rt[e] /\ pods'[e] = pods[e]
      BY <2>2 DEF PodInv
    <3>. QED
      BY <3>1 DEF HostInv, PodInv
  <2>. QED
    BY <2>1, <2>2
<1>. QED
  BY <1>1, <1>2 DEF PodInv

\* A pod starts: it gets on, or it runs and has the default route of its network.
LEMMA PodStepCases ==
  ASSUME PodInv, NEW d \in Deps, PodStep(d)
  PROVE  /\ UNCHANGED <<kubeVars, queue, workerVars, info, netVars, missed, faults, ops>>
         /\ \E q \in [phase: Phases, inc: Nat], t \in Tables :
              /\ pods' = [pods EXCEPT ![d] = q] /\ rt' = [rt EXCEPT ![d] = t]
              /\ \/ t = rt[d] /\ q.phase # "running" /\ pods[d].phase # "running"
                 \/ t = [NoRoutes EXCEPT !["default"] = "podGW"]
              /\ \/ pods[d].phase = "absent" /\ q.inc = pods[d].inc + 1
                 \/ pods[d].phase \in {"pending", "starting"} /\ q.inc = pods[d].inc
<1>. DEFINE P == [phase: Phases, inc: Nat]
            i == pods[d].inc
<1>1. /\ pods[d] \in P /\ i \in Nat /\ i + 1 \in Nat /\ rt[d] \in Tables
      /\ rt = [rt EXCEPT ![d] = rt[d]]
  BY DEF PodInv
<1>2. /\ [phase |-> "pending", inc |-> i + 1] \in P
      /\ [pods[d] EXCEPT !.phase = "starting"] \in P
      /\ [phase |-> "running", inc |-> i] \in P /\ [phase |-> "running", inc |-> i + 1] \in P
      /\ [pods[d] EXCEPT !.phase = "starting"].phase = "starting"
  BY <1>1 DEF Phases
<1>3. CASE /\ pods[d].phase = "absent"
           /\ pods' = [pods EXCEPT ![d] = [phase |-> "pending", inc |-> i + 1]]
           /\ UNCHANGED rt
  <2>. DEFINE q == [phase |-> "pending", inc |-> i + 1]
  <2>1. q \in P /\ q.phase # "running" /\ q.inc = i + 1
    BY <1>2
  <2>. HIDE DEF q
  <2>2. pods' = [pods EXCEPT ![d] = q] /\ rt' = [rt EXCEPT ![d] = rt[d]]
    BY <1>1, <1>3 DEF q
  <2>. QED
    BY <1>1, <1>3, <2>1, <2>2 DEF PodStep
<1>4. CASE /\ pods[d].phase = "pending"
           /\ pods' = [pods EXCEPT ![d] = [pods[d] EXCEPT !.phase = "starting"]]
           /\ UNCHANGED rt
  <2>. DEFINE q == [pods[d] EXCEPT !.phase = "starting"]
  <2>1. q \in P /\ q.phase # "running" /\ q.inc = i
    BY <1>1, <1>2
  <2>. HIDE DEF q
  <2>2. pods' = [pods EXCEPT ![d] = q] /\ rt' = [rt EXCEPT ![d] = rt[d]]
    BY <1>1, <1>4 DEF q
  <2>. QED
    BY <1>1, <1>4, <2>1, <2>2 DEF PodStep
<1>5. ASSUME NEW j \in Nat, Run(d, j),
             \/ pods[d].phase = "absent" /\ j = i + 1
             \/ pods[d].phase = "starting" /\ j = i
      PROVE  \E q \in P, t \in Tables :
               /\ pods' = [pods EXCEPT ![d] = q] /\ rt' = [rt EXCEPT ![d] = t]
               /\ t = [NoRoutes EXCEPT !["default"] = "podGW"]
               /\ \/ pods[d].phase = "absent" /\ q.inc = i + 1
                  \/ pods[d].phase = "starting" /\ q.inc = i
  <2>. DEFINE q == [phase |-> "running", inc |-> j]
  <2>1. q \in P /\ q.inc = j
    BY DEF Phases
  <2>. HIDE DEF q
  <2>2. pods' = [pods EXCEPT ![d] = q]
    BY <1>5 DEF Run, q
  <2>. QED
    BY <1>5, <2>1, <2>2, NoRoutesFacts DEF Run
<1>. QED
  BY <1>1, <1>3, <1>4, <1>5 DEF PodStep

\* A pod that starts has no route to the host's network and its own default route.
LEMMA PodStepInv == ASSUME IInv, NEW d \in Deps, PodStep(d) PROVE IInv'
<1>1. KubeInv /\ WorkerInv /\ PodInv /\ NetInv /\ CountInv
  BY Parts
<1>2. PICK q \in [phase: Phases, inc: Nat], t \in Tables :
         /\ pods' = [pods EXCEPT ![d] = q] /\ rt' = [rt EXCEPT ![d] = t]
         /\ \/ t = rt[d] /\ q.phase # "running"
            \/ t = [NoRoutes EXCEPT !["default"] = "podGW"]
  BY <1>1, PodStepCases
<1>3. /\ t["host"] \in {NoVal, "podGW"}
      /\ t["host"] = NoVal /\ q.phase = "running" => t["default"] = "podGW"
  <2>1. CASE t = rt[d] /\ q.phase # "running"
    BY <1>1, <2>1 DEF PodInv, HostInv
  <2>2. CASE t = [NoRoutes EXCEPT !["default"] = "podGW"]
    <3>1. t["host"] = NoVal /\ t["default"] = "podGW"
      BY <2>2, NoRoutesFacts, GatewayFacts
    <3>. QED
      BY <3>1
  <2>. QED
    BY <1>2, <2>1, <2>2
<1>4. PodInv'
  BY <1>1, <1>2, <1>3, OnePod
<1>5. KubeInv' /\ WorkerInv' /\ NetInv' /\ CountInv'
  BY <1>1, PodStepCases, Frame
<1>. QED
  BY <1>4, <1>5, PartsNext

\* A pod is lost.
LEMMA PodGoneCases ==
  ASSUME PodInv, NEW d \in Deps, PodGone(d)
  PROVE  \E q \in [phase: Phases, inc: Nat] :
           /\ pods' = [pods EXCEPT ![d] = q] /\ rt' = [rt EXCEPT ![d] = NoRoutes]
           /\ q.phase = "absent" /\ q.inc = pods[d].inc
<1>1. pods[d] \in [phase: Phases, inc: Nat]
  BY DEF PodInv
<1>2. /\ [pods[d] EXCEPT !.phase = "absent"] \in [phase: Phases, inc: Nat]
      /\ [pods[d] EXCEPT !.phase = "absent"].phase = "absent"
      /\ [pods[d] EXCEPT !.phase = "absent"].inc = pods[d].inc
  BY <1>1 DEF Phases
<1>. QED
  BY <1>2 DEF PodGone

\* A pod that is lost takes its routes along.
LEMMA PodGoneInv == ASSUME IInv, NEW d \in Deps, PodGone(d) PROVE IInv'
<1>1. KubeInv /\ WorkerInv /\ PodInv /\ NetInv /\ CountInv
  BY Parts
<1>2. PICK q \in [phase: Phases, inc: Nat] :
         pods' = [pods EXCEPT ![d] = q] /\ rt' = [rt EXCEPT ![d] = NoRoutes] /\ q.phase = "absent"
  BY <1>1, PodGoneCases
<1>3. PodInv'
  BY <1>1, <1>2, OnePod, NoRoutesFacts, GatewayFacts
<1>4. KubeInv' /\ WorkerInv' /\ NetInv' /\ CountInv'
  BY <1>1, Frame, CountStep DEF PodGone
<1>. QED
  BY <1>3, <1>4, PartsNext

\* An agent subscribes or dies.
LEMMA AgentInv ==
  ASSUME IInv, NEW n \in Nodes, AgentSubscribe(n) \/ AgentDie(n)
  PROVE  IInv'
<1>1. KubeInv /\ WorkerInv /\ PodInv /\ NetInv /\ CountInv
  BY Parts
<1>2. CASE AgentSubscribe(n)
  <2>1. NetInv'
    BY <1>1, <1>2 DEF AgentSubscribe, NetInv
  <2>2. KubeInv' /\ WorkerInv' /\ PodInv' /\ CountInv'
    BY <1>1, <1>2, Frame DEF AgentSubscribe
  <2>. QED
    BY <2>1, <2>2, PartsNext
<1>3. CASE AgentDie(n)
  <2>1. NetInv'
    <3>1. missed' \subseteq PodIds
      <4>1. PodsIn({n}) \subseteq PodIds
        BY <1>1, PodsInType
      <4>. QED
        BY <1>1, <1>3, <4>1 DEF AgentDie, NetInv
    <3>2. chan' \in [Nodes -> Seq(Infos)] /\ \A x \in Nodes : Len(chan'[x]) <= MaxChan
      BY <1>1, <1>3, ConstantsAssumption DEF AgentDie, NetInv
    <3>. QED
      BY <1>1, <1>3, <3>1, <3>2 DEF AgentDie, NetInv
  <2>2. KubeInv' /\ WorkerInv' /\ PodInv' /\ CountInv'
    BY <1>1, <1>3, Frame, CountStep DEF AgentDie
  <2>. QED
    BY <2>1, <2>2, PartsNext
<1>. QED
  BY <1>2, <1>3

\* nfn-operator dies.
LEMMA CrashInv == ASSUME IInv, Crash PROVE IInv'
<1>1. KubeInv /\ WorkerInv /\ PodInv /\ NetInv /\ CountInv
  BY Parts
<1>. QED
  BY SMTT(30), <1>1, DieInv, CountStep, PartsNext DEF Crash

\* What an agent does with a message: nothing to the routes, or it adds all of its
\* routes, or the first i of them, to the container of a pod that runs.
LEMMA HandleCases ==
  ASSUME NetInv, PodInv, NEW n \in Nodes, HandleRoutes(n)
  PROVE  /\ chan[n] \in Seq(Infos) /\ chan[n] # <<>> /\ Head(chan[n]) \in Infos
         /\ chan' = [chan EXCEPT ![n] = Tail(@)]
         /\ UNCHANGED <<kubeVars, queue, workerVars, info, pods, clients, ops>>
         /\ missed' \in {missed \cup {Head(chan[n]).pod}, missed \ {Head(chan[n]).pod}}
         /\ NoFault \/ Fault
         /\ \/ UNCHANGED rt
            \/ /\ Running(Head(chan[n]).pod)
               /\ \E i \in 0..Len(Head(chan[n]).routes) :
                    rt' = [rt EXCEPT ![Head(chan[n]).pod[1]] =
                             ContainerAddRoute(@, SubSeq(Head(chan[n]).routes, 1, i))]
<1>. DEFINE m == Head(chan[n])
<1>1. chan[n] \in Seq(Infos) /\ chan[n] # <<>>
  BY DEF NetInv, HandleRoutes
<1>2. m \in Infos
  BY <1>1
<1>3. m.routes \in Seq(Routes)
  BY <1>2 DEF Infos
<1>4. Len(m.routes) \in 0..Len(m.routes) /\ SubSeq(m.routes, 1, Len(m.routes)) = m.routes
  <2>. HIDE DEF m
  <2>. QED
    BY SMTT(30), <1>3
<1>5. \A i \in 0..Len(m.routes) - 1 : i \in 0..Len(m.routes)
  <2>. HIDE DEF m
  <2>. QED
    BY SMTT(30), <1>3
<1>6. \/ UNCHANGED rt
      \/ Running(m.pod) /\ rt' = [rt EXCEPT ![m.pod[1]] = ContainerAddRoute(@, m.routes)]
      \/ Running(m.pod) /\ \E i \in 0..Len(m.routes) - 1 :
                             rt' = [rt EXCEPT ![m.pod[1]] = ContainerAddRoute(@, SubSeq(m.routes, 1, i))]
  BY DEF HandleRoutes
<1>7. \/ UNCHANGED rt
      \/ Running(m.pod) /\ \E i \in 0..Len(m.routes) :
                             rt' = [rt EXCEPT ![m.pod[1]] = ContainerAddRoute(@, SubSeq(m.routes, 1, i))]
  <2>. HIDE DEF m
  <2>. QED
    BY <1>4, <1>5, <1>6
<1>. QED
  BY <1>1, <1>2, <1>7 DEF HandleRoutes

\* An agent carries out a message, or part of it, and routes the host first.
LEMMA HandleInv == ASSUME IInv, NEW n \in Nodes, HandleRoutes(n) PROVE IInv'
<1>1. KubeInv /\ WorkerInv /\ PodInv /\ NetInv /\ CountInv
  BY Parts
<1>. DEFINE m == Head(chan[n])
            d == m.pod[1]
<1>2. m \in Infos
  BY <1>1, HandleCases
<1>3. m.pod \in PodIds /\ d \in Deps /\ m.routes \in Seq(Routes)
  BY <1>2 DEF Infos, PodIds
<1>4. NetInv'
  <2>1. missed' \subseteq PodIds
    BY <1>1, <1>3, HandleCases DEF NetInv
  <2>2. Tail(chan[n]) \in Seq(Infos) /\ Len(Tail(chan[n])) <= MaxChan
    <3>1. chan[n] \in Seq(Infos) /\ chan[n] # <<>> /\ Len(chan[n]) <= MaxChan
      BY <1>1, HandleCases DEF NetInv
    <3>. QED
      BY <3>1, HeadTailProperties, ConstantsAssumption
  <2>3. chan' = [chan EXCEPT ![n] = Tail(chan[n])] /\ clients' = clients
    BY <1>1, HandleCases
  <2>. QED
    BY <1>1, <2>1, <2>2, <2>3 DEF NetInv
<1>5. PodInv'
  <2>1. CASE UNCHANGED rt
    BY <1>1, <2>1, HandleCases, Frame DEF podVars
  <2>2. ASSUME Running(m.pod), NEW i \in 0..Len(m.routes),
               rt' = [rt EXCEPT ![d] = ContainerAddRoute(@, SubSeq(m.routes, 1, i))]
        PROVE  PodInv'
    <3>. DEFINE rs == SubSeq(m.routes, 1, i)
                t == rt[d]
                u == ContainerAddRoute(t, rs)
    <3>. HIDE DEF m
    <3>1. rs \in Seq(Routes)
      BY <1>3
    <3>2. t \in Tables /\ pods[d] \in [phase: Phases, inc: Nat]
      BY <1>1, <1>3 DEF PodInv
    <3>3. u \in Tables /\ Covered(t, rs, Len(rs), u)
      <4>. HIDE DEF t, rs
      <4>. QED
        BY <3>1, <3>2, ContainerRoutes
    <3>4. /\ t["host"] \in {NoVal, "podGW"}
          /\ t["host"] = NoVal => t["default"] = "podGW"
      BY <1>1, <1>3, <2>2 DEF PodInv, HostInv, Running
    <3>5. u["host"] = "podGW"
      <4>. HIDE DEF t, u, rs
      <4>. QED
        BY <3>3, <3>4 DEF Covered
    <3>6. pods' = [pods EXCEPT ![d] = pods[d]] /\ rt' = [rt EXCEPT ![d] = u]
      BY <1>1, <2>2, HandleCases DEF PodInv
    <3>. HIDE DEF u, d
    <3>. QED
      BY <1>1, <1>3, <3>2, <3>3, <3>5, <3>6, GatewayFacts, OnePod
  <2>. QED
    BY <1>1, <2>1, <2>2, HandleCases
<1>6. KubeInv' /\ WorkerInv' /\ CountInv'
  BY <1>1, HandleCases, Frame, CountStep
<1>. QED
  BY <1>4, <1>5, <1>6, PartsNext

\* Every step keeps the invariant.
LEMMA IInvStep == IInv /\ [Next]_vars => IInv'
<1>. SUFFICES ASSUME IInv, [Next]_vars PROVE IInv'
  OBVIOUS
<1>1. CASE UNCHANGED vars
  <2>1. KubeInv /\ WorkerInv /\ PodInv /\ NetInv /\ CountInv
    BY Parts
  <2>2. /\ UNCHANGED <<kubeVars, queue>> /\ UNCHANGED <<workerVars, info>> /\ UNCHANGED podVars
        /\ UNCHANGED <<netVars, missed>> /\ UNCHANGED <<faults, ops>>
    BY <1>1 DEF vars
  <2>. QED
    BY <2>1, <2>2, Frame, PartsNext
<1>2. ASSUME NEW k \in Chains,
             UserCreate(k) \/ UserEdit(k) \/ UserDelete(k) \/ Deliver(k) \/ Resync(k) \/ Reconcile(k)
      PROVE  IInv'
  BY <1>2, UserInv, DeliverInv, ResyncInv, ReconcileInv
<1>3. CASE WorkerStep
  BY <1>3, AddFinalizerInv, CalculateInv, SendInv, StatusInv DEF WorkerStep
<1>4. ASSUME NEW d \in Deps, PodStep(d) \/ PodGone(d) PROVE IInv'
  BY <1>4, PodStepInv, PodGoneInv
<1>5. ASSUME NEW n \in Nodes, AgentSubscribe(n) \/ AgentDie(n) \/ HandleRoutes(n) PROVE IInv'
  BY <1>5, AgentInv, HandleInv
<1>6. CASE Crash
  BY <1>6, CrashInv
<1>. QED
  BY <1>1, <1>2, <1>3, <1>4, <1>5, <1>6 DEF Next

\* The type invariant of ChainController: the worker is at a deployment of its chain
\* while CalculateRoutes runs and at an entry of chainRoutingInfo while
\* SendRouteNotif does, for chains of any length.
THEOREM TypeCorrect == Spec => []TypeOK
<1>1. Init => IInv
  BY InitInv
<1>2. IInv /\ [Next]_vars => IInv'
  BY IInvStep
<1>3. IInv => TypeOK
  BY DEF IInv
<1>. QED
  BY <1>1, <1>2, <1>3, PTL DEF Spec

\* ContainerAddRoute never routes the host's network through a pod or an edge
\* network, though it takes the gateway from the default route it replaces itself and
\* runs again, also after a failure half way, for every message.
THEOREM HostRouteKeptHolds == Spec => []HostRouteKept
<1>1. Init => IInv
  BY InitInv
<1>2. IInv /\ [Next]_vars => IInv'
  BY IInvStep
<1>3. IInv => HostRouteKept
  <2>. SUFFICES ASSUME IInv, NEW d \in Deps
                PROVE  rt[d]["host"] \notin PodIds /\ rt[d]["host"] \notin {"left", "right"}
    BY DEF HostRouteKept
  <2>1. rt[d]["host"] \in {NoVal, "podGW"}
    BY DEF IInv, HostInv
  <2>. QED
    BY <2>1, ConstantsAssumption DEF PodIds
<1>. QED
  BY <1>1, <1>2, <1>3, PTL DEF Spec

(***************************************************************************)
(* No forwarding loop.                                                     *)
(***************************************************************************)
\* A table without a pod in it points nowhere.
LEMMA NoPodPointed ==
  ASSUME NEW t, \A x \in Dsts : t[x] \notin PodIds, NEW k, NEW p
  PROVE  Pointed(t, k, p)
BY GatewayFacts DEF Pointed

\* Neither side's destinations contain the default route or the host's network.
LEMMA SidesAreNets ==
  ASSUME NEW k \in Chains, NEW p, NEW x, Leftward(k, p, x) \/ Rightward(k, p, x)
  PROVE  x \in Dsts /\ x # "default" /\ x # "host"
<1>1. \A i \in 1..Len(NetsOf[k]) : NetsOf[k][i] \in Nets
  BY ConstantsAssumption
<1>2. x \in {"left", "right"} \cup Nets
  BY <1>1 DEF Leftward, Rightward
<1>. QED
  BY <1>2, ConstantsAssumption DEF Dsts

\* No destination is on both sides, as a network occurs once in a chain.
LEMMA SidesApart ==
  ASSUME ChainsApart, NEW k \in Chains, NEW p \in 1..Len(DepsOf[k]), NEW x
  PROVE  ~(Leftward(k, p, x) /\ Rightward(k, p, x))
<1>. SUFFICES ASSUME Leftward(k, p, x), Rightward(k, p, x) PROVE FALSE
  OBVIOUS
<1>1. \A i \in 1..Len(NetsOf[k]) : NetsOf[k][i] \in Nets
  BY ConstantsAssumption
<1>2. x # "left" /\ x # "right"
  BY <1>1, ConstantsAssumption DEF Leftward, Rightward
<1>3. PICK i \in 1..Len(NetsOf[k]) : i < p - 1 /\ x = NetsOf[k][i]
  BY <1>2 DEF Leftward
<1>4. PICK j \in 1..Len(NetsOf[k]) : j > p /\ x = NetsOf[k][j]
  BY <1>2 DEF Rightward
<1>5. i = j
  BY <1>3, <1>4 DEF ChainsApart
<1>. QED
  BY <1>3, <1>4, <1>5

\* ContainerAddRoute with the routes of a pod's place, or with the first of them only,
\* leaves a table that points to the sides.
LEMMA StillPointed ==
  ASSUME NEW k \in Chains, NEW p \in 1..Len(DepsOf[k]), NEW l \in Gateways, NEW r \in Gateways,
         OnLeft(k, p, l), OnRight(k, p, r), NEW t \in Tables, Pointed(t, k, p),
         t["host"] = NoVal => t["default"] \notin PodIds,
         NEW i \in 0..Len(ChainRoutes(k, p, l, r))
  PROVE  Pointed(ContainerAddRoute(t, SubSeq(ChainRoutes(k, p, l, r), 1, i)), k, p)
<1>. DEFINE full == ChainRoutes(k, p, l, r)
            rs == SubSeq(full, 1, i)
            u == ContainerAddRoute(t, rs)
            n == Len(full)
<1>1. /\ full \in Seq(Routes) /\ n > 2
      /\ full[n] = [dst |-> "default", gw |-> r]
      /\ \A j \in 1..n - 1 : Sided(k, p, l, r, full[j])
      /\ \A x : Leftward(k, p, x) \/ Rightward(k, p, x) => \E j \in 1..n : full[j].dst = x
  <2>1. ForPlace(k, p, l, r, full)
    BY ChainRoutesFacts
  <2>. HIDE DEF full
  <2>. QED
    BY <2>1 DEF ForPlace
<1>. HIDE DEF full
<1>2. n \in Nat /\ i \in 0..n
  BY <1>1 DEF full
<1>3. rs \in Seq(Routes) /\ Len(rs) = i /\ \A j \in 1..i : rs[j] = full[j]
  BY <1>1, <1>2
<1>. HIDE DEF rs, n
<1>4. u \in Tables /\ Changed(t, rs, i, u) /\ Covered(t, rs, i, u)
  BY <1>3, ContainerRoutes
<1>. HIDE DEF u
<1>5. ASSUME NEW j \in 1..i
      PROVE  j \in 1..n /\ (j \in 1..n - 1 \/ (j = n /\ i = n))
  BY <1>2
<1>6. ASSUME NEW x \in Dsts, u[x] \in PodIds
      PROVE  \/ Leftward(k, p, x) /\ OnLeft(k, p, u[x])
             \/ (Rightward(k, p, x) \/ x = "default") /\ OnRight(k, p, u[x])
  <2>1. CASE u[x] = t[x]
    BY <1>6, <2>1 DEF Pointed
  <2>2. CASE x = "host" /\ u[x] # t[x]
    <3>1. u[x] = t["default"] /\ t["host"] = NoVal
      BY <1>4, <2>2 DEF Covered
    <3>. QED
      BY <1>6, <3>1
  <2>3. ASSUME NEW j \in 1..i, rs[j].dst = x, rs[j].gw = u[x]
        PROVE  \/ Leftward(k, p, x) /\ OnLeft(k, p, u[x])
               \/ (Rightward(k, p, x) \/ x = "default") /\ OnRight(k, p, u[x])
    <3>1. full[j].dst = x /\ full[j].gw = u[x]
      BY <1>3, <2>3
    <3>2. CASE j \in 1..n - 1
      BY <1>1, <3>1, <3>2 DEF Sided
    <3>3. CASE j = n
      <4>1. x = "default" /\ u[x] = r
        BY <1>1, <3>1, <3>3
      <4>. QED
        BY <4>1
    <3>. QED
      BY <1>5, <3>2, <3>3
  <2>. QED
    BY <1>4, <2>1, <2>2, <2>3 DEF Changed
<1>7. ASSUME u["default"] \in PodIds, NEW x \in Dsts, Leftward(k, p, x) \/ Rightward(k, p, x)
      PROVE  u[x] # NoVal
  <2>1. CASE u["default"] = t["default"]
    BY <1>4, <1>7, <2>1 DEF Pointed, Covered
  <2>2. ASSUME NEW j \in 1..i, rs[j].dst = "default" PROVE u[x] # NoVal
    <3>1. full[j].dst = "default"
      BY <1>3, <2>2
    <3>2. j \notin 1..n - 1
      <4>1. Leftward(k, p, "default") \/ Rightward(k, p, "default") => FALSE
        BY SidesAreNets
      <4>. QED
        BY <1>1, <3>1, <4>1 DEF Sided
    <3>3. i = n
      BY <1>5, <3>2
    <3>4. PICK q \in 1..n : full[q].dst = x
      BY <1>1, <1>7
    <3>5. rs[q].dst = x
      BY <1>3, <3>3, <3>4
    <3>. QED
      BY <1>4, <3>3, <3>5 DEF Covered
  <2>3. "default" # "host" /\ "default" \in Dsts
    BY GatewayFacts
  <2>. QED
    BY <1>4, <2>1, <2>2, <2>3 DEF Changed
<1>8. Pointed(u, k, p)
  BY <1>6, <1>7 DEF Pointed
<1>. QED
  BY <1>8 DEF u, rs, full

\* Lists of messages.
LEMMA AllPlacedOps ==
  ASSUME NEW s \in Seq(Infos), AllPlaced(s)
  PROVE  /\ AllPlaced(<<>>)
         /\ \A m \in Infos : Placed(m) => AllPlaced(Append(s, m))
         /\ s # <<>> => Placed(Head(s)) /\ AllPlaced(Tail(s))
<1>1. AllPlaced(<<>>)
  BY DEF AllPlaced
<1>2. ASSUME NEW m \in Infos, Placed(m) PROVE AllPlaced(Append(s, m))
  <2>. SUFFICES ASSUME NEW i \in 1..Len(Append(s, m)) PROVE Placed(Append(s, m)[i])
    BY DEF AllPlaced
  <2>1. CASE i = Len(s) + 1
    <3>1. Append(s, m)[i] = m
      BY <2>1
    <3>. QED
      BY <1>2, <3>1
  <2>2. CASE i # Len(s) + 1
    <3>1. i \in 1..Len(s) /\ Append(s, m)[i] = s[i]
      BY <2>2
    <3>. QED
      BY <3>1 DEF AllPlaced
  <2>. QED
    BY <2>1, <2>2
<1>3. ASSUME s # <<>> PROVE Placed(Head(s)) /\ AllPlaced(Tail(s))
  <2>1. 1 \in 1..Len(s) /\ Head(s) = s[1]
    BY <1>3
  <2>2. ASSUME NEW i \in 1..Len(Tail(s)) PROVE Placed(Tail(s)[i])
    <3>1. i + 1 \in 1..Len(s) /\ Tail(s)[i] = s[i + 1]
      BY <1>3
    <3>. QED
      BY <3>1 DEF AllPlaced
  <2>. QED
    BY <2>1, <2>2 DEF AllPlaced
<1>. QED
  BY <1>1, <1>2, <1>3

\* With labels that are apart, the next hops are the neighbours in the chain.
LEMMA HopsNeighbours ==
  ASSUME ChainsApart, PodInv, WorkerInv, pc = "calculate",
         NEW l \in LeftHops, NEW r \in RightHops, NoVal \notin {l, r}
  PROVE  OnLeft(req, pos, l) /\ OnRight(req, pos, r)
<1>1. req \in Chains /\ pos \in 1..Len(deps) /\ Len(deps) \in Nat
  BY ConstantsAssumption DEF WorkerInv, deps
<1>2. OnLeft(req, pos, l)
  <2>1. CASE pos = 1
    BY <2>1, GatewayFacts DEF LeftHops, OnLeft
  <2>2. CASE pos # 1
    <3>1. pos - 1 \in 1..Len(deps) - 1 /\ pos > 1
      BY <1>1, <2>2
    <3>2. <<deps[pos - 1], l[1]>> \in Contains
      BY <1>1, <2>2, <3>1, AddressType DEF LeftHops
    <3>3. l[1] = deps[pos - 1]
      BY <3>2 DEF ChainsApart
    <3>. QED
      BY <3>1, <3>3 DEF OnLeft, deps
  <2>. QED
    BY <2>1, <2>2
<1>3. OnRight(req, pos, r)
  <2>1. CASE pos = Len(deps)
    BY <2>1, GatewayFacts DEF RightHops, OnRight
  <2>2. CASE pos # Len(deps)
    <3>1. pos \in 1..Len(deps) - 1 /\ pos < Len(deps)
      BY <1>1, <2>2
    <3>2. <<deps[pos + 1], r[1]>> \in Contains
      BY <1>1, <2>2, <3>1, AddressType DEF RightHops
    <3>3. r[1] = deps[pos + 1]
      BY <3>2 DEF ChainsApart
    <3>. QED
      BY <3>1, <3>3 DEF OnRight, deps
  <2>. QED
    BY <2>1, <2>2
<1>. QED
  BY <1>2, <1>3

\* CalculateRoutes makes messages for the pods' places.
LEMMA CalculateMessages ==
  ASSUME ChainsApart, IInv, MessageInv, CalculateRoutes PROVE MessageInv' /\ UNCHANGED rt
<1>1. KubeInv /\ WorkerInv /\ PodInv /\ NetInv /\ CountInv
  BY Parts
<1>2. pc = "calculate" /\ req \in Chains /\ info \in Seq(Infos)
  BY <1>1, CalculateCases DEF WorkerInv
<1>3. CASE Die
  <2>1. UNCHANGED rt
    BY <1>3 DEF Die, podVars
  <2>2. AllPlaced(<<>>)
    BY DEF AllPlaced
  <2>. QED
    BY <1>3, <2>1, <2>2 DEF Die, MessageInv
<1>4. CASE Retry /\ UNCHANGED <<kubeVars, info, podVars, netVars, missed>>
  BY <1>4 DEF MessageInv, netVars, podVars
<1>5. ASSUME UNCHANGED <<kubeVars, podVars, netVars, missed>>,
             NEW l \in LeftHops, NEW r \in RightHops, NEW b \in BOOLEAN, NoVal \notin {l, r},
             info' = Append(info, [pod |-> Pod(deps[pos]), id |-> b,
                                   routes |-> DeploymentRoutes(pos, l, r)])
      PROVE  MessageInv' /\ UNCHANGED rt
  <2>. DEFINE m == [pod |-> Pod(deps[pos]), id |-> b, routes |-> DeploymentRoutes(pos, l, r)]
              rs == DeploymentRoutes(pos, l, r)
  <2>1. l \in Gateways /\ r \in Gateways
    BY <1>1, <1>2, <1>5, HopsType
  <2>2. rs = ChainRoutes(req, pos, l, r)
    BY DEF DeploymentRoutes, DynamicRoutes, ChainRoutes, nets
  <2>3. pos \in 1..Len(DepsOf[req])
    BY <1>1, <1>2 DEF WorkerInv, deps
  <2>4. OnLeft(req, pos, l) /\ OnRight(req, pos, r)
    BY <1>1, <1>2, <1>5, HopsNeighbours
  <2>5. ForPlace(req, pos, l, r, rs)
    BY <1>2, <2>1, <2>2, <2>3, ChainRoutesFacts
  <2>6. m.routes = rs /\ m.pod = Pod(deps[pos]) /\ info' = Append(info, m)
    BY <1>5
  <2>. HIDE DEF m, rs
  <2>7. Len(rs) > 2 /\ rs[1].gw = l /\ rs[2].gw = r /\ rs \in Seq(Routes)
    BY <2>5 DEF ForPlace
  <2>8. Pod(deps[pos])[1] = DepsOf[req][pos]
    BY DEF Pod, deps
  <2>9. Placed(m)
    BY <1>2, <2>2, <2>3, <2>4, <2>6, <2>7, <2>8 DEF Placed, At
  <2>10. m \in Infos
    <3>1. deps[pos] \in Deps
      BY <1>2, <2>3, ConstantsAssumption DEF deps
    <3>2. Pod(deps[pos]) \in PodIds
      BY <1>1, <3>1 DEF Pod, PodIds, PodInv
    <3>. QED
      BY <2>7, <3>2 DEF Infos, m, rs
  <2>11. AllPlaced(info')
    BY <1>2, <2>6, <2>9, <2>10, AllPlacedOps DEF MessageInv
  <2>. QED
    BY <1>5, <2>11 DEF MessageInv, netVars, podVars
<1>. QED
  BY <1>3, <1>4, <1>5, CalculateCases

\* SendRouteNotif passes them on.
LEMMA SendMessages ==
  ASSUME IInv, MessageInv, SendRouteNotif PROVE MessageInv' /\ UNCHANGED rt
<1>1. WorkerInv /\ chan \in [Nodes -> Seq(Infos)]
  BY Parts DEF NetInv
<1>. DEFINE m == info[sent + 1]
            n == NodeOf[m.pod[1]]
<1>2. m \in Infos /\ Placed(m)
  <2>1. sent + 1 \in 1..Len(info) /\ m \in Infos
    BY <1>1, SendEntry
  <2>. QED
    BY <2>1 DEF MessageInv, AllPlaced
<1>3. info' = info /\ rt' = rt /\ SendStream(n, m)
  BY SendCases DEF SendFrame, podVars
<1>. HIDE DEF m, n
<1>4. \A x \in Nodes : chan'[x] \in {chan[x], Append(chan[x], m)} /\ chan[x] \in Seq(Infos)
  BY <1>1, <1>3 DEF SendStream
<1>5. ASSUME NEW x \in Nodes PROVE AllPlaced(chan'[x])
  BY <1>2, <1>4, AllPlacedOps DEF MessageInv
<1>. QED
  BY <1>3, <1>5 DEF MessageInv

\* HandleRoutes takes one and leaves the container's table pointed to the sides.
LEMMA HandleMessages ==
  ASSUME ChainsApart, IInv, LoopInv, NEW n \in Nodes, HandleRoutes(n) PROVE LoopInv'
<1>1. KubeInv /\ WorkerInv /\ PodInv /\ NetInv /\ CountInv
  BY Parts
<1>. DEFINE m == Head(chan[n])
            d == m.pod[1]
<1>2. chan[n] \in Seq(Infos) /\ chan[n] # <<>> /\ m \in Infos /\ Placed(m) /\ AllPlaced(Tail(chan[n]))
  <2>1. chan[n] \in Seq(Infos) /\ chan[n] # <<>> /\ m \in Infos
    BY <1>1, HandleCases
  <2>. QED
    BY <2>1, AllPlacedOps DEF LoopInv, MessageInv
<1>3. MessageInv'
  <2>1. chan' = [chan EXCEPT ![n] = Tail(chan[n])] /\ info' = info
    BY <1>1, HandleCases
  <2>2. ASSUME NEW x \in Nodes PROVE AllPlaced(chan'[x])
    <3>1. chan'[x] = IF x = n THEN Tail(chan[n]) ELSE chan[x]
      BY <1>1, <2>1 DEF NetInv
    <3>. QED
      BY <1>2, <3>1 DEF LoopInv, MessageInv
  <2>. QED
    BY <2>1, <2>2 DEF LoopInv, MessageInv
<1>. HIDE DEF m
<1>4. m.pod \in PodIds /\ d \in Deps /\ m.routes \in Seq(Routes)
  BY <1>2 DEF Infos, PodIds
<1>5. ASSUME Running(m.pod), NEW i \in 0..Len(m.routes),
             rt' = [rt EXCEPT ![d] = ContainerAddRoute(@, SubSeq(m.routes, 1, i))]
      PROVE  \A e \in Deps : RouteInv(e)'
  <2>. DEFINE t == rt[d]
              l == m.routes[1].gw
              r == m.routes[2].gw
              u == ContainerAddRoute(t, SubSeq(m.routes, 1, i))
  <2>0. PICK k \in Chains : \E p \in 1..Len(DepsOf[k]) :
           /\ At(d, k, p) /\ OnLeft(k, p, l) /\ OnRight(k, p, r)
           /\ m.routes = ChainRoutes(k, p, l, r)
    BY <1>2 DEF Placed
  <2>1. PICK p \in 1..Len(DepsOf[k]) :
           /\ At(d, k, p) /\ OnLeft(k, p, l) /\ OnRight(k, p, r)
           /\ m.routes = ChainRoutes(k, p, l, r)
    BY <2>0
  <2>2. l \in Gateways /\ r \in Gateways
    <3>1. 1 \in 1..Len(m.routes) /\ 2 \in 1..Len(m.routes)
      BY <1>2, <1>4 DEF Placed
    <3>2. m.routes[1] \in Routes /\ m.routes[2] \in Routes
      BY <1>4, <3>1
    <3>. QED
      BY <3>2 DEF Routes
  <2>3. t \in Tables
    BY <1>1, <1>4 DEF PodInv
  <2>4. t["host"] = NoVal => t["default"] \notin PodIds
    <3>1. HostInv(d) /\ pods[d].phase = "running"
      BY <1>1, <1>4, <1>5 DEF PodInv, Running
    <3>. QED
      BY <3>1, GatewayFacts DEF HostInv
  <2>5. Pointed(t, k, p)
    <3>1. RouteInv(d)
      BY <1>4 DEF LoopInv
    <3>. QED
      BY <2>1, <3>1 DEF RouteInv
  <2>6. Pointed(u, k, p)
    <3>. HIDE DEF t, l, r
    <3>1. i \in 0..Len(ChainRoutes(k, p, l, r)) /\ m.routes = ChainRoutes(k, p, l, r)
      BY <2>1
    <3>. QED
      BY <2>1, <2>2, <2>3, <2>4, <2>5, <3>1, StillPointed
  <2>7. ASSUME NEW e \in Deps PROVE RouteInv(e)'
    <3>. HIDE DEF u
    <3>1. rt' = [rt EXCEPT ![d] = u]
      BY <1>5 DEF u
    <3>2. CASE e = d
      <4>1. rt'[e] = u
        BY <1>1, <1>4, <3>1, <3>2 DEF PodInv
      <4>2. ASSUME NEW c \in Chains, NEW q \in 1..Len(DepsOf[c]), At(e, c, q) PROVE c = k /\ q = p
        <5>1. DepsOf[c][q] = DepsOf[k][p]
          BY <2>1, <3>2, <4>2 DEF At
        <5>2. \A a, b \in Chains : \A x \in 1..Len(DepsOf[a]), y \in 1..Len(DepsOf[b]) :
                DepsOf[a][x] = DepsOf[b][y] => a = b /\ x = y
          BY DEF ChainsApart
        <5>. QED
          BY <5>1, <5>2
      <4>. QED
        BY <2>1, <2>6, <3>2, <4>1, <4>2 DEF RouteInv
    <3>3. CASE e # d
      <4>1. rt'[e] = rt[e]
        BY <1>1, <1>4, <3>1, <3>3 DEF PodInv
      <4>. QED
        BY <4>1 DEF LoopInv, RouteInv
    <3>. QED
      BY <3>2, <3>3
  <2>. QED
    BY <2>7
<1>6. CASE UNCHANGED rt
  BY <1>3, <1>6 DEF LoopInv, RouteInv
<1>. QED
  BY <1>1, <1>3, <1>5, <1>6, HandleCases DEF LoopInv, m

\* Routes, messages and chainRoutingInfo stay as they are.
LEMMA LoopFrame == ASSUME LoopInv, UNCHANGED <<info, chan, rt>> PROVE LoopInv'
BY DEF LoopInv, MessageInv, RouteInv

\* A pod starts or is lost.
LEMMA PodLoopInv ==
  ASSUME IInv, LoopInv, NEW d \in Deps, PodStep(d) \/ PodGone(d) PROVE LoopInv'
<1>1. PodInv
  BY Parts
<1>2. UNCHANGED <<info, chan>>
  BY DEF PodStep, PodGone, netVars
<1>3. PICK t \in Tables : /\ rt' = [rt EXCEPT ![d] = t]
                          /\ t = rt[d] \/ \A x \in Dsts : t[x] \notin PodIds
  <2>1. \A x \in Dsts : /\ NoRoutes[x] \notin PodIds
                        /\ [NoRoutes EXCEPT !["default"] = "podGW"][x] \notin PodIds
    BY NoRoutesFacts, ConstantsAssumption DEF PodIds
  <2>2. CASE PodStep(d)
    <3>1. PICK t \in Tables : /\ rt' = [rt EXCEPT ![d] = t]
                              /\ t = rt[d] \/ t = [NoRoutes EXCEPT !["default"] = "podGW"]
      BY <1>1, <2>2, PodStepCases
    <3>. QED
      BY <2>1, <3>1
  <2>3. CASE PodGone(d)
    BY <1>1, <2>1, <2>3, PodGoneCases, NoRoutesFacts
  <2>. QED
    BY <2>2, <2>3
<1>4. ASSUME NEW e \in Deps PROVE RouteInv(e)'
  <2>0. RouteInv(e)
    BY DEF LoopInv
  <2>1. rt'[e] = IF e = d THEN t ELSE rt[e]
    BY <1>1, <1>3 DEF PodInv
  <2>2. CASE rt'[e] = rt[e]
    BY <2>0, <2>2 DEF RouteInv
  <2>3. CASE \A x \in Dsts : rt'[e][x] \notin PodIds
    BY <2>3, NoPodPointed DEF RouteInv
  <2>. QED
    BY <1>3, <2>1, <2>2, <2>3
<1>. QED
  BY <1>2, <1>4 DEF LoopInv, MessageInv

\* Every step keeps the messages and the tables pointed.
LEMMA LoopStep == ASSUME ChainsApart PROVE IInv /\ LoopInv /\ [Next]_vars => LoopInv'
<1>. SUFFICES ASSUME IInv, LoopInv, [Next]_vars PROVE LoopInv'
  OBVIOUS
<1>0. AllPlaced(<<>>) /\ NetInv
  BY Parts DEF AllPlaced
<1>1. CASE UNCHANGED vars
  BY <1>1, LoopFrame DEF vars, netVars, podVars
<1>2. ASSUME NEW k \in Chains,
             UserCreate(k) \/ UserEdit(k) \/ UserDelete(k) \/ Deliver(k) \/ Resync(k) \/ Reconcile(k)
      PROVE  LoopInv'
  <2>1. UNCHANGED <<info, chan, rt>>
    BY <1>2 DEF UserCreate, UserEdit, UserDelete, UserStep, Deliver, Resync, Reconcile, netVars, podVars
  <2>. QED
    BY <2>1, LoopFrame
<1>3. CASE AddFinalizer \/ UpdateStatus \/ RemoveFinalizer
  <2>1. UNCHANGED <<info, chan, rt>>
    BY <1>3 DEF AddFinalizer, UpdateStatus, RemoveFinalizer, netVars, podVars
  <2>. QED
    BY <2>1, LoopFrame
<1>4. CASE CalculateRoutes \/ SendRouteNotif
  <2>1. MessageInv' /\ UNCHANGED rt
    BY <1>4, CalculateMessages, SendMessages DEF LoopInv
  <2>. QED
    BY <2>1 DEF LoopInv, RouteInv
<1>5. ASSUME NEW d \in Deps, PodStep(d) \/ PodGone(d) PROVE LoopInv'
  BY <1>5, PodLoopInv
<1>6. ASSUME NEW n \in Nodes, AgentSubscribe(n) PROVE LoopInv'
  BY <1>6, LoopFrame DEF AgentSubscribe, podVars
<1>7. ASSUME NEW n \in Nodes, AgentDie(n) PROVE LoopInv'
  <2>1. UNCHANGED <<info, rt>> /\ chan' = [chan EXCEPT ![n] = <<>>]
    BY <1>7 DEF AgentDie, podVars
  <2>2. \A x \in Nodes : AllPlaced(chan'[x])
    BY <1>0, <2>1 DEF LoopInv, MessageInv, NetInv
  <2>. QED
    BY <2>1, <2>2 DEF LoopInv, MessageInv, RouteInv
<1>8. ASSUME NEW n \in Nodes, HandleRoutes(n) PROVE LoopInv'
  BY <1>8, HandleMessages
<1>9. CASE Crash
  <2>1. UNCHANGED rt /\ info' = <<>> /\ chan' = [n \in Nodes |-> <<>>]
    BY <1>9 DEF Crash, Die, podVars
  <2>. QED
    BY <1>0, <2>1 DEF LoopInv, MessageInv, RouteInv
<1>. QED
  BY <1>1, <1>2, <1>3, <1>4, <1>5, <1>6, <1>7, <1>8, <1>9 DEF Next, WorkerStep

\* A pod that passes a packet for x on is in a chain.
LEMMA MoverHasPlace ==
  ASSUME LoopInv, NEW d \in Deps, NEW x \in {"left", "right"} \cup Nets, NextHop(d, x) # d
  PROVE  \E k \in Chains : \E p \in 1..Len(DepsOf[k]) : At(d, k, p)
<1>1. \E y \in Dsts : rt[d][y] \in PodIds
  BY GatewayFacts DEF NextHop
<1>2. RouteInv(d)
  BY DEF LoopInv
<1>. QED
  BY <1>1, <1>2 DEF RouteInv

\* It passes it on to its left neighbour when x is on the left, else to the right one.
LEMMA MoverSide ==
  ASSUME ChainsApart, LoopInv, NEW k \in Chains, NEW p \in 1..Len(DepsOf[k]),
         NEW x \in {"left", "right"} \cup Nets, NEW d \in Deps, d = DepsOf[k][p], NextHop(d, x) # d
  PROVE  /\ <<d, x>> \notin Attached
         /\ Leftward(k, p, x) => p > 1 /\ NextHop(d, x) = DepsOf[k][p - 1]
         /\ ~Leftward(k, p, x) => p < Len(DepsOf[k]) /\ NextHop(d, x) = DepsOf[k][p + 1]
<1>. DEFINE t == rt[d]
            g == IF t[x] = NoVal THEN t["default"] ELSE t[x]
<1>1. <<d, x>> \notin Attached /\ g \in PodIds /\ NextHop(d, x) = g[1]
  BY DEF NextHop
<1>2. Pointed(t, k, p)
  <2>1. RouteInv(d)
    BY DEF LoopInv
  <2>. QED
    BY <2>1 DEF RouteInv, At
<1>3. x \in Dsts /\ x # "default" /\ "default" \in Dsts /\ NoVal \notin PodIds
  BY ConstantsAssumption DEF Dsts, PodIds
<1>4. ~(Leftward(k, p, x) /\ Rightward(k, p, x))
  BY SidesApart
<1>. HIDE DEF t
<1>5. CASE t[x] = NoVal
  <2>1. ~Leftward(k, p, x) /\ ~Rightward(k, p, x) /\ g = t["default"]
    BY <1>1, <1>2, <1>3, <1>5 DEF Pointed
  <2>2. ~Leftward(k, p, "default")
    BY SidesAreNets
  <2>3. OnRight(k, p, g)
    BY <1>1, <1>2, <1>3, <2>1, <2>2 DEF Pointed
  <2>. QED
    BY <1>1, <2>1, <2>3 DEF OnRight
<1>6. CASE t[x] # NoVal
  <2>1. g = t[x]
    BY <1>6
  <2>2. (Leftward(k, p, x) /\ OnLeft(k, p, g)) \/ (Rightward(k, p, x) /\ OnRight(k, p, g))
    BY <1>1, <1>2, <1>3, <2>1 DEF Pointed
  <2>. HIDE DEF g
  <2>. QED
    BY <1>1, <1>4, <2>2 DEF OnLeft, OnRight
<1>. QED
  BY <1>5, <1>6

\* What is not on the left of a pod that passes it on is not on the left of the next.
LEMMA StillRight ==
  ASSUME NEW k \in Chains, NEW p \in 1..Len(DepsOf[k]), p < Len(DepsOf[k]), NEW x,
         <<DepsOf[k][p], x>> \notin Attached, ~Leftward(k, p, x)
  PROVE  ~Leftward(k, p + 1, x)
<1>. SUFFICES ASSUME Leftward(k, p + 1, x) PROVE FALSE
  OBVIOUS
<1>1. x # "left"
  BY DEF Leftward
<1>2. PICK i \in 1..Len(NetsOf[k]) : i < (p + 1) - 1 /\ x = NetsOf[k][i]
  BY <1>1 DEF Leftward
<1>3. i \in Nat /\ p \in Nat /\ ~(i < p - 1) /\ Len(DepsOf[k]) \in Nat
  BY <1>2, ConstantsAssumption DEF Leftward
<1>4. i = p - 1 /\ i \in 1..Len(DepsOf[k]) - 1 /\ i + 1 = p
  BY <1>2, <1>3
<1>5. DepsOf[k][p] \in Deps /\ x \in Nets
  BY <1>2, ConstantsAssumption
<1>6. DepsOf[k][p] \in Ends(k, i)
  BY <1>4 DEF Ends
<1>7. <<DepsOf[k][p], x>> \in Attached
  BY <1>2, <1>4, <1>5, <1>6 DEF Attached
<1>. QED
  BY <1>7

\* Of the pods of a set that pass a packet on, the rightmost that sends it to the
\* right, or, if none does, the leftmost, sends it out of the set.
LEMMA NoLoop ==
  ASSUME ChainsApart, LoopInv, NEW x \in {"left", "right"} \cup Nets,
         NEW S \in SUBSET {d \in Deps : NextHop(d, x) # d}, S # {}
  PROVE  \E d \in S : NextHop(d, x) \notin S
<1>1. PICK d0 \in S : TRUE
  OBVIOUS
<1>2. PICK k \in Chains : \E p \in 1..Len(DepsOf[k]) : At(d0, k, p)
  BY <1>1, MoverHasPlace
<1>. DEFINE num == Len(DepsOf[k])
            dep(q) == DepsOf[k][q]
            R == {q \in 1..num : dep(q) \in S}
            Q == {q \in R : ~Leftward(k, q, x)}
<1>3. num \in Nat /\ R # {}
  BY <1>1, <1>2, ConstantsAssumption DEF At
<1>4. ASSUME NEW q \in R
      PROVE  /\ q \in 1..num /\ dep(q) \in S /\ <<dep(q), x>> \notin Attached
             /\ Leftward(k, q, x) => q > 1 /\ NextHop(dep(q), x) = dep(q - 1)
             /\ ~Leftward(k, q, x) => q < num /\ NextHop(dep(q), x) = dep(q + 1)
  BY MoverSide
<1>5. CASE Q = {}
  <2>1. R \in SUBSET Nat
    BY <1>3
  <2>2. PICK q \in R : \A y \in R : q <= y
    <3>. HIDE DEF R
    <3>. QED
      BY <1>3, <2>1, Least
  <2>3. q > 1 /\ NextHop(dep(q), x) = dep(q - 1) /\ q \in 1..num /\ dep(q) \in S
    BY <1>4, <1>5
  <2>4. q - 1 \in 1..num /\ ~(q <= q - 1)
    BY <1>3, <2>3
  <2>5. dep(q - 1) \notin S
    BY <2>2, <2>4
  <2>. QED
    BY <2>3, <2>5
<1>6. CASE Q # {}
  <2>. DEFINE T == {n \in Nat : num - n \in Q}
  <2>1. \A q \in Q : q \in 1..num /\ num - q \in Nat /\ num - (num - q) = q
    BY <1>3
  <2>2. T # {} /\ T \in SUBSET Nat
    <3>. HIDE DEF Q
    <3>. QED
      BY <1>6, <2>1
  <2>3. PICK n \in T : \A y \in T : n <= y
    <3>. HIDE DEF T
    <3>. QED
      BY <2>2, Least
  <2>. DEFINE q == num - n
  <2>4. q \in Q /\ n \in Nat
    BY <2>3
  <2>5. q \in R /\ ~Leftward(k, q, x)
    BY <2>4
  <2>6. /\ q \in 1..num /\ q < num /\ NextHop(dep(q), x) = dep(q + 1) /\ dep(q) \in S
        /\ <<dep(q), x>> \notin Attached
    <3>. HIDE DEF q, R, Q
    <3>. QED
      BY <1>4, <2>5
  <2>7. ~Leftward(k, q + 1, x)
    <3>. HIDE DEF q
    <3>. QED
      BY <2>5, <2>6, StillRight
  <2>8. q + 1 \notin Q
    <3>0. num \in Nat /\ n \in Nat /\ num - n < num
      BY <1>3, <2>4, <2>6
    <3>1. num - (n - 1) = q + 1 /\ n - 1 \in Nat /\ ~(n <= n - 1)
      <4>. HIDE DEF num
      <4>. QED
        BY <3>0
    <3>2. n - 1 \notin T
      <4>. HIDE DEF T
      <4>. QED
        BY <2>3, <3>1
    <3>. HIDE DEF Q, q
    <3>. QED
      BY <3>1, <3>2
  <2>9. q + 1 \in 1..num
    BY <1>3, <2>6
  <2>10. dep(q + 1) \notin S
    BY <2>7, <2>8, <2>9
  <2>. QED
    BY <2>6, <2>10
<1>. QED
  BY <1>5, <1>6

\* Initially there are no messages, and no route leads to a pod.
LEMMA LoopInit == Init => LoopInv
<1>. SUFFICES ASSUME Init PROVE LoopInv
  OBVIOUS
<1>1. MessageInv
  BY DEF Init, MessageInv, AllPlaced
<1>2. ASSUME NEW d \in Deps PROVE RouteInv(d)
  <2>1. \A x \in Dsts : rt[d][x] \notin PodIds
    BY NoRoutesFacts, ConstantsAssumption DEF Init, PodIds
  <2>. QED
    BY <2>1, NoPodPointed DEF RouteInv
<1>. QED
  BY <1>1, <1>2 DEF LoopInv

\* calculateDeploymentRoutes and ContainerAddRoute: whatever routes are installed, not
\* yet, half way or again, no packet goes round in circles, for chains of any number
\* and length that share no deployment.
THEOREM NoForwardingLoopHolds ==
  ASSUME ChainsApart PROVE Spec => []NoForwardingLoop
<1>1. Init => IInv /\ LoopInv
  BY InitInv, LoopInit
<1>2. IInv /\ LoopInv /\ [Next]_vars => (IInv /\ LoopInv)'
  BY IInvStep, LoopStep
<1>3. IInv /\ LoopInv => NoForwardingLoop
  BY NoLoop DEF NoForwardingLoop
<1>. QED
  BY <1>1, <1>2, <1>3, PTL DEF Spec

(***************************************************************************)
(* A chain that is reported Created is routed.                             *)
(***************************************************************************)
\* Pod g is one that its deployment has had, by the counts of ps.
Made(ps, g) == g \in PodIds /\ 1 <= g[2] /\ g[2] <= ps[g[1]].inc

\* The next hops of a pod at position p of chain k: an edge network's gateway at the
\* end of the chain, a pod of the neighbouring deployment elsewhere.
LeftIs(ps, k, p, g) ==
  IF p = 1 THEN g = "left" ELSE Made(ps, g) /\ g[1] = DepsOf[k][p - 1]
RightIs(ps, k, p, g) ==
  IF p = Len(DepsOf[k]) THEN g = "right" ELSE Made(ps, g) /\ g[1] = DepsOf[k][p + 1]

\* Messages carry such next hops, tables hold nothing else for their destinations, a
\* container that does not run has no routes, and a pod that is there was counted.
HopsOf(ps, m) ==
  /\ Made(ps, m.pod)
  /\ \A k \in Chains : \A p \in 1..Len(DepsOf[k]) :
       At(m.pod[1], k, p) => LeftIs(ps, k, p, m.routes[1].gw) /\ RightIs(ps, k, p, m.routes[2].gw)
AllHops(ps, s) == \A i \in 1..Len(s) : HopsOf(ps, s[i])
HopsIn(ps, t, k, p) ==
  \A x \in Dsts : t[x] # NoVal => /\ Leftward(k, p, x) => LeftIs(ps, k, p, t[x])
                                  /\ Rightward(k, p, x) => RightIs(ps, k, p, t[x])
HopInv ==
  /\ AllHops(pods, info) /\ \A n \in Nodes : AllHops(pods, chan[n])
  /\ \A k \in Chains : \A p \in 1..Len(DepsOf[k]) : HopsIn(pods, rt[DepsOf[k][p]], k, p)
  /\ \A d \in Deps : pods[d].phase # "running" => rt[d]["left"] = NoVal
  /\ \A d \in Deps : pods[d].phase # "absent" => pods[d].inc > 0

\* All routes of a pod's place are there.
Complete(t, k, p) ==
  \A x \in Dsts : Leftward(k, p, x) \/ Rightward(k, p, x) => t[x] # NoVal

\* The first pod of the p-th deployment of chain k is gone, or has its routes, or a
\* message for it is on its way or was missed.
Told(k, p) ==
  LET d == DepsOf[k][p]
  IN  /\ pods[d].inc > 0
      /\ \/ pods[d].inc > 1
         \/ pods[d].phase = "absent"
         \/ <<d, 1>> \in missed \cup PodsIn(Nodes)
         \/ Complete(rt[d], k, p)

\* So it is for all deployments of a chain that some version says is Created.
Stored(k) == \E o \in {api[k], cache[k]} \cup pending[k] : o.state = "Created"
Reported(k) == Stored(k) \/ (req = k /\ cr.state = "Created")
CreatedInv ==
  \A k \in Chains : Reported(k) => \A p \in 1..Len(DepsOf[k]) : Told(k, p)

\* An entry of chainRoutingInfo that is still to be sent is for deployment d.
Listed(d) == \E i \in 1..Len(info) : i > sent /\ info[i].pod[1] = d

\* The request at hand: what it has calculated is listed until it is sent.
PassInv ==
  /\ pc = "calculate" => \A p \in 1..Len(deps) : p < pos => Listed(deps[p])
  /\ pc = "send" => \A p \in 1..Len(deps) : Told(req, p) \/ Listed(deps[p])

CarryInv == IInv /\ LoopInv /\ HopInv /\ CreatedInv /\ PassInv

\* No pod's count goes back from ps to qs.
Grows(ps, qs) ==
  /\ ps \in [Deps -> [phase: Phases, inc: Nat]] /\ qs \in [Deps -> [phase: Phases, inc: Nat]]
  /\ \A d \in Deps : ps[d].inc <= qs[d].inc

\* What messages and tables say of pods stays true.
LEMMA HopsGrow ==
  ASSUME NEW ps, NEW qs, Grows(ps, qs)
  PROVE  /\ \A m : HopsOf(ps, m) => HopsOf(qs, m)
         /\ \A s : AllHops(ps, s) => AllHops(qs, s)
         /\ \A t, k, p : HopsIn(ps, t, k, p) => HopsIn(qs, t, k, p)
<1>1. ASSUME NEW g, Made(ps, g) PROVE Made(qs, g)
  <2>1. g[1] \in Deps /\ g[2] \in Nat
    BY <1>1 DEF Made, PodIds
  <2>2. ps[g[1]].inc \in Nat /\ qs[g[1]].inc \in Nat /\ ps[g[1]].inc <= qs[g[1]].inc
    BY <2>1 DEF Grows
  <2>. QED
    BY <1>1, <2>1, <2>2 DEF Made
<1>2. \A k, p, g : LeftIs(ps, k, p, g) => LeftIs(qs, k, p, g)
  BY <1>1 DEF LeftIs
<1>3. \A k, p, g : RightIs(ps, k, p, g) => RightIs(qs, k, p, g)
  BY <1>1 DEF RightIs
<1>4. ASSUME NEW m, HopsOf(ps, m) PROVE HopsOf(qs, m)
  BY <1>1, <1>2, <1>3, <1>4 DEF HopsOf
<1>5. \A s : AllHops(ps, s) => AllHops(qs, s)
  BY <1>4 DEF AllHops
<1>6. \A t, k, p : HopsIn(ps, t, k, p) => HopsIn(qs, t, k, p)
  BY <1>2, <1>3 DEF HopsIn
<1>. QED
  BY <1>4, <1>5, <1>6

\* Lists of messages.
LEMMA AllHopsOps ==
  ASSUME NEW ps, NEW s \in Seq(Infos), AllHops(ps, s)
  PROVE  /\ AllHops(ps, <<>>)
         /\ \A m \in Infos : HopsOf(ps, m) => AllHops(ps, Append(s, m))
         /\ s # <<>> => HopsOf(ps, Head(s)) /\ AllHops(ps, Tail(s))
<1>1. AllHops(ps, <<>>)
  BY DEF AllHops
<1>2. ASSUME NEW m \in Infos, HopsOf(ps, m) PROVE AllHops(ps, Append(s, m))
  <2>. SUFFICES ASSUME NEW i \in 1..Len(Append(s, m)) PROVE HopsOf(ps, Append(s, m)[i])
    BY DEF AllHops
  <2>1. CASE i = Len(s) + 1
    <3>1. Append(s, m)[i] = m
      BY <2>1
    <3>. QED
      BY <1>2, <3>1
  <2>2. CASE i # Len(s) + 1
    <3>1. i \in 1..Len(s) /\ Append(s, m)[i] = s[i]
      BY <2>2
    <3>. QED
      BY <3>1 DEF AllHops
  <2>. QED
    BY <2>1, <2>2
<1>3. ASSUME s # <<>> PROVE HopsOf(ps, Head(s)) /\ AllHops(ps, Tail(s))
  <2>1. 1 \in 1..Len(s) /\ Head(s) = s[1]
    BY <1>3
  <2>2. ASSUME NEW i \in 1..Len(Tail(s)) PROVE HopsOf(ps, Tail(s)[i])
    <3>1. i + 1 \in 1..Len(s) /\ Tail(s)[i] = s[i + 1]
      BY <1>3
    <3>. QED
      BY <3>1 DEF AllHops
  <2>. QED
    BY <2>1, <2>2 DEF AllHops
<1>. QED
  BY <1>1, <1>2, <1>3

\* A table with no routes to a side says nothing.
LEMMA NoHops ==
  ASSUME NEW ps, NEW t, \A x \in Dsts : t[x] # NoVal => x = "default", NEW k \in Chains, NEW p
  PROVE  HopsIn(ps, t, k, p)
BY SidesAreNets DEF HopsIn

\* ContainerAddRoute with the routes of a place, or with the first of them, leaves
\* that place's next hops in the table.
LEMMA StillHops ==
  ASSUME ChainsApart,
         NEW k \in Chains, NEW p \in 1..Len(DepsOf[k]), NEW l \in Gateways, NEW r \in Gateways,
         NEW ps, LeftIs(ps, k, p, l), RightIs(ps, k, p, r), NEW t \in Tables, HopsIn(ps, t, k, p),
         NEW i \in 0..Len(ChainRoutes(k, p, l, r))
  PROVE  LET u == ContainerAddRoute(t, SubSeq(ChainRoutes(k, p, l, r), 1, i))
         IN  /\ HopsIn(ps, u, k, p)
             /\ Complete(t, k, p) \/ i = Len(ChainRoutes(k, p, l, r)) => Complete(u, k, p)
<1>. DEFINE full == ChainRoutes(k, p, l, r)
            rs == SubSeq(full, 1, i)
            u == ContainerAddRoute(t, rs)
            n == Len(full)
<1>1. /\ full \in Seq(Routes) /\ n > 2
      /\ full[n] = [dst |-> "default", gw |-> r]
      /\ \A j \in 1..n - 1 : Sided(k, p, l, r, full[j])
      /\ \A x : Leftward(k, p, x) \/ Rightward(k, p, x) => \E j \in 1..n : full[j].dst = x
  <2>1. ForPlace(k, p, l, r, full)
    BY ChainRoutesFacts
  <2>. HIDE DEF full
  <2>. QED
    BY <2>1 DEF ForPlace
<1>. HIDE DEF full
<1>2. n \in Nat /\ i \in 0..n
  BY <1>1 DEF full
<1>3. rs \in Seq(Routes) /\ Len(rs) = i /\ \A j \in 1..i : rs[j] = full[j]
  BY <1>1, <1>2
<1>. HIDE DEF rs, n
<1>4. u \in Tables /\ Changed(t, rs, i, u) /\ Covered(t, rs, i, u)
  BY <1>3, ContainerRoutes
<1>. HIDE DEF u
<1>5. ASSUME NEW x \in Dsts, Leftward(k, p, x) \/ Rightward(k, p, x), u[x] # t[x]
      PROVE  \E j \in 1..n - 1 : full[j].dst = x /\ full[j].gw = u[x]
  <2>1. x # "default" /\ x # "host"
    BY <1>5, SidesAreNets
  <2>2. PICK j \in 1..i : rs[j].dst = x /\ rs[j].gw = u[x]
    BY <1>4, <1>5, <2>1 DEF Changed
  <2>3. full[j].dst = x /\ full[j].gw = u[x]
    BY <1>3, <2>2
  <2>4. j # n
    BY <1>1, <2>1, <2>3
  <2>5. j \in 1..n - 1
    BY <1>2, <2>4
  <2>. QED
    BY <2>3, <2>5
<1>6. HopsIn(ps, u, k, p)
  <2>. SUFFICES ASSUME NEW x \in Dsts, u[x] # NoVal
                PROVE  /\ Leftward(k, p, x) => LeftIs(ps, k, p, u[x])
                       /\ Rightward(k, p, x) => RightIs(ps, k, p, u[x])
    BY DEF HopsIn
  <2>1. CASE u[x] = t[x]
    BY <2>1 DEF HopsIn
  <2>2. CASE u[x] # t[x] /\ Leftward(k, p, x)
    <3>1. PICK j \in 1..n - 1 : full[j].dst = x /\ full[j].gw = u[x]
      BY <1>5, <2>2
    <3>2. ~Rightward(k, p, x)
      BY <2>2, SidesApart
    <3>3. u[x] = l
      BY <1>1, <3>1, <3>2 DEF Sided
    <3>. QED
      BY <3>2, <3>3
  <2>3. CASE u[x] # t[x] /\ Rightward(k, p, x)
    <3>1. PICK j \in 1..n - 1 : full[j].dst = x /\ full[j].gw = u[x]
      BY <1>5, <2>3
    <3>2. ~Leftward(k, p, x)
      BY <2>3, SidesApart
    <3>3. u[x] = r
      BY <1>1, <3>1, <3>2 DEF Sided
    <3>. QED
      BY <3>2, <3>3
  <2>. QED
    BY <2>1, <2>2, <2>3
<1>7. ASSUME Complete(t, k, p) PROVE Complete(u, k, p)
  BY <1>4, <1>7 DEF Complete, Covered
<1>8. ASSUME i = n PROVE Complete(u, k, p)
  <2>. SUFFICES ASSUME NEW x \in Dsts, Leftward(k, p, x) \/ Rightward(k, p, x) PROVE u[x] # NoVal
    BY DEF Complete
  <2>1. PICK j \in 1..n : full[j].dst = x
    BY <1>1
  <2>2. rs[j].dst = x
    BY <1>3, <1>8, <2>1
  <2>. QED
    BY <1>4, <1>8, <2>2 DEF Covered
<1>. QED
  BY <1>6, <1>7, <1>8 DEF u, rs, n, full

\* Told stays true.
ToldKept == \A k \in Chains : \A p \in 1..Len(DepsOf[k]) : Told(k, p) => Told(k, p)'

\* Pods, routes and messages stay as they are.
LEMMA HopFrame == ASSUME HopInv, UNCHANGED <<pods, info, chan, rt>> PROVE HopInv'
BY DEF HopInv

\* What was told stays told when pods, routes and messages stay as they are.
LEMMA ToldFrame == ASSUME UNCHANGED <<pods, missed, chan, rt>> PROVE ToldKept
BY DEF ToldKept, Told, PodsIn

\* Deployments of a chain.
LEMMA DepType ==
  ASSUME NEW k \in Chains, NEW p \in 1..Len(DepsOf[k]) PROVE DepsOf[k][p] \in Deps
BY ConstantsAssumption

\* Messages that leave the streams are missed.
LEMMA ToldMissed ==
  ASSUME UNCHANGED <<pods, rt>>,
         missed \cup PodsIn(Nodes) \subseteq missed' \cup PodsIn(Nodes)'
  PROVE  ToldKept
<1>. SUFFICES ASSUME NEW k \in Chains, NEW p \in 1..Len(DepsOf[k]), Told(k, p) PROVE Told(k, p)'
  BY DEF ToldKept
<1>. DEFINE d == DepsOf[k][p]
<1>1. CASE <<d, 1>> \in missed \cup PodsIn(Nodes)
  <2>1. <<d, 1>> \in missed' \cup PodsIn(Nodes)'
    BY <1>1
  <2>. QED
    BY <2>1 DEF Told
<1>2. CASE pods[d].inc > 1 \/ pods[d].phase = "absent" \/ Complete(rt[d], k, p)
  BY <1>2 DEF Told
<1>. QED
  BY <1>1, <1>2 DEF Told

\* The pods of streams.
LEMMA InStreams ==
  ASSUME NEW q
  PROVE  /\ q \in PodsIn(Nodes) <=> \E n \in Nodes : \E i \in 1..Len(chan[n]) : chan[n][i].pod = q
         /\ q \in PodsIn(Nodes)' <=> \E n \in Nodes : \E i \in 1..Len(chan'[n]) : chan'[n][i].pod = q
BY DEF PodsIn

\* A pod starts or is lost.
LEMMA PodHops ==
  ASSUME IInv, HopInv, NEW d \in Deps, PodStep(d) \/ PodGone(d) PROVE HopInv' /\ ToldKept
<1>0. PodInv
  BY Parts
<1>1. UNCHANGED <<info, chan, missed>>
  BY DEF PodStep, PodGone, netVars
<1>2. PICK q \in [phase: Phases, inc: Nat], t \in Tables :
         /\ pods' = [pods EXCEPT ![d] = q] /\ rt' = [rt EXCEPT ![d] = t]
         /\ \/ t = rt[d] /\ q.phase # "running" /\ pods[d].phase # "running"
            \/ \A x \in Dsts : t[x] # NoVal => x = "default"
         /\ \/ pods[d].phase = "absent" /\ q.inc = pods[d].inc + 1
            \/ pods[d].phase \in {"pending", "starting"} /\ q.inc = pods[d].inc
            \/ q.phase = "absent" /\ q.inc = pods[d].inc
  <2>1. CASE PodStep(d)
    <3>1. PICK q \in [phase: Phases, inc: Nat], t \in Tables :
             /\ pods' = [pods EXCEPT ![d] = q] /\ rt' = [rt EXCEPT ![d] = t]
             /\ \/ t = rt[d] /\ q.phase # "running" /\ pods[d].phase # "running"
                \/ t = [NoRoutes EXCEPT !["default"] = "podGW"]
             /\ \/ pods[d].phase = "absent" /\ q.inc = pods[d].inc + 1
                \/ pods[d].phase \in {"pending", "starting"} /\ q.inc = pods[d].inc
      BY <1>0, <2>1, PodStepCases
    <3>2. \/ t = rt[d] /\ q.phase # "running" /\ pods[d].phase # "running"
          \/ \A x \in Dsts : t[x] # NoVal => x = "default"
      <4>1. CASE t = [NoRoutes EXCEPT !["default"] = "podGW"]
        <5>1. \A x \in Dsts : t[x] = IF x = "default" THEN "podGW" ELSE NoVal
          BY <4>1, NoRoutesFacts
        <5>. QED
          BY <5>1
      <4>. QED
        BY <3>1, <4>1
    <3>. QED
      BY <3>1, <3>2
  <2>2. CASE PodGone(d)
    <3>1. PICK q \in [phase: Phases, inc: Nat] :
             /\ pods' = [pods EXCEPT ![d] = q] /\ rt' = [rt EXCEPT ![d] = NoRoutes]
             /\ q.phase = "absent" /\ q.inc = pods[d].inc
      BY <1>0, <2>2, PodGoneCases
    <3>. QED
      BY <3>1, NoRoutesFacts
  <2>. QED
    BY <2>1, <2>2
<1>3. /\ \A e \in Deps : pods'[e] = IF e = d THEN q ELSE pods[e]
      /\ \A e \in Deps : rt'[e] = IF e = d THEN t ELSE rt[e]
      /\ pods[d].inc \in Nat /\ q.inc \in Nat
  BY <1>0, <1>2 DEF PodInv
<1>4. Grows(pods, pods')
  <2>1. pods' \in [Deps -> [phase: Phases, inc: Nat]]
    BY <1>0, <1>2 DEF PodInv
  <2>2. pods[d].inc <= q.inc
    BY <1>2, <1>3
  <2>3. ASSUME NEW e \in Deps PROVE pods[e].inc <= pods'[e].inc
    <3>1. pods[e].inc \in Nat
      BY <1>0 DEF PodInv
    <3>. QED
      BY <1>3, <2>2, <3>1
  <2>. QED
    BY <1>0, <2>1, <2>3 DEF Grows, PodInv
<1>5. HopInv'
  <2>1. AllHops(pods', info') /\ \A n \in Nodes : AllHops(pods', chan'[n])
    BY <1>1, <1>4, HopsGrow DEF HopInv
  <2>2. ASSUME NEW k \in Chains, NEW p \in 1..Len(DepsOf[k])
        PROVE  HopsIn(pods', rt'[DepsOf[k][p]], k, p)
    <3>. DEFINE e == DepsOf[k][p]
    <3>1. e \in Deps /\ HopsIn(pods, rt[e], k, p)
      BY DepType DEF HopInv
    <3>. HIDE DEF e
    <3>2. HopsIn(pods', rt[e], k, p)
      BY <1>4, <3>1, HopsGrow
    <3>3. CASE rt'[e] = rt[e]
      BY <3>2, <3>3 DEF e
    <3>4. CASE \A x \in Dsts : rt'[e][x] # NoVal => x = "default"
      BY <3>4, NoHops DEF e
    <3>. QED
      BY <1>2, <1>3, <3>1, <3>3, <3>4
  <2>3. ASSUME NEW e \in Deps, pods'[e].phase # "running" PROVE rt'[e]["left"] = NoVal
    <3>1. CASE e = d
      BY <1>2, <1>3, <3>1, GatewayFacts DEF HopInv
    <3>2. CASE e # d
      BY <1>3, <2>3, <3>2 DEF HopInv
    <3>. QED
      BY <3>1, <3>2
  <2>4. ASSUME NEW e \in Deps, pods'[e].phase # "absent" PROVE pods'[e].inc > 0
    <3>1. CASE e = d
      BY <1>2, <1>3, <2>4, <3>1 DEF HopInv
    <3>2. CASE e # d
      BY <1>3, <2>4, <3>2 DEF HopInv
    <3>. QED
      BY <3>1, <3>2
  <2>. QED
    BY <2>1, <2>2, <2>3, <2>4 DEF HopInv
<1>6. ToldKept
  <2>. SUFFICES ASSUME NEW k \in Chains, NEW p \in 1..Len(DepsOf[k]), Told(k, p) PROVE Told(k, p)'
    BY DEF ToldKept
  <2>. DEFINE e == DepsOf[k][p]
  <2>0. e \in Deps /\ PodsIn(Nodes)' = PodsIn(Nodes) /\ missed' = missed
    BY <1>1, DepType DEF PodsIn
  <2>1. CASE e # d
    <3>1. pods'[e] = pods[e] /\ rt'[e] = rt[e]
      BY <1>3, <2>0, <2>1
    <3>. QED
      BY <2>0, <3>1 DEF Told
  <2>2. CASE e = d
    <3>1. pods'[e] = q /\ pods[d].inc > 0
      BY <1>3, <2>2 DEF Told
    <3>2. CASE pods[d].phase = "absent" /\ q.inc = pods[d].inc + 1
      <4>1. q.inc > 1
        BY <1>3, <3>1, <3>2
      <4>. QED
        BY <3>1, <4>1, <1>3 DEF Told
    <3>3. CASE pods[d].phase \in {"pending", "starting"} /\ q.inc = pods[d].inc
      <4>1. rt[d]["left"] = NoVal
        BY <3>3 DEF HopInv
      <4>2. ~Complete(rt[d], k, p)
        BY <4>1, GatewayFacts DEF Complete, Leftward
      <4>3. pods[d].inc > 1 \/ <<d, 1>> \in missed \cup PodsIn(Nodes)
        BY <2>2, <3>3, <4>2 DEF Told
      <4>. QED
        BY <2>0, <2>2, <3>1, <3>3, <4>3 DEF Told
    <3>4. CASE q.phase = "absent" /\ q.inc = pods[d].inc
      BY <3>1, <3>4 DEF Told
    <3>. QED
      BY <1>2, <3>2, <3>3, <3>4
  <2>. QED
    BY <2>1, <2>2
<1>. QED
  BY <1>5, <1>6

\* nfn-operator dies: every message in a stream is missed.
LEMMA DieHops == ASSUME HopInv, Die PROVE HopInv' /\ ToldKept
<1>1. UNCHANGED <<pods, rt>> /\ info' = <<>> /\ chan' = [n \in Nodes |-> <<>>]
  BY DEF Die, podVars
<1>2. \A ps : AllHops(ps, <<>>)
  BY DEF AllHops
<1>3. HopInv'
  BY <1>1, <1>2 DEF HopInv
<1>4. missed' = missed \cup PodsIn(Nodes)
  BY DEF Die
<1>5. ToldKept
  BY <1>1, <1>4, ToldMissed
<1>. QED
  BY <1>3, <1>5

\* An agent dies: so are those in its stream.
LEMMA AgentDieHops ==
  ASSUME IInv, HopInv, NEW n \in Nodes, AgentDie(n) PROVE HopInv' /\ ToldKept
<1>1. /\ UNCHANGED <<pods, rt, info>> /\ chan' = [chan EXCEPT ![n] = <<>>]
      /\ missed' = missed \cup PodsIn({n})
  BY DEF AgentDie, podVars
<1>2. \A x \in Nodes : chan'[x] = IF x = n THEN <<>> ELSE chan[x]
  BY <1>1, Parts DEF NetInv
<1>3. HopInv'
  <2>1. AllHops(pods, <<>>)
    BY DEF AllHops
  <2>2. \A x \in Nodes : AllHops(pods', chan'[x])
    BY <1>1, <1>2, <2>1 DEF HopInv
  <2>. QED
    BY <1>1, <2>2 DEF HopInv
<1>4. ASSUME NEW q, q \in PodsIn(Nodes) PROVE q \in missed' \cup PodsIn(Nodes)'
  <2>1. PICK x \in Nodes : \E i \in 1..Len(chan[x]) : chan[x][i].pod = q
    BY <1>4, InStreams
  <2>2. CASE x = n
    <3>1. q \in PodsIn({n})
      BY <2>1, <2>2 DEF PodsIn
    <3>. QED
      BY <1>1, <3>1
  <2>3. CASE x # n
    <3>1. chan'[x] = chan[x]
      BY <1>2, <2>3
    <3>2. q \in PodsIn(Nodes)'
      BY <2>1, <3>1, InStreams
    <3>. QED
      BY <3>2
  <2>. QED
    BY <2>2, <2>3
<1>5. ToldKept
  <2>1. missed \cup PodsIn(Nodes) \subseteq missed' \cup PodsIn(Nodes)'
    BY <1>1, <1>4
  <2>. QED
    BY <1>1, <2>1, ToldMissed
<1>. QED
  BY <1>3, <1>5

\* The next hops that CalculateRoutes finds are of pods that were there.
LEMMA HopsMade ==
  ASSUME ChainsApart, PodInv, WorkerInv, pc = "calculate",
         NEW l \in LeftHops, NEW r \in RightHops, NoVal \notin {l, r}
  PROVE  LeftIs(pods, req, pos, l) /\ RightIs(pods, req, pos, r)
<1>1. req \in Chains /\ pos \in 1..Len(deps) /\ Len(deps) \in Nat
  BY ConstantsAssumption DEF WorkerInv, deps
<1>2. LeftIs(pods, req, pos, l)
  <2>1. CASE pos = 1
    BY <2>1 DEF LeftHops, LeftIs
  <2>2. CASE pos # 1
    <3>1. pos - 1 \in 1..Len(deps) - 1
      BY <1>1, <2>2
    <3>2. <<deps[pos - 1], l[1]>> \in Contains /\ Made(pods, l)
      BY <1>1, <2>2, <3>1, AddressType DEF LeftHops, Made
    <3>3. l[1] = deps[pos - 1]
      BY <3>2 DEF ChainsApart
    <3>. QED
      BY <2>2, <3>2, <3>3 DEF LeftIs, deps
  <2>. QED
    BY <2>1, <2>2
<1>3. RightIs(pods, req, pos, r)
  <2>1. CASE pos = Len(deps)
    BY <2>1 DEF RightHops, RightIs, deps
  <2>2. CASE pos # Len(deps)
    <3>1. pos \in 1..Len(deps) - 1
      BY <1>1, <2>2
    <3>2. <<deps[pos + 1], r[1]>> \in Contains /\ Made(pods, r)
      BY <1>1, <2>2, <3>1, AddressType DEF RightHops, Made
    <3>3. r[1] = deps[pos + 1]
      BY <3>2 DEF ChainsApart
    <3>. QED
      BY <2>2, <3>2, <3>3 DEF RightIs, deps
  <2>. QED
    BY <2>1, <2>2
<1>. QED
  BY <1>2, <1>3

\* CalculateRoutes lists the routes of its deployment.
LEMMA CalculateHops ==
  ASSUME ChainsApart, IInv, HopInv, PassInv, CalculateRoutes
  PROVE  HopInv' /\ ToldKept /\ PassInv'
<1>1. KubeInv /\ WorkerInv /\ PodInv /\ NetInv /\ CountInv
  BY Parts
<1>2. pc = "calculate" /\ req \in Chains /\ info \in Seq(Infos) /\ sent = 0
  BY <1>1, CalculateCases DEF WorkerInv, PlaceInv
<1>3. CASE Die
  <2>1. PassInv'
    BY <1>3 DEF Die, Finish, PassInv
  <2>. QED
    BY <1>3, <2>1, DieHops
<1>4. CASE Retry /\ UNCHANGED <<kubeVars, info, podVars, netVars, missed>>
  <2>1. PassInv'
    BY <1>4 DEF Retry, Finish, PassInv
  <2>2. UNCHANGED <<pods, info, chan, rt, missed>>
    BY <1>4 DEF podVars, netVars
  <2>. QED
    BY <2>1, <2>2, HopFrame, ToldFrame
<1>5. ASSUME UNCHANGED <<kubeVars, podVars, netVars, missed>>, NextDeployment,
             pods[deps[pos]].phase # "absent",
             NEW l \in LeftHops, NEW r \in RightHops, NEW b \in BOOLEAN, NoVal \notin {l, r},
             info' = Append(info, [pod |-> Pod(deps[pos]), id |-> b,
                                   routes |-> DeploymentRoutes(pos, l, r)])
      PROVE  HopInv' /\ ToldKept /\ PassInv'
  <2>. DEFINE m == [pod |-> Pod(deps[pos]), id |-> b, routes |-> DeploymentRoutes(pos, l, r)]
              rs == DeploymentRoutes(pos, l, r)
  <2>1. l \in Gateways /\ r \in Gateways
    BY <1>1, <1>2, <1>5, HopsType
  <2>2. rs = ChainRoutes(req, pos, l, r)
    BY DEF DeploymentRoutes, DynamicRoutes, ChainRoutes, nets
  <2>3. pos \in 1..Len(DepsOf[req]) /\ deps = DepsOf[req] /\ Len(deps) \in Nat /\ pos \in Nat
    BY <1>1, <1>2, ConstantsAssumption DEF WorkerInv, deps
  <2>4. LeftIs(pods, req, pos, l) /\ RightIs(pods, req, pos, r)
    BY <1>1, <1>2, <1>5, HopsMade
  <2>5. ForPlace(req, pos, l, r, rs)
    BY <1>2, <2>1, <2>2, <2>3, ChainRoutesFacts
  <2>6. m.routes = rs /\ m.pod = Pod(deps[pos]) /\ info' = Append(info, m)
    BY <1>5
  <2>7. rs[1].gw = l /\ rs[2].gw = r /\ rs \in Seq(Routes)
    <3>. HIDE DEF rs
    <3>. QED
      BY <2>5 DEF ForPlace
  <2>8. deps[pos] \in Deps /\ Pod(deps[pos])[1] = deps[pos] /\ Made(pods, Pod(deps[pos]))
    <3>1. deps[pos] \in Deps
      BY <1>2, <2>3, DepType
    <3>2. pods[deps[pos]].inc \in Nat /\ pods[deps[pos]].inc > 0
      BY <1>1, <1>5, <3>1 DEF PodInv, HopInv
    <3>. QED
      BY <3>1, <3>2 DEF Pod, PodIds, Made
  <2>9. m \in Infos
    BY <2>7, <2>8 DEF Infos, Made
  <2>. HIDE DEF m, rs
  <2>10. HopsOf(pods, m)
    <3>1. Made(pods, m.pod)
      BY <2>6, <2>8
    <3>2. ASSUME NEW k \in Chains, NEW p \in 1..Len(DepsOf[k]), At(m.pod[1], k, p)
          PROVE  k = req /\ p = pos
      <4>1. DepsOf[k][p] = DepsOf[req][pos]
        BY <2>3, <2>6, <2>8, <3>2 DEF At
      <4>2. \A a, c \in Chains : \A x \in 1..Len(DepsOf[a]), y \in 1..Len(DepsOf[c]) :
              DepsOf[a][x] = DepsOf[c][y] => a = c /\ x = y
        BY DEF ChainsApart
      <4>. QED
        BY <1>2, <2>3, <4>1, <4>2
    <3>. QED
      BY <2>4, <2>6, <2>7, <3>1, <3>2 DEF HopsOf
  <2>11. HopInv'
    <3>1. AllHops(pods, info')
      BY <1>2, <2>6, <2>9, <2>10, AllHopsOps DEF HopInv
    <3>. QED
      BY <1>5, <3>1 DEF HopInv, podVars, netVars
  <2>12. ToldKept
    BY <1>5, ToldFrame DEF podVars, netVars
  <2>13. deps' = deps /\ sent' = 0
    BY <1>2, <1>5 DEF NextDeployment, deps
  <2>14. /\ Len(info') = Len(info) + 1 /\ info'[Len(info) + 1] = m /\ Len(info) \in Nat
         /\ \A i \in 1..Len(info) : info'[i] = info[i]
    BY <1>2, <2>6, <2>9
  <2>15. ASSUME NEW p \in 1..Len(deps), p <= pos PROVE Listed(deps[p])'
    <3>. SUFFICES \E i \in 1..Len(info') : i > sent' /\ info'[i].pod[1] = deps'[p]
      BY DEF Listed
    <3>1. CASE p = pos
      <4>1. Len(info) + 1 \in 1..Len(info') /\ Len(info) + 1 > 0
        BY <2>14
      <4>2. info'[Len(info) + 1].pod[1] = deps[p]
        BY <2>6, <2>8, <2>14, <3>1
      <4>. QED
        BY <2>13, <4>1, <4>2
    <3>2. CASE p # pos
      <4>1. p < pos
        BY <2>3, <2>15, <3>2
      <4>2. PICK i \in 1..Len(info) : i > sent /\ info[i].pod[1] = deps[p]
        BY <1>2, <4>1 DEF PassInv, Listed
      <4>3. i \in 1..Len(info') /\ i > sent' /\ info'[i] = info[i]
        BY <1>2, <2>13, <2>14, <4>2
      <4>. QED
        BY <2>13, <4>2, <4>3
    <3>. QED
      BY <3>1, <3>2
  <2>16. PassInv'
    <3>1. CASE pos < Len(deps)
      <4>1. pos' = pos + 1 /\ pc' = "calculate"
        BY <1>2, <1>5, <3>1 DEF NextDeployment
      <4>2. \A p \in 1..Len(deps) : p < pos + 1 => p <= pos
        BY <2>3
      <4>. QED
        BY <2>13, <2>15, <4>1, <4>2 DEF PassInv
    <3>2. CASE ~(pos < Len(deps))
      <4>1. pos' = pos /\ pc' = "send"
        BY <1>5, <3>2 DEF NextDeployment
      <4>2. \A p \in 1..Len(deps) : p <= pos
        BY <2>3, <3>2
      <4>. QED
        BY <2>13, <2>15, <4>1, <4>2 DEF PassInv
    <3>. QED
      BY <3>1, <3>2
  <2>. QED
    BY <2>11, <2>12, <2>16
<1>. QED
  BY <1>3, <1>4, <1>5, CalculateCases

\* SendRouteNotif: an entry that is passed on or skipped counts as told, and when the
\* worker reports Created there is none left.
LEMMA SendHops ==
  ASSUME IInv, HopInv, PassInv, SendRouteNotif
  PROVE  /\ HopInv' /\ ToldKept /\ PassInv'
         /\ cr'.state = "Created" => \/ cr.state = "Created"
                                     \/ \A p \in 1..Len(deps) : Told(req, p)'
<1>1. KubeInv /\ WorkerInv /\ PodInv /\ NetInv /\ CountInv
  BY Parts
<1>. DEFINE m == info[sent + 1]
            n == NodeOf[m.pod[1]]
<1>2. /\ pc = "send" /\ req \in Chains /\ sent \in Nat /\ Len(info) \in Nat /\ sent < Len(info)
      /\ info \in Seq(Infos)
      /\ UNCHANGED <<req, info, pods, rt>>
  <2>1. SendFrame
    BY SendCases
  <2>2. pc = "send" /\ UNCHANGED <<req, info, pods, rt>>
    BY <2>1 DEF SendFrame, podVars
  <2>3. req \in Chains
    BY <1>1, <2>2 DEF WorkerInv
  <2>. QED
    BY <1>1, <2>2, <2>3, SendEntry
<1>3. sent + 1 \in 1..Len(info)
  BY <1>1, SendEntry
<1>4. m \in Infos /\ HopsOf(pods, m) /\ m.pod \in PodIds /\ m.pod[1] \in Deps /\ n \in Nodes
  <2>1. HopsOf(pods, m)
    BY <1>3 DEF HopInv, AllHops
  <2>. QED
    BY <1>1, <2>1, SendEntry
<1>5. \/ missed' = missed /\ chan' = [chan EXCEPT ![n] = Append(@, m)]
      \/ missed' = missed \cup {m.pod} /\ chan' = chan
  <2>1. SendStream(n, m)
    BY SendCases
  <2>. HIDE DEF m, n
  <2>. QED
    BY <2>1 DEF SendStream
<1>6. chan \in [Nodes -> Seq(Infos)]
  BY <1>1 DEF NetInv
<1>. HIDE DEF m, n
<1>7. /\ \A x \in Nodes : chan'[x] \in {chan[x], Append(chan[x], m)}
      /\ missed' = missed => chan'[n] = Append(chan[n], m) \/ m.pod \in missed'
      /\ missed \subseteq missed'
  BY <1>4, <1>5, <1>6
<1>8. HopInv'
  <2>1. ASSUME NEW x \in Nodes PROVE AllHops(pods, chan'[x])
    <3>1. chan[x] \in Seq(Infos) /\ AllHops(pods, chan[x])
      BY <1>6 DEF HopInv
    <3>. QED
      BY <1>4, <1>7, <3>1, AllHopsOps
  <2>. QED
    BY <1>2, <2>1 DEF HopInv
<1>9. m.pod \in missed' \cup PodsIn(Nodes)'
  <2>1. CASE m.pod \in missed'
    BY <2>1
  <2>2. CASE chan'[n] = Append(chan[n], m)
    <3>1. chan[n] \in Seq(Infos)
      BY <1>4, <1>6
    <3>2. Len(chan[n]) + 1 \in 1..Len(chan'[n]) /\ chan'[n][Len(chan[n]) + 1] = m
      BY <1>4, <2>2, <3>1
    <3>3. m.pod \in PodsIn(Nodes)'
      BY <1>4, <3>2, InStreams
    <3>. QED
      BY <3>3
  <2>. QED
    BY <1>5, <1>7, <2>1, <2>2
<1>10. ToldKept
  <2>1. ASSUME NEW q, q \in PodsIn(Nodes) PROVE q \in PodsIn(Nodes)'
    <3>1. PICK x \in Nodes : \E i \in 1..Len(chan[x]) : chan[x][i].pod = q
      BY <2>1, InStreams
    <3>2. PICK i \in 1..Len(chan[x]) : chan[x][i].pod = q
      BY <3>1
    <3>3. chan[x] \in Seq(Infos)
      BY <1>6
    <3>4. i \in 1..Len(chan'[x]) /\ chan'[x][i] = chan[x][i]
      BY <1>4, <1>7, <3>3
    <3>. QED
      BY <3>2, <3>4, InStreams
  <2>2. missed \cup PodsIn(Nodes) \subseteq missed' \cup PodsIn(Nodes)'
    BY <1>7, <2>1
  <2>. QED
    BY <1>2, <2>2, ToldMissed
<1>11. ASSUME NEW p \in 1..Len(deps), deps[p] = m.pod[1] PROVE Told(req, p)'
  <2>. DEFINE d == DepsOf[req][p]
  <2>1. d = m.pod[1] /\ req' = req /\ pods' = pods
    BY <1>2, <1>11 DEF deps
  <2>2. 1 <= m.pod[2] /\ m.pod[2] <= pods[d].inc /\ m.pod = <<m.pod[1], m.pod[2]>> /\ m.pod[2] \in Nat
    BY <1>4, <2>1 DEF HopsOf, Made, PodIds
  <2>3. pods[d].inc \in Nat
    BY <1>1, <1>4, <2>1 DEF PodInv
  <2>4. CASE m.pod[2] = 1
    <3>1. <<d, 1>> \in missed' \cup PodsIn(Nodes)'
      BY <1>9, <2>1, <2>2, <2>4
    <3>2. pods[d].inc > 0
      BY <2>2, <2>3
    <3>. QED
      BY <2>1, <3>1, <3>2 DEF Told
  <2>5. CASE m.pod[2] # 1
    <3>1. pods[d].inc > 1 /\ pods[d].inc > 0
      BY <2>2, <2>3, <2>5
    <3>. QED
      BY <2>1, <3>1 DEF Told
  <2>. QED
    BY <2>4, <2>5
<1>12. ASSUME NEW p \in 1..Len(deps)
       PROVE  \/ Told(req, p)'
              \/ \E i \in 1..Len(info) : i > sent + 1 /\ info[i].pod[1] = deps[p]
  <2>1. CASE Told(req, p)
    BY <1>2, <1>10, <2>1 DEF ToldKept, deps
  <2>2. CASE Listed(deps[p])
    <3>1. PICK i \in 1..Len(info) : i > sent /\ info[i].pod[1] = deps[p]
      BY <2>2 DEF Listed
    <3>2. CASE i = sent + 1
      BY <1>11, <3>1, <3>2 DEF m
    <3>3. CASE i # sent + 1
      <4>1. i > sent + 1
        BY <1>2, <3>1, <3>3
      <4>. QED
        BY <3>1, <4>1
    <3>. QED
      BY <3>2, <3>3
  <2>. QED
    BY <1>2, <2>1, <2>2 DEF PassInv
<1>13. PassInv'
  <2>0. pc' # "calculate" /\ (pc' = "send" => sent' = sent + 1)
    <3>1. SendWorker
      BY SendCases
    <3>. QED
      BY <1>2, <3>1 DEF SendWorker, SendStop
  <2>1. CASE pc' # "send"
    BY <2>0, <2>1 DEF PassInv
  <2>2. CASE pc' = "send"
    <3>1. sent' = sent + 1 /\ info' = info /\ deps' = deps /\ req' = req
      BY <1>2, <2>0, <2>2 DEF deps
    <3>2. ASSUME NEW p \in 1..Len(deps)' PROVE (Told(req, p) \/ Listed(deps[p]))'
      <4>1. p \in 1..Len(deps)
        BY <3>1
      <4>. QED
        BY <1>12, <3>1, <4>1 DEF Listed
    <3>. QED
      BY <2>0, <3>2 DEF PassInv
  <2>. QED
    BY <2>1, <2>2
<1>14. ASSUME cr'.state = "Created", cr.state # "Created", NEW p \in 1..Len(deps)
       PROVE  Told(req, p)'
  <2>1. ~(sent + 1 < Len(info))
    <3>1. cr' # cr
      BY <1>14
    <3>2. PICK s \in States : SendStop(s)
      <4>1. SendWorker
        BY SendCases
      <4>. QED
        BY <3>1, <4>1 DEF SendWorker
    <3>3. cr'.state = s
      <4>1. cr \in Objects
        BY <1>1 DEF WorkerInv
      <4>. QED
        BY <3>2, <4>1 DEF Objects, SendStop
    <3>. QED
      BY <1>14, <3>2, <3>3 DEF SendStop
  <2>2. ~\E i \in 1..Len(info) : i > sent + 1
    <3>1. sent + 1 \in Nat /\ Len(info) \in Nat
      BY SMTT(30), <1>2
    <3>. QED
      BY SMTT(30), <2>1, <3>1
  <2>. QED
    BY <1>12, <2>2
<1>. QED
  BY <1>8, <1>10, <1>13, <1>14

\* What HandleRoutes does to a pod's table and to the history of missed messages.
LEMMA HandleOutcome ==
  ASSUME NetInv, PodInv, NEW n \in Nodes, HandleRoutes(n)
  PROVE  LET m == Head(chan[n])
             Added(i) == rt' = [rt EXCEPT ![m.pod[1]] = ContainerAddRoute(@, SubSeq(m.routes, 1, i))]
         IN  \/ /\ missed' = missed \cup {m.pod}
                /\ UNCHANGED rt \/ (Running(m.pod) /\ \E i \in 0..Len(m.routes) : Added(i))
             \/ /\ missed' = missed \ {m.pod}
                /\ Running(m.pod) /\ Added(Len(m.routes))
<1>. DEFINE m == Head(chan[n])
            Added(i) == rt' = [rt EXCEPT ![m.pod[1]] = ContainerAddRoute(@, SubSeq(m.routes, 1, i))]
<1>1. m.routes \in Seq(Routes)
  BY SMTT(30), HandleCases DEF Infos
<1>2. SubSeq(m.routes, 1, Len(m.routes)) = m.routes /\ \A i \in 0..Len(m.routes) - 1 : i \in 0..Len(m.routes)
  <2>. HIDE DEF m
  <2>. QED
    BY SMTT(30), <1>1
<1>3. \/ /\ missed' = missed \cup {m.pod}
         /\ UNCHANGED rt \/ (Running(m.pod) /\ \E i \in 0..Len(m.routes) - 1 : Added(i))
      \/ /\ missed' = missed \ {m.pod} /\ Running(m.pod)
         /\ rt' = [rt EXCEPT ![m.pod[1]] = ContainerAddRoute(@, m.routes)]
  BY DEF HandleRoutes
<1>. HIDE DEF m
<1>4. ASSUME NEW i \in 0..Len(m.routes) - 1, Added(i) PROVE \E j \in 0..Len(m.routes) : Added(j)
  BY <1>2, <1>4
<1>5. ASSUME rt' = [rt EXCEPT ![m.pod[1]] = ContainerAddRoute(@, m.routes)]
      PROVE  Added(Len(m.routes))
  BY <1>2, <1>5
<1>. HIDE DEF Added
<1>. QED
  BY SMTT(30), <1>3, <1>4, <1>5 DEF m, Added

\* HandleRoutes: a message that is carried out completes its pod's table, any other
\* is missed.
LEMMA HandleHops ==
  ASSUME ChainsApart, IInv, LoopInv, HopInv, NEW n \in Nodes, HandleRoutes(n)
  PROVE  HopInv' /\ ToldKept
<1>1. KubeInv /\ WorkerInv /\ PodInv /\ NetInv /\ CountInv
  BY Parts
<1>. DEFINE m == Head(chan[n])
            d == m.pod[1]
            Added(i) == rt' = [rt EXCEPT ![d] = ContainerAddRoute(@, SubSeq(m.routes, 1, i))]
<1>2. /\ chan[n] \in Seq(Infos) /\ chan[n] # <<>> /\ m \in Infos
      /\ Placed(m) /\ HopsOf(pods, m) /\ AllHops(pods, Tail(chan[n]))
  <2>1. chan[n] \in Seq(Infos) /\ chan[n] # <<>> /\ m \in Infos
    BY <1>1, HandleCases
  <2>2. Placed(m)
    BY <2>1, AllPlacedOps DEF LoopInv, MessageInv
  <2>3. HopsOf(pods, m) /\ AllHops(pods, Tail(chan[n]))
    BY <2>1, AllHopsOps DEF HopInv
  <2>. QED
    BY <2>1, <2>2, <2>3
<1>3. \/ /\ missed' = missed \cup {m.pod}
         /\ UNCHANGED rt \/ (Running(m.pod) /\ \E i \in 0..Len(m.routes) : Added(i))
      \/ /\ missed' = missed \ {m.pod}
         /\ Running(m.pod) /\ Added(Len(m.routes))
  BY <1>1, HandleOutcome
<1>4. /\ info' = info /\ pods' = pods
      /\ \A x \in Nodes : chan'[x] = IF x = n THEN Tail(chan[n]) ELSE chan[x]
  <2>1. chan' = [chan EXCEPT ![n] = Tail(chan[n])] /\ info' = info /\ pods' = pods
    BY <1>1, HandleCases
  <2>. QED
    BY <1>1, <2>1 DEF NetInv
<1>5. ASSUME NEW q, q \in PodsIn(Nodes), q # m.pod PROVE q \in PodsIn(Nodes)'
  <2>1. PICK x \in Nodes : \E i \in 1..Len(chan[x]) : chan[x][i].pod = q
    BY <1>5, InStreams
  <2>2. PICK i \in 1..Len(chan[x]) : chan[x][i].pod = q
    BY <2>1
  <2>3. CASE x # n
    <3>1. chan'[x] = chan[x]
      BY <1>4, <2>3
    <3>. QED
      BY <2>1, <3>1, InStreams
  <2>4. CASE x = n
    <3>1. i # 1
      BY <1>2, <1>5, <2>2, <2>4
    <3>2. chan'[n] = Tail(chan[n])
      BY <1>4
    <3>3. i - 1 \in 1..Len(chan'[n]) /\ chan'[n][i - 1] = chan[n][i]
      BY <1>2, <2>2, <2>4, <3>1, <3>2
    <3>. QED
      BY <2>2, <2>4, <3>3, InStreams
  <2>. QED
    BY <2>3, <2>4
<1>. HIDE DEF m
<1>6. m.pod \in PodIds /\ d \in Deps /\ m.pod = <<d, m.pod[2]>> /\ m.routes \in Seq(Routes)
  BY <1>2 DEF Infos, PodIds
<1>. DEFINE l == m.routes[1].gw
            r == m.routes[2].gw
<1>7. PICK k \in Chains : \E p \in 1..Len(DepsOf[k]) : At(d, k, p) /\ m.routes = ChainRoutes(k, p, l, r)
  BY <1>2 DEF Placed
<1>8. PICK p \in 1..Len(DepsOf[k]) : At(d, k, p) /\ m.routes = ChainRoutes(k, p, l, r)
  BY <1>7
<1>9. ASSUME NEW c \in Chains, NEW q \in 1..Len(DepsOf[c]), DepsOf[c][q] = d PROVE c = k /\ q = p
  <2>1. DepsOf[c][q] = DepsOf[k][p]
    BY <1>8, <1>9 DEF At
  <2>2. \A a, b \in Chains : \A x \in 1..Len(DepsOf[a]), y \in 1..Len(DepsOf[b]) :
          DepsOf[a][x] = DepsOf[b][y] => a = b /\ x = y
    BY DEF ChainsApart
  <2>. QED
    BY <2>1, <2>2
<1>10. l \in Gateways /\ r \in Gateways /\ LeftIs(pods, k, p, l) /\ RightIs(pods, k, p, r)
  <2>1. 1 \in 1..Len(m.routes) /\ 2 \in 1..Len(m.routes)
    BY <1>2, <1>6 DEF Placed
  <2>2. m.routes[1] \in Routes /\ m.routes[2] \in Routes
    BY <1>6, <2>1
  <2>3. l \in Gateways /\ r \in Gateways
    BY <2>2 DEF Routes
  <2>. QED
    BY <1>2, <1>8, <2>3 DEF HopsOf
<1>11. rt[d] \in Tables /\ HopsIn(pods, rt[d], k, p) /\ rt \in [Deps -> Tables]
  BY <1>1, <1>6, <1>8 DEF PodInv, HopInv, At, Tables
<1>12. ASSUME NEW i \in 0..Len(m.routes), Added(i)
       PROVE  /\ \A e \in Deps : e # d => rt'[e] = rt[e]
              /\ HopsIn(pods, rt'[d], k, p)
              /\ Complete(rt[d], k, p) \/ i = Len(m.routes) => Complete(rt'[d], k, p)
  <2>. DEFINE t == rt[d]
              u == ContainerAddRoute(t, SubSeq(ChainRoutes(k, p, l, r), 1, i))
  <2>1. m.routes = ChainRoutes(k, p, l, r) /\ i \in 0..Len(ChainRoutes(k, p, l, r))
    BY <1>8
  <2>2. /\ HopsIn(pods, u, k, p)
        /\ Complete(t, k, p) \/ i = Len(ChainRoutes(k, p, l, r)) => Complete(u, k, p)
    <3>. HIDE DEF l, r, t
    <3>. QED
      BY <1>10, <1>11, <2>1, StillHops DEF t
  <2>3. rt' = [rt EXCEPT ![d] = u]
    <3>1. rt' = [rt EXCEPT ![d] = ContainerAddRoute(rt[d], SubSeq(m.routes, 1, i))]
      BY <1>12
    <3>. HIDE DEF l, r
    <3>. QED
      BY <2>1, <3>1
  <2>. HIDE DEF u
  <2>4. rt'[d] = u /\ \A e \in Deps : e # d => rt'[e] = rt[e]
    BY <1>6, <1>11, <2>3
  <2>. QED
    BY <2>1, <2>2, <2>4
<1>13. /\ \A e \in Deps : e # d => rt'[e] = rt[e]
       /\ HopsIn(pods, rt'[d], k, p)
       /\ Complete(rt[d], k, p) => Complete(rt'[d], k, p)
       /\ rt' # rt => pods[d].phase = "running"
       /\ \/ missed' = missed \cup {m.pod}
          \/ missed' = missed \ {m.pod} /\ Complete(rt'[d], k, p)
  <2>. HIDE DEF Added, l, r
  <2>1. Running(m.pod) => pods[d].phase = "running"
    BY DEF Running
  <2>2. Len(m.routes) \in 0..Len(m.routes)
    BY <1>6
  <2>3. CASE missed' = missed \cup {m.pod} /\ UNCHANGED rt
    BY <1>11, <2>3
  <2>4. CASE missed' = missed \cup {m.pod} /\ Running(m.pod) /\ \E i \in 0..Len(m.routes) : Added(i)
    BY <1>12, <2>1, <2>4
  <2>5. CASE missed' = missed \ {m.pod} /\ Running(m.pod) /\ Added(Len(m.routes))
    BY <1>12, <2>1, <2>2, <2>5
  <2>. QED
    BY <1>3, <2>3, <2>4, <2>5
<1>. HIDE DEF Added, l, r
<1>14. HopInv'
  <2>1. AllHops(pods', info') /\ \A x \in Nodes : AllHops(pods', chan'[x])
    BY <1>2, <1>4 DEF HopInv
  <2>2. ASSUME NEW c \in Chains, NEW q \in 1..Len(DepsOf[c])
        PROVE  HopsIn(pods', rt'[DepsOf[c][q]], c, q)
    <3>1. CASE DepsOf[c][q] = d
      BY <1>4, <1>9, <1>13, <3>1
    <3>2. CASE DepsOf[c][q] # d
      BY <1>4, <1>13, <3>2, DepType DEF HopInv
    <3>. QED
      BY <3>1, <3>2
  <2>3. ASSUME NEW e \in Deps, pods'[e].phase # "running" PROVE rt'[e]["left"] = NoVal
    <3>1. rt'[e] = rt[e]
      BY <1>4, <1>13, <2>3
    <3>. QED
      BY <1>4, <2>3, <3>1 DEF HopInv
  <2>4. \A e \in Deps : pods'[e].phase # "absent" => pods'[e].inc > 0
    BY <1>4 DEF HopInv
  <2>. QED
    BY <2>1, <2>2, <2>3, <2>4 DEF HopInv
<1>15. ASSUME NEW c \in Chains, NEW q \in 1..Len(DepsOf[c]), Told(c, q) PROVE Told(c, q)'
  <2>. DEFINE e == DepsOf[c][q]
  <2>0. e \in Deps
    BY DepType
  <2>1. CASE pods[e].inc > 1 \/ pods[e].phase = "absent"
    BY <1>4, <1>15, <2>1 DEF Told
  <2>2. CASE Complete(rt[e], c, q)
    <3>1. Complete(rt'[e], c, q)
      BY <1>9, <1>13, <2>0, <2>2
    <3>. QED
      BY <1>4, <1>15, <3>1 DEF Told
  <2>3. CASE <<e, 1>> \in missed \cup PodsIn(Nodes)
    <3>1. CASE <<e, 1>> \in missed' \cup PodsIn(Nodes)'
      BY <1>4, <1>15, <3>1 DEF Told
    <3>2. CASE <<e, 1>> \notin missed' \cup PodsIn(Nodes)'
      <4>1. <<e, 1>> = m.pod
        BY <1>5, <1>13, <2>3, <3>2
      <4>2. e = d
        BY <1>6, <4>1
      <4>3. Complete(rt'[d], k, p)
        BY <1>13, <3>2, <4>1
      <4>4. Complete(rt'[e], c, q)
        BY <1>9, <4>2, <4>3
      <4>. QED
        BY <1>4, <1>15, <4>4 DEF Told
    <3>. QED
      BY <3>1, <3>2
  <2>. QED
    BY <1>15, <2>1, <2>2, <2>3 DEF Told
<1>. QED
  BY <1>14, <1>15 DEF ToldKept

\* No chain is reported that was not.
ReportKept == \A k \in Chains : Reported(k)' => Reported(k)

\* A version that is stored is what a chain may be reported by.
LEMMA StoreReport ==
  ASSUME KubeInv, NEW k \in Chains, NEW o, Store(k, o), UNCHANGED cache, NEW c \in Chains, Stored(c)'
  PROVE  Stored(c) \/ (c = k /\ o.state = "Created")
<1>1. api' = [api EXCEPT ![k] = o] /\ pending' = [pending EXCEPT ![k] = pending[k] \cup {o}]
  BY DEF Store
<1>2. /\ api'[c] = IF c = k THEN o ELSE api[c]
      /\ pending'[c] = IF c = k THEN pending[c] \cup {o} ELSE pending[c]
  BY <1>1 DEF KubeInv
<1>3. PICK v \in {api'[c], cache'[c]} \cup pending'[c] : v.state = "Created"
  BY DEF Stored
<1>4. v \in {api[c], cache[c]} \cup pending[c] \/ (c = k /\ v = o)
  BY <1>2, <1>3
<1>. QED
  BY <1>3, <1>4 DEF Stored

\* Nothing is stored.
LEMMA SameReport == ASSUME UNCHANGED kubeVars, NEW c PROVE Stored(c)' <=> Stored(c)
BY DEF Stored, kubeVars

\* A write of the worker stores the state of its copy or none.
LEMMA ApiCallReport ==
  ASSUME KubeInv, WorkerInv, req \in Chains, NEW o \in Objects, o.state = cr.state,
         ApiCall(o, TRUE, TRUE), UNCHANGED cache, NEW c \in Chains, Stored(c)'
  PROVE  Reported(c)
<1>1. CASE UNCHANGED <<api, pending>>
  BY <1>1, SameReport DEF Reported, kubeVars
<1>2. CASE Store(req, Accepted(o))
  <2>1. Accepted(o).state = "Created" => cr.state = "Created"
    <3>1. Tombstone(o.rv + 1).state = ""
      BY DEF Tombstone
    <3>2. [o EXCEPT !.rv = @ + 1].state = o.state
      BY DEF Objects
    <3>. QED
      BY <3>1, <3>2 DEF Accepted
  <2>2. Stored(c) \/ (c = req /\ Accepted(o).state = "Created")
    BY <1>2, StoreReport
  <2>. QED
    BY <2>1, <2>2 DEF Reported
<1>. QED
  BY <1>1, <1>2 DEF ApiCall, Write

\* A request that ends reports nothing.
LEMMA FinishReport ==
  ASSUME Finish, NEW c \in Chains PROVE Reported(c)' <=> Stored(c)'
<1>1. req' # c
  BY ConstantsAssumption DEF Finish
<1>. QED
  BY <1>1 DEF Reported

\* Users store no state of their own.
LEMMA UserReport ==
  ASSUME IInv, NEW k \in Chains, UserCreate(k) \/ UserEdit(k) \/ UserDelete(k)
  PROVE  ReportKept
<1>1. KubeInv /\ api[k] \in Objects
  BY Parts DEF KubeInv
<1>2. PICK o : UserStep(k, o) /\ (o.state = "Created" => api[k].state = "Created")
  <2>1. CASE UserCreate(k)
    <3>. DEFINE o == [live |-> TRUE, rv |-> api[k].rv + 1, del |-> FALSE, fin |-> FALSE,
                      routing |-> TRUE, state |-> ""]
    <3>1. UserStep(k, o) /\ o.state = ""
      BY <2>1 DEF UserCreate
    <3>. HIDE DEF o
    <3>. QED
      BY <3>1
  <2>2. CASE UserEdit(k)
    <3>1. [api[k] EXCEPT !.rv = @ + 1, !.routing = ~@].state = api[k].state
      BY <1>1 DEF Objects
    <3>. QED
      BY <2>2, <3>1 DEF UserEdit
  <2>3. CASE UserDelete(k)
    <3>1. [api[k] EXCEPT !.rv = @ + 1, !.del = TRUE].state = api[k].state
      BY <1>1 DEF Objects
    <3>2. Tombstone(api[k].rv + 1).state = ""
      BY DEF Tombstone
    <3>. QED
      BY <2>3, <3>1, <3>2 DEF UserDelete
  <2>. QED
    BY <2>1, <2>2, <2>3
<1>3. Store(k, o) /\ UNCHANGED <<cache, req, cr>>
  BY <1>2 DEF UserStep, workerVars
<1>4. ASSUME NEW c \in Chains, Stored(c)' PROVE Stored(c)
  <2>1. Stored(c) \/ (c = k /\ o.state = "Created")
    BY <1>1, <1>3, <1>4, StoreReport
  <2>. QED
    BY <1>2, <2>1 DEF Stored
<1>. QED
  BY <1>3, <1>4 DEF ReportKept, Reported

\* The informer hands on a version that was stored.
LEMMA DeliverReport == ASSUME IInv, NEW k \in Chains, Deliver(k) PROVE ReportKept
<1>1. KubeInv
  BY Parts
<1>2. PICK v \in pending[k] : /\ cache' = [cache EXCEPT ![k] = v]
                              /\ pending' = [pending EXCEPT ![k] = @ \ {v}]
  BY DEF Deliver
<1>3. UNCHANGED <<api, req, cr>>
  BY DEF Deliver, workerVars
<1>4. ASSUME NEW c \in Chains PROVE {api'[c], cache'[c]} \cup pending'[c] \subseteq {api[c], cache[c]} \cup pending[c]
  <2>1. /\ cache'[c] = IF c = k THEN v ELSE cache[c]
        /\ pending'[c] = IF c = k THEN pending[c] \ {v} ELSE pending[c]
    BY <1>1, <1>2 DEF KubeInv
  <2>. QED
    BY <1>2, <1>3, <2>1
<1>5. ASSUME NEW c \in Chains, Stored(c)' PROVE Stored(c)
  BY <1>4, <1>5 DEF Stored
<1>. QED
  BY <1>3, <1>5 DEF ReportKept, Reported

\* Reconcile takes its copy from the cache.
LEMMA ReconcileReport == ASSUME NEW k \in Chains, Reconcile(k) PROVE ReportKept
<1>1. UNCHANGED kubeVars
  BY DEF Reconcile
<1>2. UNCHANGED <<req, cr>> \/ (req' = k /\ cr' = cache[k])
  BY DEF Reconcile, workerVars
<1>3. cache[k].state = "Created" => Stored(k)
  BY DEF Stored
<1>. QED
  BY <1>1, <1>2, <1>3, SameReport DEF ReportKept, Reported

\* The worker's writes.
LEMMA WriteReport ==
  ASSUME IInv, AddFinalizer \/ UpdateStatus \/ RemoveFinalizer PROVE ReportKept
<1>1. KubeInv /\ WorkerInv /\ cr \in Objects
  BY Parts DEF WorkerInv
<1>2. req \in Chains /\ UNCHANGED cache
  BY <1>1 DEF AddFinalizer, UpdateStatus, RemoveFinalizer, WorkerInv
<1>3. PICK o \in Objects : o.state = cr.state /\ ApiCall(o, TRUE, TRUE)
  <2>1. ASSUME NEW b \in BOOLEAN
        PROVE  [cr EXCEPT !.fin = b] \in Objects /\ [cr EXCEPT !.fin = b].state = cr.state
    BY <1>1 DEF Objects
  <2>2. CASE AddFinalizer
    <3>1. ApiCall([cr EXCEPT !.fin = TRUE], TRUE, TRUE)
      BY <2>2 DEF AddFinalizer, ApiCall
    <3>. QED
      BY <2>1, <3>1
  <2>3. CASE UpdateStatus
    <3>1. ApiCall(cr, TRUE, TRUE)
      BY <2>3 DEF UpdateStatus, ApiCall
    <3>. QED
      BY <1>1, <3>1
  <2>4. CASE RemoveFinalizer
    <3>1. ApiCall([cr EXCEPT !.fin = FALSE], TRUE, TRUE)
      BY <2>4 DEF RemoveFinalizer, ApiCall
    <3>. QED
      BY <2>1, <3>1
  <2>. QED
    BY <2>2, <2>3, <2>4
<1>4. ASSUME NEW c \in Chains, Stored(c)' PROVE Reported(c)
  BY <1>1, <1>2, <1>3, <1>4, ApiCallReport
<1>5. Finish \/ (cr' = api'[req] /\ UNCHANGED req)
  BY DEF AddFinalizer, UpdateStatus, RemoveFinalizer, ApiCall, Done, Retry
<1>6. CASE Finish
  BY <1>4, <1>6, FinishReport DEF ReportKept
<1>7. CASE cr' = api'[req] /\ UNCHANGED req
  <2>1. cr'.state = "Created" => Stored(req)'
    BY <1>7 DEF Stored
  <2>. QED
    BY <1>2, <1>4, <1>7, <2>1 DEF ReportKept, Reported
<1>. QED
  BY <1>5, <1>6, <1>7

\* nfn-operator starts again from the API server.
LEMMA DieReport == ASSUME Die PROVE ReportKept
<1>1. Finish /\ api' = api /\ cache' = api /\ pending' = [k \in Chains |-> {}]
  BY DEF Die
<1>2. ASSUME NEW c \in Chains, Stored(c)' PROVE Stored(c)
  BY <1>1, <1>2 DEF Stored
<1>. QED
  BY <1>1, <1>2, FinishReport DEF ReportKept, Reported

\* A step that keeps what is known of next hops, of pods that were told and of the
\* request at hand, and reports a chain only when all of it was told.
Carried ==
  /\ HopInv' /\ ToldKept /\ PassInv'
  /\ \A k \in Chains : Reported(k)' => Reported(k) \/ \A p \in 1..Len(DepsOf[k]) : Told(k, p)'

\* The worker and chainRoutingInfo stay as they are.
LEMMA PassFrame ==
  ASSUME WorkerInv, PassInv, ToldKept, UNCHANGED <<workerVars, info>> PROVE PassInv'
<1>1. UNCHANGED <<pc, req, pos, sent, info, deps>>
  BY DEF workerVars, deps
<1>2. \A d : Listed(d)' <=> Listed(d)
  BY <1>1 DEF Listed
<1>3. CASE pc = "calculate"
  BY <1>1, <1>2, <1>3 DEF PassInv
<1>4. CASE pc = "send"
  <2>1. req \in Chains /\ deps = DepsOf[req]
    BY <1>4 DEF WorkerInv, deps
  <2>2. ASSUME NEW p \in 1..Len(deps) PROVE Told(req, p)' \/ Listed(deps[p])'
    <3>1. Told(req, p) \/ Listed(deps[p])
      BY <1>4 DEF PassInv
    <3>2. Told(req, p) => Told(req, p)'
      BY <1>1, <2>1 DEF ToldKept
    <3>3. Listed(deps[p]) => Listed(deps[p])'
      BY <1>1 DEF Listed
    <3>. QED
      BY <3>1, <3>2, <3>3
  <2>. QED
    BY <1>1, <1>4, <2>2 DEF PassInv
<1>5. CASE pc \notin {"calculate", "send"}
  BY <1>1, <1>5 DEF PassInv
<1>. QED
  BY <1>3, <1>4, <1>5

\* So it is for every step.
LEMMA EveryStepCarries ==
  ASSUME ChainsApart, IInv, LoopInv, HopInv, PassInv, [Next]_vars PROVE Carried
<1>0. WorkerInv
  BY Parts
<1>1. CASE UNCHANGED vars
  <2>1. UNCHANGED <<kubeVars, workerVars, info, pods, rt, chan, missed, req, cr>>
    BY <1>1 DEF vars, podVars, netVars, workerVars
  <2>2. HopInv' /\ ToldKept
    BY <2>1, HopFrame, ToldFrame
  <2>3. PassInv'
    BY <1>0, <2>1, <2>2, PassFrame
  <2>. QED
    BY <2>1, <2>2, <2>3, SameReport DEF Carried, Reported
<1>2. ASSUME NEW k \in Chains, UserCreate(k) \/ UserEdit(k) \/ UserDelete(k) PROVE Carried
  <2>1. UNCHANGED <<workerVars, info, pods, rt, chan, missed>>
    BY <1>2 DEF UserCreate, UserEdit, UserDelete, UserStep, podVars, netVars
  <2>2. HopInv' /\ ToldKept
    BY <2>1, HopFrame, ToldFrame
  <2>3. PassInv'
    BY <1>0, <2>1, <2>2, PassFrame
  <2>. QED
    BY <1>2, <2>2, <2>3, UserReport DEF Carried, ReportKept
<1>3. ASSUME NEW k \in Chains, Deliver(k) \/ Resync(k) PROVE Carried
  <2>1. UNCHANGED <<workerVars, info, pods, rt, chan, missed, req, cr>>
    BY <1>3 DEF Deliver, Resync, podVars, netVars, workerVars
  <2>2. HopInv' /\ ToldKept
    BY <2>1, HopFrame, ToldFrame
  <2>3. PassInv'
    BY <1>0, <2>1, <2>2, PassFrame
  <2>4. Resync(k) => ReportKept
    BY <2>1, SameReport DEF Resync, ReportKept, Reported
  <2>. QED
    BY <1>3, <2>2, <2>3, <2>4, DeliverReport DEF Carried, ReportKept
<1>4. ASSUME NEW k \in Chains, Reconcile(k) PROVE Carried
  <2>1. UNCHANGED <<info, pods, rt, chan, missed>>
    BY <1>4 DEF Reconcile, podVars, netVars
  <2>2. HopInv' /\ ToldKept
    BY <2>1, HopFrame, ToldFrame
  <2>3. CASE UNCHANGED workerVars
    <3>1. PassInv'
      BY <1>0, <2>1, <2>2, <2>3, PassFrame
    <3>. QED
      BY <1>4, <2>2, <3>1, ReconcileReport DEF Carried, ReportKept
  <2>4. CASE ~UNCHANGED workerVars
    <3>1. pc' # "send" /\ pos' = 1
      BY <1>4, <2>4 DEF Reconcile
    <3>2. \A p \in 1..Len(deps)' : ~(p < 1)
      OBVIOUS
    <3>3. PassInv'
      BY <3>1, <3>2 DEF PassInv
    <3>. QED
      BY <1>4, <2>2, <3>3, ReconcileReport DEF Carried, ReportKept
  <2>. QED
    BY <2>3, <2>4
<1>5. CASE AddFinalizer \/ UpdateStatus \/ RemoveFinalizer
  <2>1. UNCHANGED <<info, pods, rt, chan, missed>>
    BY <1>5 DEF AddFinalizer, UpdateStatus, RemoveFinalizer, podVars, netVars
  <2>2. HopInv' /\ ToldKept
    BY <2>1, HopFrame, ToldFrame
  <2>3. pc' = "idle" \/ (pc' = "calculate" /\ pos' = 1)
    BY <1>0, <1>5 DEF AddFinalizer, UpdateStatus, RemoveFinalizer, ApiCall, Done, Retry, Finish,
                      WorkerInv, PlaceInv
  <2>4. \A p \in 1..Len(deps)' : ~(p < 1)
    OBVIOUS
  <2>5. PassInv'
    BY <2>3, <2>4 DEF PassInv
  <2>. QED
    BY <1>5, <2>2, <2>5, WriteReport DEF Carried, ReportKept
<1>6. CASE CalculateRoutes
  <2>1. HopInv' /\ ToldKept /\ PassInv'
    BY <1>6, CalculateHops
  <2>2. ReportKept
    <3>1. CASE Die
      BY <3>1, DieReport
    <3>2. CASE UNCHANGED kubeVars /\ Finish
      BY <3>2, SameReport, FinishReport DEF ReportKept, Reported
    <3>3. CASE UNCHANGED <<kubeVars, req, cr>>
      BY <3>3, SameReport DEF ReportKept, Reported
    <3>4. \/ Die
          \/ UNCHANGED kubeVars /\ Retry
          \/ UNCHANGED kubeVars /\ NextDeployment
      BY <1>6, CalculateCases
    <3>5. Retry => Finish
      BY DEF Retry
    <3>6. NextDeployment => UNCHANGED <<req, cr>>
      BY DEF NextDeployment
    <3>. QED
      BY <3>1, <3>2, <3>3, <3>4, <3>5, <3>6
  <2>. QED
    BY <2>1, <2>2 DEF Carried, ReportKept
<1>7. CASE SendRouteNotif
  <2>1. /\ HopInv' /\ ToldKept /\ PassInv'
        /\ cr'.state = "Created" => cr.state = "Created" \/ \A p \in 1..Len(deps) : Told(req, p)'
    BY <1>7, SendHops
  <2>2. UNCHANGED <<kubeVars, req>>
    BY <1>7, SendCases DEF SendFrame
  <2>3. ASSUME NEW k \in Chains, Reported(k)'
        PROVE  Reported(k) \/ \A p \in 1..Len(DepsOf[k]) : Told(k, p)'
    BY <2>1, <2>2, <2>3, SameReport DEF Reported, deps
  <2>. QED
    BY <2>1, <2>3 DEF Carried
<1>8. ASSUME UNCHANGED <<kubeVars, workerVars, info>>, HopInv', ToldKept PROVE Carried
  <2>1. PassInv'
    BY <1>0, <1>8, PassFrame
  <2>. QED
    BY <1>8, <2>1, SameReport DEF Carried, Reported, workerVars
<1>9. ASSUME NEW d \in Deps, PodStep(d) \/ PodGone(d) PROVE Carried
  <2>1. UNCHANGED <<kubeVars, workerVars, info>>
    BY <1>9 DEF PodStep, PodGone
  <2>. QED
    BY <1>8, <1>9, <2>1, PodHops
<1>10. ASSUME NEW n \in Nodes, AgentSubscribe(n) \/ AgentDie(n) \/ HandleRoutes(n) PROVE Carried
  <2>1. UNCHANGED <<kubeVars, workerVars, info>>
    BY <1>10 DEF AgentSubscribe, AgentDie, HandleRoutes
  <2>2. AgentSubscribe(n) => HopInv' /\ ToldKept
    BY HopFrame, ToldFrame DEF AgentSubscribe, podVars
  <2>. QED
    BY SMTT(30), <1>8, <1>10, <2>1, <2>2, AgentDieHops, HandleHops
<1>11. CASE Crash
  <2>1. Die
    BY <1>11 DEF Crash
  <2>2. PassInv'
    BY <2>1 DEF Die, Finish, PassInv
  <2>. QED
    BY <2>1, <2>2, DieHops, DieReport DEF Carried, ReportKept
<1>. QED
  BY <1>1, <1>2, <1>3, <1>4, <1>5, <1>6, <1>7, <1>9, <1>10, <1>11 DEF Next, WorkerStep

\* The invariant is inductive.
LEMMA CarryStep == ASSUME ChainsApart PROVE CarryInv /\ [Next]_vars => CarryInv'
<1>. SUFFICES ASSUME CarryInv, [Next]_vars PROVE CarryInv'
  OBVIOUS
<1>1. IInv' /\ LoopInv' /\ Carried
  BY IInvStep, LoopStep, EveryStepCarries DEF CarryInv
<1>2. ASSUME NEW k \in Chains, Reported(k)', NEW p \in 1..Len(DepsOf[k]) PROVE Told(k, p)'
  <2>1. CASE Reported(k)
    BY <1>1, <2>1 DEF CarryInv, CreatedInv, Carried, ToldKept
  <2>2. CASE ~Reported(k)
    BY <1>1, <1>2, <2>2 DEF Carried
  <2>. QED
    BY <2>1, <2>2
<1>. QED
  BY <1>1, <1>2 DEF CarryInv, CreatedInv, Carried

\* It holds initially: nothing is stored, sent, routed or reported.
LEMMA CarryInit == Init => CarryInv
<1>. SUFFICES ASSUME Init PROVE CarryInv
  OBVIOUS
<1>1. IInv
  BY InitInv
<1>2. LoopInv
  BY LoopInit
<1>3. HopInv
  <2>1. \A d \in Deps : rt[d] = NoRoutes /\ pods[d].phase = "absent"
    BY DEF Init
  <2>2. AllHops(pods, info) /\ \A n \in Nodes : AllHops(pods, chan[n])
    BY DEF Init, AllHops
  <2>3. \A x \in Dsts : NoRoutes[x] = NoVal
    BY DEF NoRoutes
  <2>4. ASSUME NEW k \in Chains, NEW p \in 1..Len(DepsOf[k])
        PROVE  HopsIn(pods, rt[DepsOf[k][p]], k, p)
    BY <2>1, <2>3, DepType DEF HopsIn
  <2>5. \A d \in Deps : rt[d]["left"] = NoVal
    BY <2>1, <2>3 DEF Dsts
  <2>. QED
    BY <2>1, <2>2, <2>4, <2>5 DEF HopInv
<1>4. CreatedInv
  <2>1. Tombstone(0).state = ""
    BY DEF Tombstone
  <2>2. \A k \in Chains : api[k] = Tombstone(0) /\ cache[k] = Tombstone(0) /\ pending[k] = {} /\ cr = Tombstone(0)
    BY DEF Init
  <2>. QED
    BY <2>1, <2>2 DEF CreatedInv, Reported, Stored
<1>5. PassInv
  BY DEF Init, PassInv
<1>. QED
  BY <1>1, <1>2, <1>3, <1>4, <1>5 DEF CarryInv

\* Every message for this chain's pods was carried out.
Carries(k) ==
  \A p \in 1..Len(DepsOf[k]) :
    /\ pods[DepsOf[k][p]] = [phase |-> "running", inc |-> 1]
    /\ Complete(rt[DepsOf[k][p]], k, p)

\* So it is when a settled chain's pods missed none.
LEMMA SettledCarries ==
  ASSUME CarryInv, NEW k \in Chains, Settled(k), \A d \in Inside(k) : Pod(d) \notin missed
  PROVE  Carries(k)
<1>. SUFFICES ASSUME NEW p \in 1..Len(DepsOf[k])
              PROVE  /\ pods[DepsOf[k][p]] = [phase |-> "running", inc |-> 1]
                     /\ Complete(rt[DepsOf[k][p]], k, p)
  BY DEF Carries
<1>. DEFINE d == DepsOf[k][p]
<1>1. d \in Inside(k)
  BY DEF Inside
<1>2. pods[d] = [phase |-> "running", inc |-> 1] /\ Pod(d) \notin missed
  BY <1>1 DEF Settled
<1>3. pods[d].inc = 1 /\ pods[d].phase = "running" /\ <<d, 1>> \notin missed
  BY <1>2 DEF Pod
<1>4. Told(k, p)
  <2>1. Reported(k)
    BY DEF Settled, Reported, Stored
  <2>. QED
    BY <2>1 DEF CarryInv, CreatedInv
<1>5. <<d, 1>> \notin PodsIn(Nodes)
  <2>1. \A n \in Nodes : chan[n] = <<>>
    BY DEF Settled
  <2>. QED
    BY <2>1, InStreams
<1>6. Complete(rt[d], k, p)
  BY <1>3, <1>4, <1>5 DEF Told
<1>. QED
  BY <1>2, <1>6

\* The pods on a network of the chain are its two neighbours there.
LEMMA AttachedEnds ==
  ASSUME ChainsApart, NEW k \in Chains, NEW p \in 1..Len(DepsOf[k])
  PROVE  /\ \A x \in {"left", "right"} : <<DepsOf[k][p], x>> \notin Attached
         /\ \A j \in 1..Len(DepsOf[k]) - 1 :
              <<DepsOf[k][p], NetsOf[k][j]>> \in Attached <=> p \in {j, j + 1}
<1>. DEFINE num == Len(DepsOf[k])
<1>0. /\ num \in Nat /\ p \in Nat /\ DepsOf[k][p] \in Deps
      /\ \A j \in 1..num - 1 : j \in 1..Len(NetsOf[k]) /\ NetsOf[k][j] \in Nets
  BY ConstantsAssumption
<1>1. ASSUME NEW x \in {"left", "right"} PROVE <<DepsOf[k][p], x>> \notin Attached
  <2>1. x \notin Nets
    BY ConstantsAssumption
  <2>. QED
    BY <2>1 DEF Attached
<1>2. ASSUME NEW j \in 1..num - 1, <<DepsOf[k][p], NetsOf[k][j]>> \in Attached PROVE p \in {j, j + 1}
  <2>1. PICK c \in Chains : \E i \in 1..Len(DepsOf[c]) - 1 :
           NetsOf[k][j] = NetsOf[c][i] /\ DepsOf[k][p] \in Ends(c, i)
    BY <1>2 DEF Attached
  <2>2. PICK i \in 1..Len(DepsOf[c]) - 1 :
           NetsOf[k][j] = NetsOf[c][i] /\ DepsOf[k][p] \in Ends(c, i)
    BY <2>1
  <2>3. PICK q \in {i, i + 1} : DepsOf[k][p] = DepsOf[c][q]
    BY <2>2 DEF Ends
  <2>4. q \in 1..Len(DepsOf[c])
    BY <2>2, <2>3, ConstantsAssumption
  <2>5. \A a, b \in Chains : \A x \in 1..Len(DepsOf[a]), y \in 1..Len(DepsOf[b]) :
          DepsOf[a][x] = DepsOf[b][y] => a = b /\ x = y
    BY DEF ChainsApart
  <2>6. k = c /\ p = q
    BY SMTT(30), <2>3, <2>4, <2>5
  <2>7. i = j
    BY <1>0, <2>2, <2>6 DEF ChainsApart
  <2>. QED
    BY <2>3, <2>6, <2>7
<1>3. ASSUME NEW j \in 1..num - 1, p \in {j, j + 1} PROVE <<DepsOf[k][p], NetsOf[k][j]>> \in Attached
  <2>1. DepsOf[k][p] \in Ends(k, j)
    BY <1>3 DEF Ends
  <2>. QED
    BY <1>0, <2>1 DEF Attached
<1>. QED
  BY <1>1, <1>2, <1>3

\* In a chain that carries, a pod passes a packet on to its neighbour on the packet's
\* side, and at the end of the chain to the edge network.
LEMMA CarriesHop ==
  ASSUME ChainsApart, CarryInv, NEW k \in Chains, Carries(k), NEW p \in 1..Len(DepsOf[k]),
         NEW x \in {"left", "right"} \cup Nets, <<DepsOf[k][p], x>> \notin Attached
  PROVE  /\ Leftward(k, p, x) /\ p > 1 => NextHop(DepsOf[k][p], x) = DepsOf[k][p - 1]
         /\ Leftward(k, p, x) /\ p = 1 => /\ NextHop(DepsOf[k][p], x) = DepsOf[k][p]
                                          /\ rt[DepsOf[k][p]][x] = "left"
         /\ Rightward(k, p, x) /\ p < Len(DepsOf[k]) => NextHop(DepsOf[k][p], x) = DepsOf[k][p + 1]
         /\ Rightward(k, p, x) /\ p = Len(DepsOf[k]) => /\ NextHop(DepsOf[k][p], x) = DepsOf[k][p]
                                                        /\ rt[DepsOf[k][p]][x] = "right"
<1>. DEFINE d == DepsOf[k][p]
            g == rt[d][x]
<1>0. Len(DepsOf[k]) \in Nat /\ p \in Nat
  BY ConstantsAssumption
<1>1. x \in Dsts
  BY DEF Dsts
<1>2. HopsIn(pods, rt[d], k, p) /\ Complete(rt[d], k, p)
  BY DEF CarryInv, HopInv, Carries
<1>3. ASSUME NEW q \in 1..Len(DepsOf[k]), Made(pods, g), g[1] = DepsOf[k][q], g # NoVal
      PROVE  NextHop(d, x) = DepsOf[k][q]
  <2>1. pods[g[1]].phase = "running" /\ pods[g[1]].inc = 1
    BY <1>3 DEF Carries
  <2>2. g \in PodIds /\ g[2] \in Nat /\ 1 <= g[2] /\ g[2] <= 1
    BY <1>3, <2>1 DEF Made, PodIds
  <2>3. g[2] = 1
    BY <2>2
  <2>4. Running(g)
    BY <2>1, <2>3 DEF Running
  <2>. QED
    BY <1>3, <2>2, <2>4 DEF NextHop
<1>4. ASSUME g \in {"left", "right"} PROVE NextHop(d, x) = d
  <2>1. g \notin PodIds /\ g # NoVal
    BY <1>4, ConstantsAssumption DEF PodIds
  <2>. QED
    BY <2>1 DEF NextHop
<1>5. ASSUME Leftward(k, p, x) PROVE g # NoVal /\ LeftIs(pods, k, p, g)
  BY <1>1, <1>2, <1>5 DEF HopsIn, Complete
<1>6. ASSUME Rightward(k, p, x) PROVE g # NoVal /\ RightIs(pods, k, p, g)
  BY <1>1, <1>2, <1>6 DEF HopsIn, Complete
<1>7. p > 1 => p - 1 \in 1..Len(DepsOf[k])
  BY <1>0
<1>8. p < Len(DepsOf[k]) => p + 1 \in 1..Len(DepsOf[k]) /\ p # Len(DepsOf[k])
  BY <1>0
<1>9. p > 1 => p # 1
  OBVIOUS
<1>. HIDE DEF g
<1>10. ASSUME Leftward(k, p, x), p > 1 PROVE NextHop(d, x) = DepsOf[k][p - 1]
  BY <1>3, <1>5, <1>7, <1>9, <1>10 DEF LeftIs
<1>11. ASSUME Leftward(k, p, x), p = 1 PROVE NextHop(d, x) = d /\ g = "left"
  BY <1>4, <1>5, <1>11 DEF LeftIs
<1>12. ASSUME Rightward(k, p, x), p < Len(DepsOf[k]) PROVE NextHop(d, x) = DepsOf[k][p + 1]
  BY <1>3, <1>6, <1>8, <1>12 DEF RightIs
<1>13. ASSUME Rightward(k, p, x), p = Len(DepsOf[k]) PROVE NextHop(d, x) = d /\ g = "right"
  BY <1>4, <1>6, <1>13 DEF RightIs
<1>. QED
  BY <1>10, <1>11, <1>12, <1>13 DEF g

\* Where a packet is after i hops when it goes from position p of a chain to the
\* nearer of the positions a and b, or stays if it is between them.
Toward(a, b, p, i) ==
  IF p < a THEN (IF p + i <= a THEN p + i ELSE a)
  ELSE IF p > b THEN (IF p >= b + i THEN p - i ELSE b) ELSE p

\* Every pod of chain k passes a packet for x on so.
Passes(k, x, a, b) ==
  \A q \in 1..Len(DepsOf[k]) : NextHop(DepsOf[k][q], x) = DepsOf[k][Toward(a, b, q, 1)]

\* Then that is where it arrives.
LEMMA Walk ==
  ASSUME NEW k \in Chains, NEW x, NEW a \in 1..Len(DepsOf[k]), NEW b \in 1..Len(DepsOf[k]), a <= b,
         Passes(k, x, a, b), NEW p \in 1..Len(DepsOf[k])
  PROVE  \E q \in a..b : After(DepsOf[k][p], x, Len(DepsOf[k])) = DepsOf[k][q]
<1>. DEFINE num == Len(DepsOf[k])
            dep(q) == DepsOf[k][q]
            w == [i \in 0..num |-> dep(Toward(a, b, p, i))]
            Path(e) == e = [i \in 0..num |-> IF i = 0 THEN dep(p) ELSE NextHop(e[i - 1], x)]
            c == CHOOSE e : Path(e)
<1>0. num \in Nat /\ a \in Nat /\ b \in Nat /\ p \in Nat
  BY ConstantsAssumption
<1>1. Toward(a, b, p, 0) = p
  BY <1>0 DEF Toward
<1>2. ASSUME NEW i \in 1..num
      PROVE  /\ Toward(a, b, p, i - 1) \in 1..num
             /\ Toward(a, b, p, i) = Toward(a, b, Toward(a, b, p, i - 1), 1)
  <2>1. Toward(a, b, p, i - 1) \in 1..num
    BY <1>0 DEF Toward
  <2>2. Toward(a, b, p, i) = Toward(a, b, Toward(a, b, p, i - 1), 1)
    BY <1>0 DEF Toward
  <2>. QED
    BY <2>1, <2>2
<1>3. ASSUME NEW i \in 1..num PROVE dep(Toward(a, b, p, i)) = NextHop(dep(Toward(a, b, p, i - 1)), x)
  BY <1>2 DEF Passes
<1>4. \E e : Path(e)
  <2>1. ASSUME NEW i \in 0..num
        PROVE  w[i] = IF i = 0 THEN dep(p) ELSE NextHop(w[i - 1], x)
    <3>1. CASE i = 0
      BY <1>0, <1>1, <3>1
    <3>2. CASE i # 0
      <4>1. i \in 1..num /\ i - 1 \in 0..num
        BY <1>0, <3>2
      <4>. QED
        BY <1>3, <3>2, <4>1
    <3>. QED
      BY <3>1, <3>2
  <2>2. w = [i \in 0..num |-> w[i]]
    OBVIOUS
  <2>. HIDE DEF w
  <2>3. Path(w)
    BY <2>1, <2>2
  <2>. HIDE DEF Path
  <2>. QED
    BY <2>3
<1>5. Path(c)
  <2>. HIDE DEF Path
  <2>. QED
    BY <1>4
<1>6. After(dep(p), x, num) = c[num]
  BY DEF After
<1>. HIDE DEF c
<1>7. c[0] = dep(p) /\ \A i \in 1..num : c[i] = NextHop(c[i - 1], x)
  <2>1. 0 \in 0..num /\ \A i \in 1..num : i \in 0..num /\ i # 0
    BY <1>0
  <2>2. \A i \in 0..num : c[i] = IF i = 0 THEN dep(p) ELSE NextHop(c[i - 1], x)
    <3>. HIDE DEF num, dep
    <3>. QED
      BY <1>5
  <2>. QED
    BY <2>1, <2>2
<1>. DEFINE D == {i \in 0..num : c[i] # dep(Toward(a, b, p, i))}
<1>8. ASSUME NEW i \in D, \A j \in D : i <= j PROVE FALSE
  <2>1. i \in 0..num /\ i # 0 /\ c[i] # dep(Toward(a, b, p, i))
    BY <1>1, <1>7
  <2>2. i \in 1..num /\ i - 1 \in 0..num /\ ~(i <= i - 1)
    BY <1>0, <2>1
  <2>3. c[i - 1] = dep(Toward(a, b, p, i - 1))
    BY <1>8, <2>2
  <2>. QED
    BY <1>3, <1>7, <2>1, <2>2, <2>3
<1>9. D = {}
  <2>1. D \in SUBSET Nat
    BY <1>0
  <2>. HIDE DEF D
  <2>. QED
    BY <1>8, <2>1, Least
<1>10. c[num] = dep(Toward(a, b, p, num))
  <2>1. num \in 0..num
    BY <1>0
  <2>. QED
    BY <1>9, <2>1
<1>11. Toward(a, b, p, num) \in a..b
  BY <1>0 DEF Toward
<1>. QED
  BY <1>6, <1>10, <1>11

\* A chain that carries is routed.
LEMMA CarriesRouted ==
  ASSUME ChainsApart, CarryInv, NEW k \in Chains, Carries(k) PROVE Routed(k)
<1>. DEFINE num == Len(DepsOf[k])
            dep(q) == DepsOf[k][q]
<1>0. num \in Nat /\ num > 0 /\ 1 \in 1..num /\ num \in 1..num
  BY ConstantsAssumption
<1>1. /\ \A q \in 1..num : Leftward(k, q, "left") /\ Rightward(k, q, "right")
      /\ \A q \in 1..num : <<dep(q), "left">> \notin Attached /\ <<dep(q), "right">> \notin Attached
  BY AttachedEnds DEF Leftward, Rightward
<1>. DEFINE Xs == {"left", "right"} \cup Nets
<1>2. ASSUME NEW q \in 1..num, NEW x \in Xs, <<dep(q), x>> \notin Attached
      PROVE  /\ Leftward(k, q, x) /\ q > 1 => NextHop(dep(q), x) = dep(q - 1)
             /\ Leftward(k, q, x) /\ q = 1 => NextHop(dep(q), x) = dep(q) /\ rt[dep(q)][x] = "left"
             /\ Rightward(k, q, x) /\ q < num => NextHop(dep(q), x) = dep(q + 1)
             /\ Rightward(k, q, x) /\ q = num => NextHop(dep(q), x) = dep(q) /\ rt[dep(q)][x] = "right"
  BY SMTT(30), <1>2, CarriesHop
<1>3. ASSUME NEW x, NEW a \in 1..num, NEW b \in 1..num, a <= b, NEW p \in 1..num,
             Passes(k, x, a, b)
      PROVE  \E q \in a..b : After(dep(p), x, num) = dep(q)
  BY <1>3, Walk
<1>4. "left" \in Xs /\ "right" \in Xs /\ \A j \in 1..Len(NetsOf[k]) : NetsOf[k][j] \in Xs
  BY ConstantsAssumption
<1>. HIDE DEF dep, num, Xs
<1>5. Passes(k, "left", 1, 1)
  <2>. SUFFICES ASSUME NEW q \in 1..num PROVE NextHop(dep(q), "left") = dep(Toward(1, 1, q, 1))
    BY DEF Passes, dep, num
  <2>1. CASE q = 1
    <3>1. Toward(1, 1, q, 1) = q
      BY <2>1 DEF Toward
    <3>2. NextHop(dep(q), "left") = dep(q)
      BY <1>1, <1>2, <1>4, <2>1
    <3>. QED
      BY <3>1, <3>2
  <2>2. CASE q # 1
    <3>1. q > 1 /\ Toward(1, 1, q, 1) = q - 1
      BY <1>0, <2>2 DEF Toward
    <3>. QED
      BY ZenonT(40), <1>1, <1>2, <1>4, <3>1
  <2>. QED
    BY <2>1, <2>2
<1>6. Passes(k, "right", num, num)
  <2>. SUFFICES ASSUME NEW q \in 1..num PROVE NextHop(dep(q), "right") = dep(Toward(num, num, q, 1))
    BY DEF Passes, dep, num
  <2>1. CASE q = num
    <3>1. Toward(num, num, q, 1) = q
      BY <1>0, <2>1 DEF Toward
    <3>. QED
      BY ZenonT(40), <1>1, <1>2, <1>4, <2>1, <3>1
  <2>2. CASE q # num
    <3>1. q < num /\ Toward(num, num, q, 1) = q + 1
      BY <1>0, <2>2 DEF Toward
    <3>. QED
      BY <1>1, <1>2, <1>4, <3>1
  <2>. QED
    BY <2>1, <2>2
<1>7. ASSUME NEW j \in 1..num - 1 PROVE Passes(k, NetsOf[k][j], j, j + 1)
  <2>. DEFINE x == NetsOf[k][j]
  <2>. SUFFICES ASSUME NEW q \in 1..num PROVE NextHop(dep(q), x) = dep(Toward(j, j + 1, q, 1))
    BY DEF Passes, dep, num
  <2>0. j \in Nat /\ q \in Nat /\ j \in 1..Len(NetsOf[k]) /\ x \in Xs
    BY <1>0, ConstantsAssumption DEF num, Xs
  <2>1. <<dep(q), x>> \in Attached <=> q \in {j, j + 1}
    BY AttachedEnds DEF dep, num
  <2>2. CASE q \in {j, j + 1}
    <3>1. Toward(j, j + 1, q, 1) = q
      BY <2>0, <2>2 DEF Toward
    <3>2. NextHop(dep(q), x) = dep(q)
      BY <2>1, <2>2 DEF NextHop
    <3>. QED
      BY <3>1, <3>2
  <2>3. CASE q \notin {j, j + 1} /\ q < j
    <3>1. q < num /\ Toward(j, j + 1, q, 1) = q + 1
      BY <1>0, <2>0, <2>3 DEF Toward
    <3>2. Rightward(k, q, x)
      BY <2>0, <2>3 DEF Rightward
    <3>. HIDE DEF x
    <3>. QED
      BY <1>2, <2>0, <2>1, <2>3, <3>1, <3>2
  <2>4. CASE q \notin {j, j + 1} /\ ~(q < j)
    <3>1. q > 1 /\ j < q - 1 /\ Toward(j, j + 1, q, 1) = q - 1
      BY <1>0, <2>0, <2>4 DEF Toward
    <3>2. Leftward(k, q, x)
      BY <2>0, <3>1 DEF Leftward
    <3>. HIDE DEF x
    <3>. QED
      BY <1>2, <2>0, <2>1, <2>4, <3>1, <3>2
  <2>. QED
    BY <2>2, <2>3, <2>4
<1>8. ASSUME NEW d \in Inside(k)
      PROVE  /\ After(d, "left", num) = dep(1) /\ After(d, "right", num) = dep(num)
             /\ \A j \in 1..num - 1 : After(d, NetsOf[k][j], num) \in Ends(k, j)
  <2>1. PICK p \in 1..num : d = dep(p)
    BY DEF Inside, dep, num
  <2>2. \A q \in 1..1 : q = 1
    OBVIOUS
  <2>3. \A q \in num..num : q = num
    BY <1>0
  <2>4. \E q \in 1..1 : After(d, "left", num) = dep(q)
    BY <1>0, <1>3, <1>5, <2>1
  <2>5. \E q \in num..num : After(d, "right", num) = dep(q)
    BY <1>0, <1>3, <1>6, <2>1
  <2>6. ASSUME NEW j \in 1..num - 1 PROVE After(d, NetsOf[k][j], num) \in Ends(k, j)
    <3>1. j \in 1..num /\ j + 1 \in 1..num /\ j <= j + 1 /\ \A q \in j..j + 1 : q = j \/ q = j + 1
      BY <1>0
    <3>2. \E q \in j..j + 1 : After(d, NetsOf[k][j], num) = dep(q)
      BY <1>3, <1>7, <2>1, <3>1
    <3>. QED
      BY <3>1, <3>2 DEF Ends, dep
  <2>. QED
    BY <2>2, <2>3, <2>4, <2>5, <2>6
<1>9. rt[dep(1)]["left"] = "left" /\ rt[dep(num)]["right"] = "right"
  BY <1>0, <1>1, <1>2, <1>4
<1>. QED
  BY <1>8, <1>9 DEF Routed, dep, num

\* createChain, SendRouteNotif, ContainerAddRoute: a chain that is reported Created,
\* whose messages were read and whose first pods run and missed none, carries packets
\* from each of its pods to each of its networks and out at both ends, for chains of
\* any number and length that share no deployment, and whatever was lost, repeated or
\* restarted on the way.
THEOREM CreatedMeansRoutedHolds ==
  ASSUME ChainsApart PROVE Spec => []CreatedMeansRouted
<1>1. Init => CarryInv
  BY CarryInit
<1>2. CarryInv /\ [Next]_vars => CarryInv'
  BY CarryStep
<1>3. CarryInv => CreatedMeansRouted
  BY SettledCarries, CarriesRouted DEF CreatedMeansRouted
<1>. QED
  BY <1>1, <1>2, <1>3, PTL DEF Spec
=============================================================================

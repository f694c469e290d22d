-------------------------- MODULE CniServerProofs --------------------------
(***************************************************************************)
(* Safety of CniServer for every annotation, every number of sandboxes and *)
(* every bound, by one inductive invariant.                                *)
(***************************************************************************)
EXTENDS CniServer, TLAPS

(***************************************************************************)
(* The inductive invariant.  Its parts are stated of values, so that most  *)
(* of the proof is about one request r of sandbox s, whose namespace is n, *)
(* while br-int holds the ports o and the runtime knows c.                 *)
(***************************************************************************)
\* Every address points at the container end of its own entry.
Consistent(res) ==
  \A k \in DOMAIN res.ips :
    /\ res.ips[k].at + 1 \in DOMAIN res.ifs
    /\ res.ifs[res.ips[k].at + 1] = [end |-> "cont", of |-> res.ips[k].of]

\* The first k entries of annotation a have their links, and the one for the
\* default interface has the routes it needs.
InNetns(n, a, ifname, k) ==
  n # NoVal =>
    /\ \A j \in 1..k : Dev(a[j], ifname) \in n.devs
    /\ ifname = "eth0" /\ (\E j \in 1..k : a[j].intf = "*") =>
         n.dflt # NoVal /\ (n.dflt # "eth0" => n.host = GetHostNetwork)

\* The first k entries have their ports.
OnBridge(s, o, a, k) == \A j \in 1..k : [sb |-> s, idx |-> j, port |-> a[j].intf] \in o

\* The request is in the first or the second half of the loop's body.
Looping(r) == r.pc \in {"setup", "plug"}

\* How far the loop is.
LoopInv(r) ==
  /\ r.pc = "poll" => r.i = 1 /\ r.result = NoVal /\ r.isDefaultGW = FALSE
  /\ Looping(r) => r.i <= Len(r.ann) + 1
  /\ r.pc = "plug" => r.i <= Len(r.ann) /\ r.i <= NameRoom

\* What the result lists.
ResultInv(r) ==
  /\ r.result # NoVal => Consistent(r.result)
  /\ Looping(r) /\ r.i = 1 => r.result = NoVal
  /\ Looping(r) /\ r.i # 1 => r.result # NoVal /\ Len(r.result.ifs) = 2 * (r.i - 1)
  /\ r.pc = "routes" /\ r.result # NoVal => Len(r.result.ifs) = 2 * Len(r.ann)

\* What the loop has made in the namespace.
NetnsInv(r, n) ==
  /\ r.pc = "setup" => InNetns(n, r.ann, r.ifname, r.i - 1)
  /\ r.pc = "plug" => InNetns(n, r.ann, r.ifname, r.i)
  /\ r.pc = "routes" /\ r.result # NoVal => InNetns(n, r.ann, r.ifname, Len(r.ann))
  /\ Looping(r) /\ r.isDefaultGW /\ n # NoVal => n.dflt # NoVal

\* What it has made on br-int, while the runtime waits for it.
BridgeInv(s, r, o, c) ==
  c = "add" =>
    /\ Looping(r) => OnBridge(s, o, r.ann, r.i - 1)
    /\ r.pc = "routes" /\ r.result # NoVal => OnBridge(s, o, r.ann, Len(r.ann))

RequestInv(s, r, n, o, c) ==
  LoopInv(r) /\ ResultInv(r) /\ NetnsInv(r, n) /\ BridgeInv(s, r, o, c)

\* A successful ADD.
AnswerInv(s, a, ifname, n, o) ==
  n # NoVal /\ a.result.ifs # <<>> =>
    /\ Len(a.result.ifs) = 2 * Len(a.ann) /\ DOMAIN a.ann = 1..Len(a.ann)
    /\ InNetns(n, a.ann, ifname, Len(a.ann))
    /\ OnBridge(s, o, a.ann, Len(a.ann))

\* The requests that the server works on and what the runtime knows.
CallInv(s) ==
  /\ del[s] # NoVal => call[s] = "del"
  /\ add[s] # NoVal => call[s] \in {"add", "stop", "del", "deleted"}
  /\ add[s] # NoVal /\ call[s] = "add" => add[s].ifname = env[s].ifname
  /\ call[s] \in {"exec", "add", "added", "stop", "del"} => env[s] \in Envs

\* While a DEL that nothing disturbs goes on only the names to come have ports.
LeakInv(s) ==
  /\ call[s] \in {"del", "deleted"} /\ add[s] # NoVal => s \in stuck \cup late
  /\ call[s] = "del" /\ s \notin stuck \cup late =>
       \A x \in ovs : x.sb = s => x.idx >= del[s]
  /\ call[s] = "deleted" /\ s \notin stuck \cup late => \A x \in ovs : x.sb # s

SandboxInv(s) ==
  /\ CallInv(s) /\ LeakInv(s)
  /\ add[s] # NoVal => RequestInv(s, add[s], netns[s], ovs, call[s])
  /\ call[s] = "added" => AnswerInv(s, answer[s], env[s].ifname, netns[s], ovs)
  /\ answer[s] # NoVal => Consistent(answer[s].result)

\* A network namespace.
Namespaces ==
  [devs: SUBSET Devs, dflt: Devs \cup {NoVal}, host: {GetHostNetwork, NoVal}]
NetnsType == netns \in [Sandboxes -> Namespaces \cup {NoVal}]

IInv == TypeOK /\ NetnsType /\ \A s \in Sandboxes : SandboxInv(s)

(***************************************************************************)
(* Type correctness, by parts of the state.                                *)
(***************************************************************************)
PodType ==
  /\ pod \in [ifs: Annotations \cup {NoVal}, routes: RouteLists \cup {NoVal}] \cup {NoVal}
  /\ conf \in ConfFiles /\ up \in BOOLEAN /\ pods \in 0..MaxPods

Calls == {"none", "exec", "add", "added", "stop", "del", "deleted"}
CallType == call \in [Sandboxes -> Calls] /\ env \in [Sandboxes -> Envs \cup {NoVal}]

Requests ==
  [pc: {"poll", "setup", "plug", "routes"}, ifname: Devs, tries: 0..(Steps - 1), i: Nat \ {0},
   ann: Annotations \cup {<<>>}, routes: RouteLists \cup {NoVal},
   isDefaultGW: BOOLEAN, result: Results \cup {NoVal}]
AddType == add \in [Sandboxes -> Requests \cup {NoVal}]
DelType == del \in [Sandboxes -> (0..(DelTries - 1)) \cup {NoVal}]

PortType == ovs \subseteq [sb: Sandboxes, idx: 1..NameRoom, port: Devs \cup {"*"}]

Answers == [ann: Annotations \cup {<<>>}, result: Results]
AnswerType == answer \in [Sandboxes -> Answers \cup {NoVal}]

CountType == stuck \subseteq Sandboxes /\ late \subseteq Sandboxes /\ faults \in 0..MaxFaults

\* The parts together are the invariant's types.
Types ==
  /\ PodType /\ CallType /\ AddType /\ DelType /\ PortType /\ AnswerType /\ CountType
  /\ NetnsType

\* The namespaces' type implies what TypeOK says of them.
LEMMA TypeParts == TypeOK /\ NetnsType <=> Types
<1>1. TypeOK => PodType /\ CallType /\ AddType /\ DelType /\ PortType /\ AnswerType /\ CountType
  BY DEF TypeOK, PodType, CallType, Calls, AddType, Requests, DelType, PortType, AnswerType,
         Answers, CountType
<1>2. NetnsType => \A s \in Sandboxes : netns[s] # NoVal =>
        netns[s].devs \subseteq Devs /\ netns[s].dflt \in Devs \cup {NoVal}
  BY DEF NetnsType, Namespaces
<1>3. Types => TypeOK
  BY <1>2 DEF Types, TypeOK, PodType, CallType, Calls, AddType, Requests, DelType, PortType,
         AnswerType, Answers, CountType
<1>. QED
  BY <1>1, <1>3 DEF Types

\* Also in the next state.
LEMMA TypePartsNext ==
  ASSUME PodType', CallType', AddType', DelType', PortType', AnswerType', CountType', NetnsType'
  PROVE  TypeOK'
<1>2. \A s \in Sandboxes : netns'[s] # NoVal =>
        netns'[s].devs \subseteq Devs /\ netns'[s].dflt \in Devs \cup {NoVal}
  BY DEF NetnsType, Namespaces
<1>. QED
  BY <1>2 DEF TypeOK, PodType, CallType, Calls, AddType, Requests, DelType, PortType,
         AnswerType, Answers, CountType

\* The constants, one fact at a time.
LEMMA Constants ==
  /\ "eth0" \in Devs /\ NoVal \notin Devs /\ NoVal \notin Results
  /\ Envs \subseteq [ifname: Devs, given: SUBSET EnvVars, conf: BOOLEAN]
  /\ Annotations \subseteq Seq(Entries)
BY ConstantsAssumption

\* The bounds are numbers, and cmdDel tries more names than setupInterface gives.
LEMMA Bounds ==
  /\ Steps \in Nat /\ Steps # 0 /\ NameRoom \in Nat /\ DelTries \in Nat /\ NameRoom < DelTries
  /\ MaxPods \in Nat /\ MaxFaults \in Nat
BY ConstantsAssumption

\* Parts that a step leaves alone keep their types.
LEMMA TypeKept ==
  /\ PodType /\ UNCHANGED <<pod, conf, up, pods>> => PodType'
  /\ CallType /\ UNCHANGED <<call, env>> => CallType'
  /\ AddType /\ UNCHANGED add => AddType'
  /\ DelType /\ UNCHANGED del => DelType'
  /\ PortType /\ UNCHANGED ovs => PortType'
  /\ AnswerType /\ UNCHANGED answer => AnswerType'
  /\ CountType /\ UNCHANGED <<history, faults>> => CountType'
  /\ NetnsType /\ UNCHANGED netns => NetnsType'
BY DEF PodType, CallType, AddType, DelType, PortType, AnswerType, CountType, NetnsType,
       history, Namespaces

\* A failure is counted, up to its bound.
LEMMA FaultCounted ==
  ASSUME CountType, UNCHANGED history, Fault \/ UNCHANGED faults PROVE CountType'
BY Bounds DEF CountType, Fault, history

\* An annotation is a sequence of entries.
LEMMA AnnType ==
  ASSUME NEW a \in Annotations \cup {<<>>}
  PROVE  a \in Seq(Entries) /\ Len(a) \in Nat /\ DOMAIN a = 1..Len(a)
         /\ \A j \in 1..Len(a) : a[j] \in Entries
<1>1. a = <<>> => a \in Seq(Entries)
  OBVIOUS
<1>2. a \in Annotations => a \in Seq(Entries)
  BY Constants
<1>3. a \in Seq(Entries)
  BY <1>1, <1>2
<1>. QED
  BY <1>3

(***************************************************************************)
(* What the operators on values do.                                        *)
(***************************************************************************)

\* The link's name in the sandbox is one of Devs.
LEMMA DevType ==
  ASSUME NEW e \in Entries, NEW ifname \in Devs PROVE Dev(e, ifname) \in Devs
BY DEF Dev, Entries

\* setupInterface leaves a namespace a namespace, and succeeds only in one that is
\* there, for an entry whose port has a name.
LEMMA SetupType ==
  ASSUME NEW n \in Namespaces \cup {NoVal}, NEW r \in Requests, NEW e \in Entries
  PROVE  /\ n # NoVal => Linked(n, r, e) \in Namespaces
         /\ setupInterface(n, r, e).ns \in Namespaces \cup {NoVal}
         /\ setupInterface(n, r, e).ok =>
              /\ n # NoVal /\ r.i <= NameRoom
              /\ setupInterface(n, r, e).ns = Routed(n, r, e)
              /\ DefaultGateway(r, e) = "true" => n.dflt = NoVal
<1>0. r.ifname \in Devs
  BY DEF Requests
<1>1. Dev(e, r.ifname) \in Devs
  BY <1>0, DevType
<1>2. n # NoVal => Linked(n, r, e) \in Namespaces
  BY <1>1 DEF Linked, Namespaces
<1>3. n # NoVal => Routed(n, r, e) \in Namespaces
  BY <1>1, <1>2 DEF Routed, Namespaces
<1>. QED
  BY <1>2, <1>3 DEF setupInterface, renameLink

\* The fields that Routed gives a namespace.
LEMMA RoutedFields ==
  ASSUME NEW n \in Namespaces, NEW r \in Requests, NEW e \in Entries
  PROVE  /\ Routed(n, r, e).devs = n.devs \cup {Dev(e, r.ifname)}
         /\ Routed(n, r, e).dflt =
              IF DefaultGateway(r, e) = "true" THEN Dev(e, r.ifname) ELSE n.dflt
         /\ Routed(n, r, e).host = IF HostRoute(r, e) THEN GetHostNetwork ELSE n.host
BY DEF Routed, Linked, Namespaces

\* A step of the loop that succeeds keeps what the ones before have made, and makes
\* the link and the routes of its own entry.
LEMMA SetupMakes ==
  ASSUME NEW n \in Namespaces \cup {NoVal}, NEW r \in Requests,
         r.i <= Len(r.ann), InNetns(n, r.ann, r.ifname, r.i - 1),
         r.isDefaultGW /\ n # NoVal => n.dflt # NoVal,
         setupInterface(n, r, r.ann[r.i]).ok
  PROVE  LET m == setupInterface(n, r, r.ann[r.i]).ns
         IN  /\ InNetns(m, r.ann, r.ifname, r.i)
             /\ IsDefaultGW(r, r.ann[r.i]) => m.dflt # NoVal
<1>. DEFINE e == r.ann[r.i]
<1>. DEFINE m == setupInterface(n, r, e).ns
<1>1. r.ann \in Annotations \cup {<<>>} /\ r.i \in Nat /\ r.i # 0 /\ r.ifname \in Devs
      /\ r.isDefaultGW \in BOOLEAN
  BY DEF Requests
<1>2. r.i \in 1..Len(r.ann) /\ e \in Entries /\ Len(r.ann) \in Nat
  BY <1>1, AnnType
<1>3. n \in Namespaces /\ n # NoVal /\ m = Routed(n, r, e)
      /\ (DefaultGateway(r, e) = "true" => n.dflt = NoVal)
  BY ZenonT(40), <1>2, SetupType
<1>4. Dev(e, r.ifname) \in Devs /\ Dev(e, r.ifname) # NoVal
  BY <1>1, <1>2, DevType, Constants
<1>. HIDE DEF e, m
<1>5. /\ m.devs = n.devs \cup {Dev(e, r.ifname)}
      /\ m.dflt = IF DefaultGateway(r, e) = "true" THEN Dev(e, r.ifname) ELSE n.dflt
      /\ m.host = IF HostRoute(r, e) THEN GetHostNetwork ELSE n.host
  BY <1>2, <1>3, RoutedFields
<1>6. \A j \in 1..r.i : Dev(r.ann[j], r.ifname) \in m.devs
  <2>1. ASSUME NEW j \in 1..r.i, j # r.i PROVE Dev(r.ann[j], r.ifname) \in m.devs
    <3>1. j \in 1..(r.i - 1)
      BY <1>1, <2>1
    <3>. QED
      BY <3>1, <1>3, <1>5 DEF InNetns
  <2>2. Dev(r.ann[r.i], r.ifname) \in m.devs
    BY <1>5 DEF e
  <2>. QED
    BY <2>1, <2>2
<1>7. IsDefaultGW(r, e) => m.dflt # NoVal
  <2>1. CASE r.isDefaultGW
    BY <2>1, <1>3, <1>4, <1>5
  <2>2. CASE ~r.isDefaultGW
    BY <2>2, <1>4, <1>5 DEF IsDefaultGW, DefaultGateway
  <2>. QED
    BY <2>1, <2>2
<1>8. ASSUME r.ifname = "eth0", NEW j \in 1..r.i, r.ann[j].intf = "*"
      PROVE  m.dflt # NoVal /\ (m.dflt # "eth0" => m.host = GetHostNetwork)
  <2>1. CASE j = r.i
    <3>1. e.intf = "*"
      BY <2>1, <1>8 DEF e
    <3>2. Dev(e, r.ifname) = "eth0"
      BY <3>1, <1>8 DEF Dev
    <3>3. CASE r.isDefaultGW
      <4>1. DefaultGateway(r, e) = "false"
        BY <3>1, <3>3 DEF DefaultGateway
      <4>2. HostRoute(r, e)
        BY <3>2, <3>3, <4>1 DEF HostRoute, IsDefaultGW
      <4>. QED
        BY <4>1, <4>2, <1>3, <1>5, <3>3
    <3>4. CASE ~r.isDefaultGW
      <4>1. DefaultGateway(r, e) = "true"
        BY <3>1, <3>4, <1>8 DEF DefaultGateway
      <4>. QED
        BY <4>1, <3>2, <1>4, <1>5
    <3>. QED
      BY <3>3, <3>4
  <2>2. CASE j # r.i
    <3>1. j \in 1..(r.i - 1)
      BY <1>1, <2>2
    <3>2. n.dflt # NoVal /\ (n.dflt # "eth0" => n.host = GetHostNetwork)
      BY <3>1, <1>8, <1>3 DEF InNetns
    <3>3. m.dflt = n.dflt
      BY <3>2, <1>3, <1>5
    <3>. QED
      BY <3>2, <3>3, <1>5
  <2>. QED
    BY <2>1, <2>2
<1>9. InNetns(m, r.ann, r.ifname, r.i)
  BY <1>6, <1>8 DEF InNetns
<1>. QED
  BY <1>7, <1>9 DEF m, e

\* The result of one entry.
LEMMA InterfaceResultType ==
  ASSUME NEW i \in Nat
  PROVE  /\ InterfaceResult(i) \in Results /\ InterfaceResult(i) # NoVal
         /\ Len(InterfaceResult(i).ifs) = 2 /\ Consistent(InterfaceResult(i))
<1>1. InterfaceResult(i) \in Results
  BY DEF InterfaceResult, Results
<1>2. Consistent(InterfaceResult(i))
  BY DEF InterfaceResult, Consistent
<1>. QED
  BY <1>1, <1>2, Constants DEF InterfaceResult

\* The places of two sequences in their concatenation.
LEMMA ConcatPlaces ==
  ASSUME NEW S, NEW a \in Seq(S), NEW b \in Seq(S)
  PROVE  /\ a \o b \in Seq(S) /\ Len(a \o b) = Len(a) + Len(b)
         /\ Len(a) \in Nat /\ Len(b) \in Nat
         /\ DOMAIN a = 1..Len(a) /\ DOMAIN b = 1..Len(b)
         /\ DOMAIN (a \o b) = 1..(Len(a) + Len(b))
         /\ \A x \in 1..Len(a) : (a \o b)[x] = a[x]
         /\ \A x \in 1..Len(b) : (a \o b)[x + Len(a)] = b[x]
<1>1. /\ a \o b \in Seq(S) /\ Len(a \o b) = Len(a) + Len(b)
      /\ Len(a) \in Nat /\ Len(b) \in Nat
      /\ DOMAIN a = 1..Len(a) /\ DOMAIN b = 1..Len(b)
  OBVIOUS
<1>2. DOMAIN (a \o b) = 1..(Len(a) + Len(b))
  OBVIOUS
<1>3. \A x \in 1..Len(a) : (a \o b)[x] = a[x]
  OBVIOUS
<1>4. \A x \in 1..Len(b) : (a \o b)[x + Len(a)] = b[x]
  <2>. SUFFICES ASSUME NEW x \in 1..Len(b) PROVE (a \o b)[x + Len(a)] = b[x]
    OBVIOUS
  <2>1. x + Len(a) \in 1..(Len(a) + Len(b)) /\ x + Len(a) > Len(a) /\ (x + Len(a)) - Len(a) = x
    BY <1>1
  <2>. QED
    BY <2>1, <1>1
<1>. QED
  BY <1>1, <1>2, <1>3, <1>4

Ifs == [end: {"host", "cont"}, of: Nat]
Ips == [of: Nat, at: Nat]

\* The addresses q, moved up by d places.
Moved(q, d) == [k \in DOMAIN q |-> [q[k] EXCEPT !.at = @ + d]]

\* Moving changes the places and nothing else.
LEMMA MovedFields ==
  ASSUME NEW q \in Seq(Ips), NEW d \in Nat
  PROVE  /\ Moved(q, d) \in Seq(Ips) /\ Len(Moved(q, d)) = Len(q)
         /\ \A k \in 1..Len(q) : q[k].at \in Nat /\ Moved(q, d)[k].of = q[k].of
                                 /\ Moved(q, d)[k].at = q[k].at + d
<1>1. \A y \in Ips : /\ y.at \in Nat /\ [y EXCEPT !.at = @ + d] \in Ips
                     /\ [y EXCEPT !.at = @ + d].of = y.of
                     /\ [y EXCEPT !.at = @ + d].at = y.at + d
  BY DEF Ips
<1>2. Len(q) \in Nat /\ DOMAIN q = 1..Len(q) /\ \A k \in 1..Len(q) : q[k] \in Ips
  OBVIOUS
<1>3. Moved(q, d) \in [1..Len(q) -> Ips]
  BY <1>1, <1>2 DEF Moved
<1>4. Moved(q, d) \in Seq(Ips) /\ Len(Moved(q, d)) = Len(q)
  BY <1>2, <1>3
<1>5. \A k \in 1..Len(q) : Moved(q, d)[k] = [q[k] EXCEPT !.at = @ + d]
  BY <1>2 DEF Moved
<1>. QED
  BY <1>1, <1>2, <1>4, <1>5

\* The addresses p of interfaces a, and those q of interfaces b moved up by the
\* interfaces before, still point at their own.
LEMMA MergedPlaces ==
  ASSUME NEW a \in Seq(Ifs), NEW b \in Seq(Ifs), NEW p \in Seq(Ips), NEW q \in Seq(Ips),
         \A k \in 1..Len(p) : p[k].at + 1 \in 1..Len(a)
                              /\ a[p[k].at + 1] = [end |-> "cont", of |-> p[k].of],
         \A k \in 1..Len(q) : q[k].at + 1 \in 1..Len(b)
                              /\ b[q[k].at + 1] = [end |-> "cont", of |-> q[k].of],
         NEW k \in DOMAIN (p \o Moved(q, Len(a)))
  PROVE  LET y == (p \o Moved(q, Len(a)))[k]
         IN  y.at + 1 \in DOMAIN (a \o b) /\ (a \o b)[y.at + 1] = [end |-> "cont", of |-> y.of]
<1>. DEFINE m == Moved(q, Len(a))
            c == a \o b
            t == p \o m
<1>1. /\ Len(a) \in Nat /\ Len(b) \in Nat /\ DOMAIN c = 1..(Len(a) + Len(b))
      /\ \A x \in 1..Len(a) : c[x] = a[x]
      /\ \A x \in 1..Len(b) : c[x + Len(a)] = b[x]
  BY ConcatPlaces
<1>2. /\ m \in Seq(Ips) /\ Len(m) = Len(q)
      /\ \A j \in 1..Len(q) : q[j].at \in Nat /\ m[j].of = q[j].of /\ m[j].at = q[j].at + Len(a)
  BY <1>1, MovedFields
<1>. HIDE DEF m, c
<1>3. /\ Len(p) \in Nat /\ Len(q) \in Nat /\ DOMAIN t = 1..(Len(p) + Len(q))
      /\ \A x \in 1..Len(p) : t[x] = p[x]
      /\ \A x \in 1..Len(q) : t[x + Len(p)] = m[x]
  <2>1. /\ Len(p) \in Nat /\ Len(m) \in Nat /\ DOMAIN t = 1..(Len(p) + Len(m))
        /\ \A x \in 1..Len(p) : t[x] = p[x]
        /\ \A x \in 1..Len(m) : t[x + Len(p)] = m[x]
    <3>1. m \in Seq(Ips)
      BY <1>2
    <3>. QED
      BY <3>1, ConcatPlaces
  <2>. HIDE DEF t
  <2>. QED
    BY <2>1, <1>2
<1>4. k \in 1..(Len(p) + Len(q))
  BY <1>3 DEF m
<1>. HIDE DEF t
<1>5. CASE k <= Len(p)
  <2>1. k \in 1..Len(p)
    BY <1>3, <1>4, <1>5
  <2>2. t[k] = p[k] /\ p[k].at + 1 \in 1..Len(a)
        /\ a[p[k].at + 1] = [end |-> "cont", of |-> p[k].of]
    BY <2>1, <1>3
  <2>3. p[k].at + 1 \in DOMAIN c /\ c[p[k].at + 1] = a[p[k].at + 1]
    BY <2>2, <1>1
  <2>. QED
    BY <2>2, <2>3 DEF t, m, c
<1>6. CASE k > Len(p)
  <2>. DEFINE j == k - Len(p)
  <2>1. j \in 1..Len(q) /\ k = j + Len(p)
    BY <1>3, <1>4, <1>6
  <2>. HIDE DEF j
  <2>2. t[k] = m[j]
    BY <2>1, <1>3
  <2>3. /\ t[k].of = q[j].of /\ t[k].at + 1 = (q[j].at + 1) + Len(a)
        /\ q[j].at + 1 \in 1..Len(b) /\ b[q[j].at + 1] = [end |-> "cont", of |-> q[j].of]
    <3>1. q[j].at \in Nat /\ m[j].of = q[j].of /\ m[j].at = q[j].at + Len(a)
      BY <2>1, <1>2
    <3>2. q[j].at + Len(a) + 1 = (q[j].at + 1) + Len(a)
      BY <3>1, <1>1
    <3>3. q[j].at + 1 \in 1..Len(b) /\ b[q[j].at + 1] = [end |-> "cont", of |-> q[j].of]
      BY <2>1
    <3>. QED
      BY <2>2, <3>1, <3>2, <3>3
  <2>4. (q[j].at + 1) + Len(a) \in DOMAIN c
        /\ c[(q[j].at + 1) + Len(a)] = b[q[j].at + 1]
    <3>. DEFINE x == q[j].at + 1
    <3>1. x \in 1..Len(b)
      BY <2>3
    <3>. HIDE DEF x
    <3>2. x + Len(a) \in 1..(Len(a) + Len(b))
      BY <3>1, <1>1
    <3>. QED
      BY <3>1, <3>2, <1>1 DEF x
  <2>. QED
    BY <2>3, <2>4 DEF t, m, c
<1>7. k <= Len(p) \/ k > Len(p)
  BY <1>3, <1>4
<1>. QED
  BY <1>5, <1>6, <1>7

\* mergeWithResult lists the interfaces of both, and an address keeps its own.
LEMMA MergeKeeps ==
  ASSUME NEW src \in Results, NEW dst \in Results, dst # NoVal,
         Consistent(src), Consistent(dst)
  PROVE  LET res == mergeWithResult(src, dst)
         IN  /\ res \in Results /\ res.ifs = dst.ifs \o src.ifs
             /\ Len(res.ifs) = Len(dst.ifs) + Len(src.ifs) /\ Consistent(res)
<1>1. PICK a \in Seq(Ifs), p \in Seq(Ips) : dst = [ifs |-> a, ips |-> p]
  BY DEF Results, Ifs, Ips
<1>2. PICK b \in Seq(Ifs), q \in Seq(Ips) : src = [ifs |-> b, ips |-> q]
  BY DEF Results, Ifs, Ips
<1>. DEFINE res == mergeWithResult(src, dst)
<1>3. res = [ifs |-> a \o b, ips |-> p \o Moved(q, Len(a))]
  BY <1>1, <1>2 DEF mergeWithResult, Moved
<1>4. /\ a \o b \in Seq(Ifs) /\ Len(a \o b) = Len(a) + Len(b) /\ Len(a) \in Nat
      /\ DOMAIN a = 1..Len(a) /\ DOMAIN b = 1..Len(b)
      /\ DOMAIN p = 1..Len(p) /\ DOMAIN q = 1..Len(q)
  BY ConcatPlaces
<1>5. p \o Moved(q, Len(a)) \in Seq(Ips)
  BY <1>4, MovedFields, ConcatPlaces
<1>6. res \in Results
  BY <1>3, <1>4, <1>5 DEF Results, Ifs, Ips
<1>7. /\ \A k \in 1..Len(p) : p[k].at + 1 \in 1..Len(a)
                              /\ a[p[k].at + 1] = [end |-> "cont", of |-> p[k].of]
      /\ \A k \in 1..Len(q) : q[k].at + 1 \in 1..Len(b)
                              /\ b[q[k].at + 1] = [end |-> "cont", of |-> q[k].of]
  BY <1>1, <1>2, <1>4 DEF Consistent
<1>8. \A k \in DOMAIN (p \o Moved(q, Len(a))) :
        /\ (p \o Moved(q, Len(a)))[k].at + 1 \in DOMAIN (a \o b)
        /\ (a \o b)[(p \o Moved(q, Len(a)))[k].at + 1]
             = [end |-> "cont", of |-> (p \o Moved(q, Len(a)))[k].of]
  BY ZenonT(40), <1>7, MergedPlaces
<1>. HIDE DEF res
<1>9. res.ifs = a \o b /\ res.ips = p \o Moved(q, Len(a)) /\ dst.ifs = a /\ src.ifs = b
  BY <1>1, <1>2, <1>3
<1>10. Consistent(res)
  BY <1>8, <1>9, Zenon DEF Consistent
<1>. QED
  BY <1>4, <1>6, <1>9, <1>10 DEF res

(***************************************************************************)
(* What a step leaves alone, and the two ways a request goes on.           *)
(***************************************************************************)
\* Nothing of sandbox t changes.
Same(t) ==
  /\ call'[t] = call[t] /\ env'[t] = env[t] /\ add'[t] = add[t] /\ del'[t] = del[t]
  /\ netns'[t] = netns[t] /\ answer'[t] = answer[t]
  /\ (t \in stuck' <=> t \in stuck) /\ (t \in late' <=> t \in late)
  /\ \A x : x.sb = t => (x \in ovs' <=> x \in ovs)

\* Ports of other sandboxes do not matter.
LEMMA OnBridgeKept ==
  ASSUME NEW t, NEW o, NEW p, NEW a, NEW k, \A x : x.sb = t => (x \in p <=> x \in o),
         OnBridge(t, o, a, k)
  PROVE  OnBridge(t, p, a, k)
<1>. SUFFICES ASSUME NEW j \in 1..k PROVE [sb |-> t, idx |-> j, port |-> a[j].intf] \in p
  BY DEF OnBridge
<1>1. [sb |-> t, idx |-> j, port |-> a[j].intf] \in o
  BY DEF OnBridge
<1>2. [sb |-> t, idx |-> j, port |-> a[j].intf].sb = t
  OBVIOUS
<1>. QED
  BY <1>1, <1>2

\* A sandbox of which nothing changes keeps its invariant.
LEMMA SameKept == ASSUME NEW t \in Sandboxes, SandboxInv(t), Same(t) PROVE SandboxInv(t)'
<1>1. CallInv(t)'
  BY DEF SandboxInv, CallInv, Same
<1>2. LeakInv(t)'
  <2>1. \A x \in ovs' : x.sb = t => x \in ovs
    BY DEF Same
  <2>. QED
    BY <2>1 DEF SandboxInv, LeakInv, Same
<1>3. add'[t] # NoVal => RequestInv(t, add'[t], netns'[t], ovs', call'[t])
  <2>. SUFFICES ASSUME add[t] # NoVal PROVE RequestInv(t, add[t], netns[t], ovs', call[t])
    BY DEF Same
  <2>1. RequestInv(t, add[t], netns[t], ovs, call[t])
    BY DEF SandboxInv
  <2>2. \A a, k : OnBridge(t, ovs, a, k) => OnBridge(t, ovs', a, k)
    BY OnBridgeKept DEF Same
  <2>. QED
    BY <2>1, <2>2 DEF RequestInv, BridgeInv
<1>4. call'[t] = "added" => AnswerInv(t, answer'[t], env'[t].ifname, netns'[t], ovs')
  <2>. SUFFICES ASSUME call[t] = "added" PROVE AnswerInv(t, answer[t], env[t].ifname, netns[t], ovs')
    BY DEF Same
  <2>1. AnswerInv(t, answer[t], env[t].ifname, netns[t], ovs)
    BY DEF SandboxInv
  <2>2. \A a, k : OnBridge(t, ovs, a, k) => OnBridge(t, ovs', a, k)
    BY OnBridgeKept DEF Same
  <2>. QED
    BY <2>1, <2>2 DEF AnswerInv
<1>5. answer'[t] # NoVal => Consistent(answer'[t].result)
  BY DEF SandboxInv, Same
<1>. QED
  BY <1>1, <1>2, <1>3, <1>4, <1>5 DEF SandboxInv

\* What every step of an ADD leaves alone.
Served == UNCHANGED <<env, del, history>>

\* The request goes on: what the runtime knows and the answers stay.
LEMMA GoesOn ==
  ASSUME NEW s \in Sandboxes, SandboxInv(s), add[s] # NoVal, Served, UNCHANGED <<call, answer>>,
         add'[s].ifname = add[s].ifname,
         RequestInv(s, add'[s], netns'[s], ovs', call[s])
  PROVE  SandboxInv(s)'
<1>1. CallInv(s)'
  BY DEF SandboxInv, CallInv, Served
<1>2. LeakInv(s)'
  BY DEF SandboxInv, CallInv, LeakInv, Served, history
<1>3. call[s] # "added"
  BY DEF SandboxInv, CallInv
<1>. QED
  BY <1>1, <1>2, <1>3 DEF SandboxInv

\* The request ends: a shim that still waits gets the result.
LEMMA Ends ==
  ASSUME NEW s \in Sandboxes, NEW res, Types, SandboxInv(s), add[s] # NoVal, Served,
         Answer(s, res),
         res # NoVal =>
           /\ Consistent(res)
           /\ call[s] = "add" =>
                AnswerInv(s, [ann |-> add[s].ann, result |-> res], add[s].ifname, netns'[s], ovs')
  PROVE  SandboxInv(s)'
<1>0. call \in [Sandboxes -> Calls] /\ DOMAIN answer = Sandboxes /\ DOMAIN add = Sandboxes
  BY DEF Types, CallType, AnswerType, AddType
<1>1. add'[s] = NoVal /\ env' = env /\ del' = del /\ stuck' = stuck /\ late' = late
  BY <1>0 DEF Answer, Served, history
<1>2. /\ call[s] = "add" /\ res # NoVal => call'[s] = "added"
      /\ call[s] = "add" /\ res = NoVal => call'[s] = "stop"
      /\ call[s] # "add" => call'[s] = call[s]
  BY <1>0 DEF Answer
<1>3. IF call[s] = "add" /\ res # NoVal
        THEN answer'[s] = [ann |-> add[s].ann, result |-> res]
        ELSE answer' = answer
  BY <1>0 DEF Answer
<1>4. CallInv(s)'
  BY <1>1, <1>2 DEF SandboxInv, CallInv
<1>5. LeakInv(s)'
  <2>1. call'[s] \in {"del", "deleted"} => s \in stuck \cup late
    BY <1>2 DEF SandboxInv, CallInv, LeakInv
  <2>. QED
    BY <2>1, <1>1 DEF LeakInv
<1>6. ASSUME call'[s] = "added"
      PROVE  AnswerInv(s, answer'[s], env'[s].ifname, netns'[s], ovs')
  <2>1. call[s] = "add" /\ res # NoVal
    BY <1>6, <1>2 DEF SandboxInv, CallInv
  <2>2. add[s].ifname = env[s].ifname
    BY <2>1 DEF SandboxInv, CallInv
  <2>. QED
    BY <2>1, <2>2, <1>1, <1>3
<1>7. answer'[s] # NoVal => Consistent(answer'[s].result)
  <2>1. CASE call[s] = "add" /\ res # NoVal
    <3>1. answer'[s].result = res
      BY <2>1, <1>3
    <3>. QED
      BY <2>1, <3>1
  <2>2. CASE ~(call[s] = "add" /\ res # NoVal)
    BY <2>2, <1>3 DEF SandboxInv
  <2>. QED
    BY <2>1, <2>2
<1>. QED
  BY <1>1, <1>4, <1>5, <1>6, <1>7 DEF SandboxInv

\* The types after the request has ended, and what that does to the others.
LEMMA EndsTypes ==
  ASSUME NEW s \in Sandboxes, NEW res \in Results \cup {NoVal}, Types, add[s] # NoVal,
         Answer(s, res), UNCHANGED env
  PROVE  /\ CallType' /\ AddType' /\ AnswerType'
         /\ \A t \in Sandboxes \ {s} :
              call'[t] = call[t] /\ add'[t] = add[t] /\ answer'[t] = answer[t]
<1>1. call \in [Sandboxes -> Calls] /\ env \in [Sandboxes -> Envs \cup {NoVal}]
      /\ add \in [Sandboxes -> Requests \cup {NoVal}]
      /\ answer \in [Sandboxes -> Answers \cup {NoVal}]
  BY DEF Types, CallType, AnswerType, AddType
<1>2. add[s].ann \in Annotations \cup {<<>>}
  BY <1>1 DEF Requests
<1>3. res # NoVal => [ann |-> add[s].ann, result |-> res] \in Answers
  BY <1>2 DEF Answers
<1>4. AddType' /\ \A t \in Sandboxes \ {s} : add'[t] = add[t]
  BY <1>1 DEF AddType, Answer
<1>5. CallType' /\ \A t \in Sandboxes \ {s} : call'[t] = call[t]
  BY <1>1 DEF CallType, Calls, Answer
<1>6. AnswerType' /\ \A t \in Sandboxes \ {s} : answer'[t] = answer[t]
  <2>1. CASE call[s] = "add" /\ res # NoVal
    BY <2>1, <1>1, <1>3 DEF AnswerType, Answer
  <2>2. CASE ~(call[s] = "add" /\ res # NoVal)
    BY <2>2, <1>1 DEF AnswerType, Answer
  <2>. QED
    BY <2>1, <2>2
<1>. QED
  BY <1>4, <1>5, <1>6

\* The fields of a request.
LEMMA RequestFields ==
  ASSUME NEW r \in Requests
  PROVE  /\ r.pc \in {"poll", "setup", "plug", "routes"} /\ r.ifname \in Devs
         /\ r.tries \in 0..(Steps - 1) /\ r.i \in Nat /\ r.i # 0
         /\ r.ann \in Annotations \cup {<<>>} /\ r.routes \in RouteLists \cup {NoVal}
         /\ r.isDefaultGW \in BOOLEAN /\ r.result \in Results \cup {NoVal}
BY DEF Requests

\* The interfaces are all there, or there is no result.
Finished(s, r, res, n, o, c) ==
  res # NoVal =>
    /\ Consistent(res) /\ Len(res.ifs) = 2 * Len(r.ann)
    /\ InNetns(n, r.ann, r.ifname, Len(r.ann))
    /\ c = "add" => OnBridge(s, o, r.ann, Len(r.ann))

\* The part of a step that the request of s takes in the server.
RequestStep(s) ==
  /\ SandboxInv(s)' /\ CallType' /\ AddType' /\ AnswerType'
  /\ \A t \in Sandboxes \ {s} :
       call'[t] = call[t] /\ add'[t] = add[t] /\ answer'[t] = answer[t]

\* A request that ends is such a step.
LEMMA EndsStep ==
  ASSUME NEW s \in Sandboxes, NEW res \in Results \cup {NoVal}, Types, SandboxInv(s),
         add[s] # NoVal, Served, Answer(s, res),
         res # NoVal =>
           /\ Consistent(res)
           /\ call[s] = "add" =>
                AnswerInv(s, [ann |-> add[s].ann, result |-> res], add[s].ifname, netns'[s], ovs')
  PROVE  RequestStep(s)
<1>1. SandboxInv(s)'
  BY Ends
<1>2. UNCHANGED env
  BY DEF Served
<1>. QED
  BY <1>1, <1>2, EndsTypes DEF RequestStep

\* A request that goes on is such a step.
LEMMA GoesOnStep ==
  ASSUME NEW s \in Sandboxes, NEW q \in Requests, Types, SandboxInv(s), add[s] # NoVal, Served,
         add' = [add EXCEPT ![s] = q], UNCHANGED <<call, answer>>, q.ifname = add[s].ifname,
         RequestInv(s, q, netns'[s], ovs', call[s])
  PROVE  RequestStep(s)
<1>1. add \in [Sandboxes -> Requests \cup {NoVal}]
  BY DEF Types, AddType
<1>2. add'[s] = q /\ (\A t \in Sandboxes \ {s} : add'[t] = add[t]) /\ AddType'
  BY <1>1 DEF AddType
<1>3. SandboxInv(s)'
  BY <1>2, GoesOn
<1>4. CallType' /\ AnswerType'
  BY TypeKept DEF Types, Served
<1>. QED
  BY <1>2, <1>3, <1>4 DEF RequestStep

\* A request with another next call, number and result.
Updated(r, c, i, res) == [r EXCEPT !.pc = c, !.i = i, !.result = res]

\* It is a request, and the same one otherwise.
LEMMA RequestUpdate ==
  ASSUME NEW r \in Requests, NEW c \in {"poll", "setup", "plug", "routes"}, NEW i \in Nat \ {0},
         NEW res \in Results \cup {NoVal}
  PROVE  LET q == Updated(r, c, i, res)
         IN  /\ q \in Requests /\ q.pc = c /\ q.i = i /\ q.result = res
             /\ q.ann = r.ann /\ q.ifname = r.ifname /\ q.isDefaultGW = r.isDefaultGW
BY DEF Requests, Updated

\* addMultipleInterfaces has returned.
LEMMA InterfacesReturn ==
  ASSUME NEW s \in Sandboxes, NEW res \in Results \cup {NoVal}, Types, SandboxInv(s),
         add[s] # NoVal, Served, AfterInterfaces(s, res),
         Finished(s, add[s], res, netns'[s], ovs', call[s])
  PROVE  RequestStep(s)
<1>1. CASE add[s].routes = NoVal
  <2>1. Answer(s, res)
    BY <1>1 DEF AfterInterfaces
  <2>2. res # NoVal =>
          /\ Consistent(res)
          /\ call[s] = "add" =>
               AnswerInv(s, [ann |-> add[s].ann, result |-> res], add[s].ifname, netns'[s], ovs')
    <3>1. add[s] \in Requests
      BY DEF Types, AddType
    <3>2. DOMAIN add[s].ann = 1..Len(add[s].ann)
      BY <3>1, RequestFields, AnnType
    <3>. QED
      BY <3>2 DEF Finished, AnswerInv
  <2>. QED
    BY <2>1, <2>2, EndsStep
<1>2. CASE add[s].routes # NoVal
  <2>. DEFINE r == add[s]
              q == Updated(r, "routes", 1, res)
  <2>1. add' = [add EXCEPT ![s].pc = "routes", ![s].i = 1, ![s].result = res]
        /\ UNCHANGED <<call, answer>>
    BY <1>2 DEF AfterInterfaces
  <2>2. r \in Requests
    BY DEF Types, AddType
  <2>3. add' = [add EXCEPT ![s] = q]
    BY <2>1 DEF Updated
  <2>4. /\ q \in Requests /\ q.pc = "routes" /\ q.i = 1 /\ q.result = res
        /\ q.ann = r.ann /\ q.ifname = r.ifname
    BY SMTT(30), <2>2, RequestUpdate
  <2>. HIDE DEF q
  <2>5. LoopInv(q)
    BY <2>4 DEF LoopInv, Looping
  <2>6. ResultInv(q)
    BY <2>4 DEF ResultInv, Looping, Finished
  <2>7. NetnsInv(q, netns'[s])
    BY <2>4 DEF NetnsInv, Looping, Finished
  <2>8. BridgeInv(s, q, ovs', call[s])
    BY <2>4 DEF BridgeInv, Looping, Finished
  <2>9. RequestInv(s, q, netns'[s], ovs', call[s])
    BY <2>5, <2>6, <2>7, <2>8 DEF RequestInv
  <2>. QED
    BY <2>1, <2>3, <2>4, <2>9, GoesOnStep
<1>. QED
  BY <1>1, <1>2

(***************************************************************************)
(* The steps of an ADD.                                                    *)
(***************************************************************************)
\* What a step of the request of s does: its own part of the invariant and the
\* types of what it changes hold again, and it leaves the other sandboxes alone.
StepOf(s) ==
  /\ Types' /\ SandboxInv(s)'
  /\ \A t \in Sandboxes : t # s => Same(t)

\* Such a step keeps the invariant.
LEMMA StepKeeps == ASSUME NEW s \in Sandboxes, IInv, StepOf(s) PROVE IInv'
<1>1. \A t \in Sandboxes : SandboxInv(t)'
  BY SameKept DEF IInv, StepOf
<1>2. TypeOK' /\ NetnsType'
  BY TypePartsNext DEF StepOf, Types
<1>. QED
  BY <1>1, <1>2 DEF IInv

\* The invariant's types and the part for one sandbox.
LEMMA IInvParts == ASSUME IInv PROVE Types /\ \A s \in Sandboxes : SandboxInv(s)
BY TypeParts DEF IInv

\* A request that is served is one.
LEMMA ServingType ==
  ASSUME NEW s \in Sandboxes, NEW step, Types, SandboxInv(s), Serving(s, step)
  PROVE  /\ add[s] # NoVal /\ add[s] \in Requests /\ add[s].pc = step
         /\ add \in [Sandboxes -> Requests \cup {NoVal}]
         /\ RequestInv(s, add[s], netns[s], ovs, call[s])
BY DEF Serving, Types, AddType, SandboxInv

\* Poll: no result is answered, and the loop starts with nothing made.
LEMMA PollKeeps == ASSUME NEW s \in Sandboxes, IInv, Poll(s) PROVE StepOf(s)
<1>0. Types /\ SandboxInv(s)
  BY IInvParts
<1>. DEFINE r == add[s]
<1>1. /\ r # NoVal /\ r \in Requests /\ r.pc = "poll"
      /\ add \in [Sandboxes -> Requests \cup {NoVal}]
      /\ RequestInv(s, r, netns[s], ovs, call[s])
  BY <1>0, ServingType DEF Poll
<1>2. UNCHANGED <<pod, conf, up, env, del, netns, ovs, history, pods>>
  BY DEF Poll
<1>3. Served
  BY <1>2 DEF Served
<1>4. PodType' /\ DelType' /\ NetnsType' /\ PortType'
  BY <1>0, <1>2, TypeKept DEF Types
<1>5. CountType'
  BY <1>0, <1>2, FaultCounted DEF Types, Poll
<1>. SUFFICES RequestStep(s)
  BY <1>2, <1>4, <1>5 DEF RequestStep, StepOf, Types, Same, history
<1>6. ASSUME Answer(s, NoVal) PROVE RequestStep(s)
  BY <1>0, <1>1, <1>3, <1>6, EndsStep
<1>7. netns' = netns /\ ovs' = ovs
  BY <1>2
<1>8. CASE pod = NoVal /\ Answer(s, NoVal)
  BY <1>6, <1>8
<1>9. CASE pod # NoVal /\ pod.ifs # NoVal /\ UNCHANGED <<call, answer, faults>>
           /\ add' = [add EXCEPT ![s].pc = "setup", ![s].ann = pod.ifs, ![s].routes = pod.routes]
  <2>. DEFINE q == [r EXCEPT !.pc = "setup", !.ann = pod.ifs, !.routes = pod.routes]
  <2>1. pod.ifs \in Annotations /\ pod.routes \in RouteLists \cup {NoVal}
    BY <1>0, <1>9 DEF Types, PodType
  <2>2. /\ q \in Requests /\ q.pc = "setup" /\ q.i = r.i /\ q.result = r.result
        /\ q.ifname = r.ifname /\ q.isDefaultGW = r.isDefaultGW
        /\ q.ann = pod.ifs
    BY <2>1, <1>1 DEF Requests
  <2>3. add' = [add EXCEPT ![s] = q]
    BY <1>1, <1>9
  <2>. HIDE DEF q
  <2>4. r.i = 1 /\ r.result = NoVal /\ r.isDefaultGW = FALSE
    BY <1>1 DEF RequestInv, LoopInv
  <2>5. Len(q.ann) \in Nat
    BY <2>1, <2>2, AnnType
  <2>6. LoopInv(q) /\ ResultInv(q)
    BY <2>2, <2>4, <2>5 DEF LoopInv, ResultInv, Looping
  <2>7. NetnsInv(q, netns[s]) /\ BridgeInv(s, q, ovs, call[s])
    BY <2>2, <2>4 DEF NetnsInv, BridgeInv, Looping, InNetns, OnBridge
  <2>. QED
    BY <2>2, <2>3, <2>6, <2>7, <1>0, <1>1, <1>3, <1>7, <1>9, GoesOnStep DEF RequestInv
<1>10. CASE TryAgain(s)
  <2>1. CASE r.tries + 1 = Steps
    BY <1>6, <1>10, <2>1 DEF TryAgain
  <2>2. CASE r.tries + 1 # Steps
    <3>. DEFINE q == [r EXCEPT !.tries = @ + 1]
    <3>1. r.tries + 1 \in 0..(Steps - 1)
      BY <1>1, <2>2, RequestFields, Bounds
    <3>2. /\ q \in Requests /\ q.pc = "poll" /\ q.i = r.i /\ q.result = r.result
          /\ q.ifname = r.ifname /\ q.isDefaultGW = r.isDefaultGW
      BY <3>1, <1>1 DEF Requests
    <3>3. add' = [add EXCEPT ![s] = q] /\ UNCHANGED <<call, answer>>
      BY <1>1, <1>10, <2>2 DEF TryAgain
    <3>. HIDE DEF q
    <3>4. r.i = 1 /\ r.result = NoVal /\ r.isDefaultGW = FALSE
      BY <1>1 DEF RequestInv, LoopInv
    <3>5. RequestInv(s, q, netns[s], ovs, call[s])
      BY <3>2, <3>4 DEF RequestInv, LoopInv, ResultInv, NetnsInv, BridgeInv, Looping
    <3>. QED
      BY <3>2, <3>3, <3>5, <1>0, <1>1, <1>3, <1>7, GoesOnStep
  <2>. QED
    BY <2>1, <2>2
<1>. QED
  BY <1>8, <1>9, <1>10 DEF Poll

\* SetupInterface: when it succeeds the entry has its link and routes, and its port
\* has a name; when it fails there is no result.
LEMMA SetupKeeps == ASSUME NEW s \in Sandboxes, IInv, SetupInterface(s) PROVE StepOf(s)
<1>0. Types /\ SandboxInv(s)
  BY IInvParts
<1>. DEFINE r == add[s]
            n == netns[s]
            e == r.ann[r.i]
            o == setupInterface(n, r, e)
<1>1. /\ r # NoVal /\ r \in Requests /\ r.pc = "setup"
      /\ add \in [Sandboxes -> Requests \cup {NoVal}]
      /\ RequestInv(s, r, netns[s], ovs, call[s])
  BY <1>0, ServingType DEF SetupInterface
<1>2. UNCHANGED <<pod, conf, up, env, del, ovs, history, pods>> /\ r.i <= Len(r.ann)
  BY DEF SetupInterface
<1>3. Served
  BY <1>2 DEF Served
<1>4. PodType' /\ DelType' /\ PortType'
  BY <1>0, <1>2, TypeKept DEF Types
<1>5. CountType'
  BY <1>0, <1>2, FaultCounted DEF Types, SetupInterface
<1>6. netns \in [Sandboxes -> Namespaces \cup {NoVal}] /\ n \in Namespaces \cup {NoVal}
  BY <1>0 DEF Types, NetnsType
<1>7. e \in Entries
  <2>1. r.ann \in Annotations \cup {<<>>} /\ r.i \in Nat /\ r.i # 0
    BY <1>1, RequestFields
  <2>. HIDE DEF r
  <2>2. Len(r.ann) \in Nat /\ \A j \in 1..Len(r.ann) : r.ann[j] \in Entries
    BY <2>1, AnnType
  <2>3. r.i \in 1..Len(r.ann)
    BY <1>2, <2>1, <2>2
  <2>. QED
    BY <2>2, <2>3
<1>8. /\ n # NoVal => Linked(n, r, e) \in Namespaces
      /\ o.ns \in Namespaces \cup {NoVal}
      /\ o.ok => n # NoVal /\ r.i <= NameRoom
  <2>. HIDE DEF n, r, e
  <2>. QED
    BY <1>1, <1>6, <1>7, SetupType
<1>9. PICK m \in Namespaces \cup {NoVal} :
        /\ netns' = [netns EXCEPT ![s] = m]
        /\ \/ /\ o.ok /\ m = o.ns /\ UNCHANGED <<call, answer>>
              /\ add' = [add EXCEPT ![s].pc = "plug", ![s].isDefaultGW = IsDefaultGW(r, e)]
           \/ AfterInterfaces(s, NoVal)
  <2>1. CASE o.ok /\ netns' = [netns EXCEPT ![s] = o.ns] /\ UNCHANGED <<call, answer, faults>>
             /\ add' = [add EXCEPT ![s].pc = "plug", ![s].isDefaultGW = IsDefaultGW(r, e)]
    BY <2>1, <1>8
  <2>2. CASE netns' = [netns EXCEPT ![s] = o.ns] /\ AfterInterfaces(s, NoVal)
    BY <2>2, <1>8
  <2>3. CASE o.ok /\ AfterInterfaces(s, NoVal)
             /\ \E m \in {n, Linked(n, r, e), o.ns} : netns' = [netns EXCEPT ![s] = m]
    BY <2>3, <1>6, <1>8
  <2>. QED
    BY ZenonT(60), <2>1, <2>2, <2>3 DEF SetupInterface
<1>. HIDE DEF o, e
<1>10. netns'[s] = m /\ (\A t \in Sandboxes \ {s} : netns'[t] = netns[t]) /\ NetnsType'
  BY <1>6, <1>9 DEF NetnsType
<1>. SUFFICES RequestStep(s)
  BY <1>2, <1>4, <1>5, <1>10 DEF RequestStep, StepOf, Types, Same, history
<1>11. CASE AfterInterfaces(s, NoVal)
  <2>1. Finished(s, r, NoVal, m, ovs, call[s])
    BY DEF Finished
  <2>. QED
    BY <2>1, <1>0, <1>1, <1>2, <1>3, <1>10, <1>11, InterfacesReturn
<1>12. CASE /\ o.ok /\ m = o.ns /\ UNCHANGED <<call, answer>>
            /\ add' = [add EXCEPT ![s].pc = "plug", ![s].isDefaultGW = IsDefaultGW(r, e)]
  <2>. DEFINE q == [r EXCEPT !.pc = "plug", !.isDefaultGW = IsDefaultGW(r, e)]
  <2>1. IsDefaultGW(r, e) \in BOOLEAN
    BY <1>1, RequestFields DEF IsDefaultGW
  <2>2. /\ q \in Requests /\ q.pc = "plug" /\ q.i = r.i /\ q.result = r.result
        /\ q.ifname = r.ifname /\ q.ann = r.ann /\ q.isDefaultGW = IsDefaultGW(r, e)
    BY <2>1, <1>1 DEF Requests
  <2>3. add' = [add EXCEPT ![s] = q]
    BY <1>12
  <2>. HIDE DEF q
  <2>4. InNetns(n, r.ann, r.ifname, r.i - 1) /\ (r.isDefaultGW /\ n # NoVal => n.dflt # NoVal)
    BY <1>1 DEF RequestInv, NetnsInv, Looping
  <2>5. InNetns(m, r.ann, r.ifname, r.i) /\ (IsDefaultGW(r, e) => m.dflt # NoVal)
    BY <2>4, <1>1, <1>2, <1>6, <1>12, SetupMakes DEF o, e
  <2>6. LoopInv(q)
    BY <2>2, <1>1, <1>2, <1>8, <1>12 DEF LoopInv, RequestInv, Looping, o, e
  <2>7. ResultInv(q)
    BY <2>2, <1>1 DEF ResultInv, RequestInv, Looping
  <2>8. NetnsInv(q, m)
    BY <2>2, <2>5 DEF NetnsInv, Looping
  <2>9. BridgeInv(s, q, ovs, call[s])
    BY <2>2, <1>1 DEF BridgeInv, RequestInv, Looping
  <2>10. RequestInv(s, q, netns'[s], ovs', call[s])
    BY <2>6, <2>7, <2>8, <2>9, <1>2, <1>10 DEF RequestInv
  <2>. QED
    BY <2>2, <2>3, <2>10, <1>0, <1>1, <1>3, <1>12, GoesOnStep
<1>. QED
  BY <1>9, <1>11, <1>12

\* AddPort: the port of the entry joins those before, and the result lists one more
\* entry; when the command fails there is no result.
LEMMA AddPortKeeps == ASSUME NEW s \in Sandboxes, IInv, AddPort(s) PROVE StepOf(s)
<1>0. Types /\ SandboxInv(s)
  BY IInvParts
<1>. DEFINE r == add[s]
            e == r.ann[r.i]
            x == [sb |-> s, idx |-> r.i, port |-> e.intf]
            plugged == ovs \cup {x}
            res == mergeWithResult(InterfaceResult(r.i), r.result)
<1>1. /\ r # NoVal /\ r \in Requests /\ r.pc = "plug"
      /\ add \in [Sandboxes -> Requests \cup {NoVal}]
      /\ RequestInv(s, r, netns[s], ovs, call[s])
  BY <1>0, ServingType DEF AddPort
<1>2. UNCHANGED <<pod, conf, up, env, del, netns, history, pods>>
  BY DEF AddPort
<1>3. Served
  BY <1>2 DEF Served
<1>4. PodType' /\ DelType' /\ NetnsType'
  BY <1>0, <1>2, TypeKept DEF Types
<1>5. CountType'
  BY <1>0, <1>2, FaultCounted DEF Types, AddPort
<1>6. r.i <= Len(r.ann) /\ r.i <= NameRoom
  BY <1>1 DEF RequestInv, LoopInv
<1>7. /\ e \in Entries /\ r.i \in Nat /\ r.i # 0 /\ Len(r.ann) \in Nat
      /\ r.result \in Results \cup {NoVal}
  <2>1. r.ann \in Annotations \cup {<<>>} /\ r.i \in Nat /\ r.i # 0 /\ r.result \in Results \cup {NoVal}
    BY <1>1, RequestFields
  <2>. HIDE DEF r
  <2>2. Len(r.ann) \in Nat /\ \A j \in 1..Len(r.ann) : r.ann[j] \in Entries
    BY <2>1, AnnType
  <2>3. r.i \in 1..Len(r.ann)
    BY <1>6, <2>1, <2>2
  <2>. QED
    BY <2>1, <2>2, <2>3
<1>8. x \in [sb: Sandboxes, idx: 1..NameRoom, port: Devs \cup {"*"}] /\ x.sb = s
  <2>1. r.i \in 1..NameRoom
    BY <1>6, <1>7, Bounds
  <2>2. e.intf \in Devs \cup {"*"}
    BY ZenonT(40), <1>7 DEF Entries
  <2>. HIDE DEF r, e
  <2>. QED
    BY <2>1, <2>2
<1>9. \/ /\ ovs' = plugged /\ UNCHANGED <<call, answer>>
         /\ add' = [add EXCEPT ![s].pc = "setup", ![s].i = @ + 1,
                               ![s].result = mergeWithResult(InterfaceResult(r.i), @)]
      \/ ovs' \in {ovs, plugged} /\ AfterInterfaces(s, NoVal)
  BY DEF AddPort
<1>. HIDE DEF e, x
<1>10. PortType' /\ \A t \in Sandboxes \ {s} : \A y : y.sb = t => (y \in ovs' <=> y \in ovs)
  BY <1>0, <1>8, <1>9 DEF Types, PortType
<1>. SUFFICES RequestStep(s)
  BY <1>2, <1>4, <1>5, <1>10 DEF RequestStep, StepOf, Types, Same, history
<1>11. CASE AfterInterfaces(s, NoVal)
  <2>1. Finished(s, r, NoVal, netns'[s], ovs', call[s])
    BY DEF Finished
  <2>. QED
    BY <2>1, <1>0, <1>1, <1>3, <1>11, InterfacesReturn
<1>12. CASE /\ ovs' = plugged /\ UNCHANGED <<call, answer>>
            /\ add' = [add EXCEPT ![s].pc = "setup", ![s].i = @ + 1,
                                  ![s].result = mergeWithResult(InterfaceResult(r.i), @)]
  <2>1. /\ InterfaceResult(r.i) \in Results /\ InterfaceResult(r.i) # NoVal
        /\ Len(InterfaceResult(r.i).ifs) = 2 /\ Consistent(InterfaceResult(r.i))
    BY <1>7, InterfaceResultType
  <2>2. res \in Results /\ res # NoVal /\ Len(res.ifs) = 2 * r.i /\ Consistent(res)
    <3>1. CASE r.i = 1
      <4>1. r.result = NoVal
        BY <3>1, <1>1 DEF RequestInv, ResultInv, Looping
      <4>2. res = InterfaceResult(r.i)
        BY <4>1 DEF mergeWithResult
      <4>. QED
        BY <4>2, <3>1, <2>1
    <3>2. CASE r.i # 1
      <4>1. r.result # NoVal /\ Len(r.result.ifs) = 2 * (r.i - 1) /\ Consistent(r.result)
            /\ r.result \in Results
        BY <3>2, <1>1, <1>7 DEF RequestInv, ResultInv, Looping
      <4>2. res \in Results /\ Len(res.ifs) = Len(r.result.ifs) + Len(InterfaceResult(r.i).ifs)
            /\ Consistent(res)
        BY <4>1, <2>1, MergeKeeps
      <4>3. res # NoVal
        BY <4>2, Constants
      <4>. QED
        BY <4>1, <4>2, <4>3, <2>1, <1>7
    <3>. QED
      BY <3>1, <3>2
  <2>. HIDE DEF res
  <2>. DEFINE q == Updated(r, "setup", r.i + 1, res)
  <2>3. add' = [add EXCEPT ![s] = q]
    BY <1>12 DEF Updated, res
  <2>4. /\ q \in Requests /\ q.pc = "setup" /\ q.i = r.i + 1 /\ q.result = res
        /\ q.ann = r.ann /\ q.ifname = r.ifname /\ q.isDefaultGW = r.isDefaultGW
    <3>1. r.i + 1 \in Nat \ {0}
      BY <1>7
    <3>. QED
      BY <3>1, <2>2, <1>1, RequestUpdate
  <2>. HIDE DEF q
  <2>5. LoopInv(q)
    BY <2>4, <1>6, <1>7 DEF LoopInv, Looping
  <2>6. ResultInv(q)
    BY <2>2, <2>4, <1>7 DEF ResultInv, Looping
  <2>7. NetnsInv(q, netns[s])
    <3>1. q.i - 1 = r.i
      BY <2>4, <1>7
    <3>. QED
      BY <3>1, <2>4, <1>1 DEF NetnsInv, RequestInv, Looping
  <2>8. BridgeInv(s, q, ovs', call[s])
    <3>1. q.i - 1 = r.i
      BY <2>4, <1>7
    <3>2. ASSUME call[s] = "add" PROVE OnBridge(s, ovs', r.ann, r.i)
      <4>1. OnBridge(s, ovs, r.ann, r.i - 1)
        BY <3>2, <1>1 DEF RequestInv, BridgeInv, Looping
      <4>2. [sb |-> s, idx |-> r.i, port |-> r.ann[r.i].intf] \in ovs'
        BY <1>12 DEF x, e
      <4>3. \A j \in 1..r.i : j = r.i \/ j \in 1..(r.i - 1)
        BY <1>7
      <4>. QED
        BY <4>1, <4>2, <4>3, <1>12 DEF OnBridge
    <3>. QED
      BY <3>1, <3>2, <2>4 DEF BridgeInv, Looping
  <2>9. RequestInv(s, q, netns'[s], ovs', call[s])
    BY <2>5, <2>6, <2>7, <2>8, <1>2 DEF RequestInv
  <2>. QED
    BY <2>3, <2>4, <2>9, <1>0, <1>1, <1>3, <1>12, GoesOnStep
<1>. QED
  BY <1>9, <1>11, <1>12

\* InterfacesDone: every entry has its link and its port.
LEMMA InterfacesDoneKeeps ==
  ASSUME NEW s \in Sandboxes, IInv, InterfacesDone(s) PROVE StepOf(s)
<1>0. Types /\ SandboxInv(s)
  BY IInvParts
<1>. DEFINE r == add[s]
<1>1. /\ r # NoVal /\ r \in Requests /\ r.pc = "setup"
      /\ add \in [Sandboxes -> Requests \cup {NoVal}]
      /\ RequestInv(s, r, netns[s], ovs, call[s])
  BY <1>0, ServingType DEF InterfacesDone
<1>2. /\ UNCHANGED <<pod, conf, up, env, del, netns, ovs, history, pods, faults>>
      /\ r.i > Len(r.ann) /\ AfterInterfaces(s, r.result)
  BY DEF InterfacesDone
<1>3. Served
  BY <1>2 DEF Served
<1>4. PodType' /\ DelType' /\ NetnsType' /\ PortType' /\ CountType'
  BY <1>0, <1>2, TypeKept DEF Types
<1>5. r.i - 1 = Len(r.ann) /\ Len(r.ann) \in Nat /\ r.result \in Results \cup {NoVal}
  <2>1. r.ann \in Annotations \cup {<<>>} /\ r.i \in Nat /\ r.i # 0 /\ r.result \in Results \cup {NoVal}
    BY <1>1, RequestFields
  <2>2. r.i <= Len(r.ann) + 1
    BY <1>1 DEF RequestInv, LoopInv, Looping
  <2>. HIDE DEF r
  <2>3. Len(r.ann) \in Nat
    BY <2>1, AnnType
  <2>. QED
    BY <1>2, <2>1, <2>2, <2>3
<1>6. Finished(s, r, r.result, netns[s], ovs, call[s])
  BY <1>1, <1>5 DEF Finished, RequestInv, ResultInv, NetnsInv, BridgeInv, Looping
<1>7. RequestStep(s)
  BY <1>0, <1>1, <1>2, <1>3, <1>5, <1>6, InterfacesReturn
<1>. QED
  BY <1>2, <1>4, <1>7 DEF RequestStep, StepOf, Types, Same, history

\* RoutesDone: the answer lists what addMultipleInterfaces returned, or nothing.
LEMMA RoutesDoneKeeps == ASSUME NEW s \in Sandboxes, IInv, RoutesDone(s) PROVE StepOf(s)
<1>0. Types /\ SandboxInv(s)
  BY IInvParts
<1>. DEFINE r == add[s]
            res == mergeWithResult(RoutesResult, r.result)
<1>1. /\ r # NoVal /\ r \in Requests /\ r.pc = "routes"
      /\ add \in [Sandboxes -> Requests \cup {NoVal}]
      /\ RequestInv(s, r, netns[s], ovs, call[s])
  BY <1>0, ServingType DEF RoutesDone
<1>2. /\ UNCHANGED <<pod, conf, up, env, del, netns, ovs, history, pods, faults>>
      /\ Answer(s, res)
  BY DEF RoutesDone
<1>3. Served
  BY <1>2 DEF Served
<1>4. PodType' /\ DelType' /\ NetnsType' /\ PortType' /\ CountType'
  BY <1>0, <1>2, TypeKept DEF Types
<1>5. RoutesResult \in Results /\ Consistent(RoutesResult) /\ RoutesResult.ifs = <<>>
  BY DEF RoutesResult, Results, Consistent
<1>6. r.result \in Results \cup {NoVal} /\ Len(r.ann) \in Nat /\ DOMAIN r.ann = 1..Len(r.ann)
  BY <1>1, RequestFields, AnnType
<1>. HIDE DEF res
<1>7. /\ res \in Results /\ Consistent(res)
      /\ call[s] = "add" =>
           AnswerInv(s, [ann |-> r.ann, result |-> res], r.ifname, netns[s], ovs)
  <2>1. CASE r.result = NoVal
    <3>1. res = RoutesResult
      BY <2>1 DEF res, mergeWithResult
    <3>. QED
      BY <3>1, <1>5 DEF AnswerInv
  <2>2. CASE r.result # NoVal
    <3>1. Consistent(r.result) /\ Len(r.result.ifs) = 2 * Len(r.ann) /\ r.result \in Results
          /\ InNetns(netns[s], r.ann, r.ifname, Len(r.ann))
          /\ (call[s] = "add" => OnBridge(s, ovs, r.ann, Len(r.ann)))
      BY <2>2, <1>1, <1>6 DEF RequestInv, ResultInv, NetnsInv, BridgeInv
    <3>2. res \in Results /\ Consistent(res)
          /\ Len(res.ifs) = Len(r.result.ifs) + Len(RoutesResult.ifs)
      BY <3>1, <2>2, <1>5, MergeKeeps DEF res
    <3>3. Len(res.ifs) = 2 * Len(r.ann)
      BY <3>1, <3>2, <1>5, <1>6
    <3>. QED
      BY <3>1, <3>2, <3>3, <1>6 DEF AnswerInv
  <2>. QED
    BY <2>1, <2>2
<1>8. RequestStep(s)
  BY <1>0, <1>1, <1>2, <1>3, <1>7, EndsStep
<1>. QED
  BY <1>2, <1>4, <1>8 DEF RequestStep, StepOf, Types, Same, history

\* The end of nfn-agent ends every request; what was answered stays.
LEMMA DieKeeps ==
  ASSUME IInv, Die, UNCHANGED <<pod, conf, env, netns, ovs, answer, history, pods>>,
         Fault \/ UNCHANGED faults
  PROVE  IInv'
<1>0. Types /\ \A s \in Sandboxes : SandboxInv(s)
  BY IInvParts
<1>1. NetnsType' /\ PortType' /\ AnswerType'
  BY <1>0, TypeKept DEF Types
<1>2. CountType'
  BY <1>0, FaultCounted DEF Types
<1>3. PodType' /\ AddType' /\ DelType'
  BY <1>0 DEF Types, PodType, AddType, DelType, Die
<1>4. CallType'
  BY <1>0 DEF Types, CallType, Calls, Die
<1>5. ASSUME NEW s \in Sandboxes PROVE SandboxInv(s)'
  <2>1. SandboxInv(s)
    BY <1>0
  <2>2. add'[s] = NoVal /\ del'[s] = NoVal
        /\ call'[s] = IF call[s] \in {"add", "del"} THEN "stop" ELSE call[s]
    BY DEF Die
  <2>3. CallInv(s)'
    BY <2>1, <2>2 DEF SandboxInv, CallInv
  <2>4. LeakInv(s)'
    BY <2>1, <2>2 DEF SandboxInv, LeakInv, history
  <2>. QED
    BY <2>1, <2>2, <2>3, <2>4 DEF SandboxInv
<1>6. TypeOK'
  BY <1>1, <1>2, <1>3, <1>4, TypePartsNext
<1>. QED
  BY <1>1, <1>5, <1>6 DEF IInv

\* AddRoute: the request goes on to the next route, ends without result, or ends
\* nfn-agent.
LEMMA AddRouteKeeps == ASSUME NEW s \in Sandboxes, IInv, AddRoute(s) PROVE IInv'
<1>0. Types /\ SandboxInv(s)
  BY IInvParts
<1>. DEFINE r == add[s]
<1>1. /\ r # NoVal /\ r \in Requests /\ r.pc = "routes"
      /\ add \in [Sandboxes -> Requests \cup {NoVal}]
      /\ RequestInv(s, r, netns[s], ovs, call[s])
  BY <1>0, ServingType DEF AddRoute
<1>2. UNCHANGED <<pod, conf, env, netns, ovs, history, pods>> /\ (Fault \/ UNCHANGED faults)
  BY DEF AddRoute
<1>3. \/ Die /\ UNCHANGED answer
      \/ Answer(s, NoVal) /\ UNCHANGED <<up, del>>
      \/ add' = [add EXCEPT ![s].i = @ + 1] /\ UNCHANGED <<call, answer, up, del>>
  BY DEF AddRoute
<1>4. CASE Die /\ UNCHANGED answer
  BY <1>2, <1>4, DieKeeps
<1>5. ASSUME UNCHANGED <<up, del>>, RequestStep(s) PROVE IInv'
  <2>1. PodType' /\ DelType' /\ NetnsType' /\ PortType'
    BY <1>0, <1>2, <1>5, TypeKept DEF Types
  <2>2. CountType'
    BY <1>0, <1>2, FaultCounted DEF Types
  <2>3. StepOf(s)
    BY <2>1, <2>2, <1>2, <1>5 DEF RequestStep, StepOf, Types, Same, history
  <2>. QED
    BY <2>3, StepKeeps
<1>6. CASE Answer(s, NoVal) /\ UNCHANGED <<up, del>>
  <2>1. Served
    BY <1>2, <1>6 DEF Served
  <2>2. RequestStep(s)
    BY <2>1, <1>0, <1>1, <1>6, EndsStep
  <2>. QED
    BY <2>2, <1>5, <1>6
<1>7. CASE add' = [add EXCEPT ![s].i = @ + 1] /\ UNCHANGED <<call, answer, up, del>>
  <2>. DEFINE q == [r EXCEPT !.i = @ + 1]
  <2>1. /\ q \in Requests /\ q.pc = "routes" /\ q.result = r.result
        /\ q.ann = r.ann /\ q.ifname = r.ifname
    BY <1>1 DEF Requests
  <2>2. add' = [add EXCEPT ![s] = q]
    BY <1>7
  <2>. HIDE DEF q
  <2>3. Served
    BY <1>2, <1>7 DEF Served
  <2>4. LoopInv(q) /\ ResultInv(q)
    BY <2>1, <1>1 DEF RequestInv, LoopInv, ResultInv, Looping
  <2>5. NetnsInv(q, netns[s]) /\ BridgeInv(s, q, ovs, call[s])
    BY <2>1, <1>1 DEF RequestInv, NetnsInv, BridgeInv, Looping
  <2>6. RequestInv(s, q, netns'[s], ovs', call[s])
    BY <2>4, <2>5, <1>2 DEF RequestInv
  <2>7. RequestStep(s)
    BY <2>1, <2>2, <2>3, <2>6, <1>0, <1>1, <1>7, GoesOnStep
  <2>. QED
    BY <2>7, <1>5, <1>7
<1>. QED
  BY <1>3, <1>4, <1>6, <1>7

(***************************************************************************)
(* The steps of the cluster, the runtime, the shim and cmdDel.             *)
(***************************************************************************)
\* The pod, the configuration file and the start of nfn-agent touch no sandbox.
LEMMA OutsideKeeps ==
  ASSUME IInv, CreatePod \/ Annotate \/ DeletePod \/ EditConf \/ Start PROVE IInv'
<1>0. Types /\ \A s \in Sandboxes : SandboxInv(s)
  BY IInvParts
<1>1. UNCHANGED <<call, env, requests, netns, ovs, answer, history>>
  BY DEF CreatePod, Annotate, DeletePod, EditConf, Start
<1>2. CallType' /\ AddType' /\ DelType' /\ PortType' /\ AnswerType' /\ NetnsType'
  BY <1>0, <1>1, TypeKept DEF Types, requests
<1>3. CountType'
  <2>1. Fault \/ UNCHANGED faults
    BY DEF CreatePod, Annotate, DeletePod, EditConf, Start
  <2>. QED
    BY <2>1, <1>0, <1>1, FaultCounted DEF Types
<1>4. PodType'
  <2>1. CASE CreatePod
    BY <2>1, <1>0, Bounds DEF CreatePod, Types, PodType
  <2>2. CASE Annotate
    BY <2>2, <1>0 DEF Annotate, Types, PodType
  <2>3. CASE DeletePod
    BY <2>3, <1>0 DEF DeletePod, Types, PodType
  <2>4. CASE EditConf
    BY <2>4, <1>0 DEF EditConf, Types, PodType
  <2>5. CASE Start
    BY <2>5, <1>0 DEF Start, Types, PodType
  <2>. QED
    BY <2>1, <2>2, <2>3, <2>4, <2>5
<1>5. \A s \in Sandboxes : Same(s)
  BY <1>1 DEF Same, requests, history
<1>6. TypeOK'
  BY <1>2, <1>3, <1>4, TypePartsNext
<1>. QED
  BY <1>0, <1>2, <1>5, <1>6, SameKept DEF IInv

\* A sandbox starts without links.
LEMMA RunKeeps == ASSUME NEW s \in Sandboxes, IInv, RunSandbox(s) PROVE StepOf(s)
<1>0. Types /\ SandboxInv(s)
  BY IInvParts
<1>. DEFINE n == [devs |-> {}, dflt |-> NoVal, host |-> NoVal]
<1>1. /\ call[s] = "none" /\ call' = [call EXCEPT ![s] = "exec"]
      /\ netns' = [netns EXCEPT ![s] = n]
      /\ UNCHANGED <<pod, conf, up, requests, ovs, answer, history, pods, faults>>
  BY DEF RunSandbox
<1>2. PICK e \in Envs : env' = [env EXCEPT ![s] = e]
  BY DEF RunSandbox
<1>3. PodType' /\ AddType' /\ DelType' /\ PortType' /\ AnswerType' /\ CountType'
  BY <1>0, <1>1, TypeKept DEF Types, requests
<1>4. n \in Namespaces
  BY DEF Namespaces
<1>. HIDE DEF n
<1>5. NetnsType' /\ CallType'
  BY <1>0, <1>1, <1>2, <1>4 DEF Types, NetnsType, CallType, Calls
<1>6. call'[s] = "exec" /\ env'[s] = e
  BY <1>0, <1>1, <1>2 DEF Types, CallType
<1>7. SandboxInv(s)'
  BY <1>0, <1>1, <1>6 DEF SandboxInv, CallInv, LeakInv, requests, history
<1>8. \A t \in Sandboxes : t # s => Same(t)
  BY <1>0, <1>1, <1>2 DEF Same, Types, CallType, NetnsType, requests, history
<1>. QED
  BY <1>3, <1>5, <1>7, <1>8 DEF StepOf, Types

\* The runtime stops waiting, or stops the sandbox, or its namespace goes.
LEMMA StopKeeps ==
  ASSUME NEW s \in Sandboxes, IInv, GiveUp(s) \/ StopSandbox(s) \/ NetnsGone(s) PROVE StepOf(s)
<1>0. Types /\ SandboxInv(s)
  BY IInvParts
<1>1. UNCHANGED <<pod, conf, up, env, requests, ovs, answer, history, pods, faults>>
  BY DEF GiveUp, StopSandbox, NetnsGone
<1>2. call \in [Sandboxes -> Calls] /\ netns \in [Sandboxes -> Namespaces \cup {NoVal}]
  BY <1>0 DEF Types, CallType, NetnsType
<1>3. /\ call' \in [Sandboxes -> Calls] /\ netns' \in [Sandboxes -> Namespaces \cup {NoVal}]
      /\ netns'[s] \in {netns[s], NoVal}
      /\ call'[s] = call[s] \/ (call'[s] = "stop" /\ call[s] \in {"add", "added"})
      /\ call'[s] = "added" => netns'[s] = netns[s]
      /\ \A t \in Sandboxes : t # s => call'[t] = call[t] /\ netns'[t] = netns[t]
  <2>1. CASE GiveUp(s) \/ StopSandbox(s)
    BY <2>1, <1>2 DEF GiveUp, StopSandbox, Calls
  <2>2. CASE NetnsGone(s)
    <3>. DEFINE c == IF call[s] = "added" THEN "stop" ELSE call[s]
    <3>1. call' = [call EXCEPT ![s] = c] /\ netns' = [netns EXCEPT ![s] = NoVal]
      BY <2>2 DEF NetnsGone
    <3>2. c \in Calls /\ c # "added" /\ (c = call[s] \/ (c = "stop" /\ call[s] = "added"))
      BY <1>2 DEF Calls
    <3>. HIDE DEF c
    <3>3. call' \in [Sandboxes -> Calls] /\ netns' \in [Sandboxes -> Namespaces \cup {NoVal}]
      BY <3>1, <3>2, <1>2
    <3>4. call'[s] = c /\ netns'[s] = NoVal
          /\ \A t \in Sandboxes : t # s => call'[t] = call[t] /\ netns'[t] = netns[t]
      BY <3>1, <1>2
    <3>. QED
      BY <3>2, <3>3, <3>4
  <2>. QED
    BY <2>1, <2>2
<1>4. PodType' /\ AddType' /\ DelType' /\ PortType' /\ AnswerType' /\ CountType'
  BY <1>0, <1>1, TypeKept DEF Types, requests
<1>5. NetnsType' /\ CallType'
  BY <1>0, <1>1, <1>3 DEF Types, NetnsType, CallType
<1>6. SandboxInv(s)'
  <2>1. CallInv(s)' /\ LeakInv(s)'
    BY <1>0, <1>1, <1>3 DEF SandboxInv, CallInv, LeakInv, requests, history
  <2>2. ASSUME add[s] # NoVal PROVE RequestInv(s, add[s], netns'[s], ovs, call'[s])
    <3>1. RequestInv(s, add[s], netns[s], ovs, call[s])
      BY <2>2, <1>0 DEF SandboxInv
    <3>2. NetnsInv(add[s], netns'[s])
      BY <3>1, <1>3 DEF RequestInv, NetnsInv, InNetns
    <3>3. BridgeInv(s, add[s], ovs, call'[s])
      BY <3>1, <1>3 DEF RequestInv, BridgeInv
    <3>. QED
      BY <3>1, <3>2, <3>3 DEF RequestInv
  <2>3. call'[s] = "added" => AnswerInv(s, answer[s], env[s].ifname, netns'[s], ovs)
    BY <1>0, <1>3 DEF SandboxInv
  <2>. QED
    BY <2>1, <2>2, <2>3, <1>0, <1>1 DEF SandboxInv, requests
<1>7. \A t \in Sandboxes : t # s => Same(t)
  BY <1>1, <1>3 DEF Same, requests, history
<1>. QED
  BY <1>4, <1>5, <1>6, <1>7 DEF StepOf, Types

\* The shim's ADD: a request starts from nothing, or the runtime has an answer
\* without interfaces, or an error.
LEMMA CmdAddKeeps == ASSUME NEW s \in Sandboxes, IInv, CmdAdd(s) PROVE StepOf(s)
<1>0. Types /\ SandboxInv(s)
  BY IInvParts
<1>. DEFINE none == [ann |-> <<>>, result |-> RoutesResult]
            r == NewRequest(env[s])
<1>1. call[s] = "exec" /\ UNCHANGED <<pod, conf, up, env, del, netns, ovs, history, pods, faults>>
  BY DEF CmdAdd
<1>2. \/ /\ call' = [call EXCEPT ![s] = "add"] /\ add' = [add EXCEPT ![s] = r]
         /\ UNCHANGED answer
      \/ call' = [call EXCEPT ![s] = "stop"] /\ UNCHANGED <<add, answer>>
      \/ /\ call' = [call EXCEPT ![s] = "added"] /\ UNCHANGED add
         /\ answer' = [answer EXCEPT ![s] = none]
  BY DEF CmdAdd
<1>3. PodType' /\ DelType' /\ PortType' /\ CountType' /\ NetnsType'
  BY <1>0, <1>1, TypeKept DEF Types
<1>4. /\ call \in [Sandboxes -> Calls] /\ env \in [Sandboxes -> Envs \cup {NoVal}]
      /\ add \in [Sandboxes -> Requests \cup {NoVal}]
      /\ answer \in [Sandboxes -> Answers \cup {NoVal}]
  BY <1>0 DEF Types, CallType, AddType, AnswerType
<1>5. env[s] \in Envs /\ add[s] = NoVal
  BY <1>0, <1>1 DEF SandboxInv, CallInv
<1>6. RoutesResult \in Results /\ Consistent(RoutesResult) /\ RoutesResult.ifs = <<>>
  BY DEF RoutesResult, Results, Consistent
<1>7. none \in Answers /\ none.result = RoutesResult
  BY <1>6 DEF Answers
<1>8. /\ r \in Requests /\ r.pc = "poll" /\ r.i = 1 /\ r.result = NoVal
      /\ r.isDefaultGW = FALSE /\ r.ifname = env[s].ifname
  <2>1. env[s].ifname \in Devs
    BY <1>5, Constants
  <2>2. 0 \in 0..(Steps - 1)
    BY Bounds
  <2>. QED
    BY <2>1, <2>2 DEF NewRequest, Requests
<1>. HIDE DEF none, r
<1>9. CallType'
  BY <1>1, <1>2, <1>4 DEF CallType, Calls
<1>10. AddType'
  BY <1>2, <1>4, <1>8 DEF AddType
<1>11. AnswerType'
  BY <1>2, <1>4, <1>7 DEF AnswerType
<1>12. \A t \in Sandboxes : t # s => Same(t)
  BY <1>1, <1>2, <1>4 DEF Same, history
<1>13. SandboxInv(s)'
  <2>1. CASE /\ call' = [call EXCEPT ![s] = "add"] /\ add' = [add EXCEPT ![s] = r]
             /\ UNCHANGED answer
    <3>1. call'[s] = "add" /\ add'[s] = r
      BY <2>1, <1>4
    <3>2. RequestInv(s, r, netns[s], ovs, "add")
      BY <1>8 DEF RequestInv, LoopInv, ResultInv, NetnsInv, BridgeInv, Looping
    <3>3. CallInv(s)' /\ LeakInv(s)'
      BY <3>1, <1>0, <1>1, <1>5, <1>8 DEF SandboxInv, CallInv, LeakInv
    <3>. QED
      BY <3>1, <3>2, <3>3, <2>1, <1>0, <1>1 DEF SandboxInv
  <2>2. CASE call' = [call EXCEPT ![s] = "stop"] /\ UNCHANGED <<add, answer>>
    <3>1. call'[s] = "stop"
      BY <2>2, <1>4
    <3>2. CallInv(s)' /\ LeakInv(s)'
      BY <3>1, <2>2, <1>0, <1>1, <1>5 DEF SandboxInv, CallInv, LeakInv
    <3>. QED
      BY <3>1, <3>2, <2>2, <1>0, <1>1, <1>5 DEF SandboxInv
  <2>3. CASE /\ call' = [call EXCEPT ![s] = "added"] /\ UNCHANGED add
             /\ answer' = [answer EXCEPT ![s] = none]
    <3>1. call'[s] = "added" /\ answer'[s] = none
      BY <2>3, <1>4
    <3>2. CallInv(s)' /\ LeakInv(s)'
      BY <3>1, <2>3, <1>0, <1>1, <1>5 DEF SandboxInv, CallInv, LeakInv
    <3>3. AnswerInv(s, none, env[s].ifname, netns[s], ovs) /\ Consistent(none.result)
      BY <1>6, <1>7 DEF AnswerInv
    <3>. QED
      BY <3>1, <3>2, <3>3, <2>3, <1>1, <1>5 DEF SandboxInv
  <2>. QED
    BY <2>1, <2>2, <2>3, <1>2
<1>. QED
  BY <1>3, <1>9, <1>10, <1>11, <1>12, <1>13 DEF StepOf, Types

\* The types after a DEL has ended, and what the runtime then knows.
LEMMA DelDoneTypes ==
  ASSUME NEW s \in Sandboxes, Types, DelDone(s)
  PROVE  /\ CallType' /\ DelType' /\ AnswerType'
         /\ call'[s] = "deleted" /\ del'[s] = NoVal /\ answer'[s] = NoVal
         /\ \A t \in Sandboxes : t # s =>
              call'[t] = call[t] /\ env'[t] = env[t] /\ del'[t] = del[t] /\ answer'[t] = answer[t]
<1>1. CallType /\ DelType /\ AnswerType
  BY DEF Types
<1>2. CallType' /\ call'[s] = "deleted"
      /\ \A t \in Sandboxes : t # s => call'[t] = call[t] /\ env'[t] = env[t]
  BY <1>1 DEF CallType, Calls, DelDone
<1>3. DelType' /\ del'[s] = NoVal /\ \A t \in Sandboxes : t # s => del'[t] = del[t]
  BY <1>1 DEF DelType, DelDone
<1>4. AnswerType' /\ answer'[s] = NoVal /\ \A t \in Sandboxes : t # s => answer'[t] = answer[t]
  BY <1>1 DEF AnswerType, DelDone
<1>. QED
  BY <1>2, <1>3, <1>4

\* A DEL that ended keeps the invariant if no port is left or the history says why.
LEMMA DelDoneInv ==
  ASSUME NEW s \in Sandboxes, Types, SandboxInv(s), DelDone(s), UNCHANGED <<add, netns>>,
         add[s] # NoVal => s \in stuck' \cup late',
         s \notin stuck' \cup late' => \A x \in ovs' : x.sb # s
  PROVE  SandboxInv(s)'
<1>1. call'[s] = "deleted" /\ del'[s] = NoVal /\ answer'[s] = NoVal
  BY DelDoneTypes
<1>2. CallInv(s)' /\ LeakInv(s)'
  BY <1>1 DEF CallInv, LeakInv
<1>3. ASSUME add[s] # NoVal PROVE RequestInv(s, add[s], netns[s], ovs', call'[s])
  <2>1. RequestInv(s, add[s], netns[s], ovs, call[s])
    BY <1>3 DEF SandboxInv
  <2>. QED
    BY <2>1, <1>1 DEF RequestInv, BridgeInv
<1>. QED
  BY <1>1, <1>2, <1>3 DEF SandboxInv

\* The shim's DEL starts at the first name, and is late when the ADD still runs; one
\* without configuration ends at once.
LEMMA CmdDelKeeps == ASSUME NEW s \in Sandboxes, IInv, CmdDel(s) PROVE StepOf(s)
<1>0. Types /\ SandboxInv(s)
  BY IInvParts
<1>1. call[s] = "stop" /\ UNCHANGED <<pod, conf, up, add, netns, ovs, pods, faults>>
  BY DEF CmdDel
<1>2. PodType' /\ AddType' /\ PortType' /\ NetnsType'
  BY <1>0, <1>1, TypeKept DEF Types
<1>3. CASE /\ call' = [call EXCEPT ![s] = "del"] /\ del' = [del EXCEPT ![s] = 0]
           /\ late' = (IF add[s] # NoVal THEN late \cup {s} ELSE late)
           /\ UNCHANGED <<env, answer, stuck>>
  <2>1. /\ call \in [Sandboxes -> Calls] /\ env \in [Sandboxes -> Envs \cup {NoVal}]
        /\ del \in [Sandboxes -> (0..(DelTries - 1)) \cup {NoVal}]
    BY <1>0 DEF Types, CallType, DelType
  <2>2. call'[s] = "del" /\ CallType' /\ \A t \in Sandboxes : t # s => call'[t] = call[t]
    BY <2>1, <1>3 DEF CallType, Calls
  <2>3. 0 \in 0..(DelTries - 1)
    BY Bounds
  <2>4. del'[s] = 0 /\ DelType' /\ \A t \in Sandboxes : t # s => del'[t] = del[t]
    BY <2>1, <2>3, <1>3 DEF DelType
  <2>5. CountType' /\ AnswerType'
    BY <1>0, <1>1, <1>3 DEF Types, CountType, AnswerType
  <2>6. \A t \in Sandboxes : t # s => Same(t)
    BY <2>2, <2>4, <1>1, <1>3 DEF Same
  <2>7. \A x \in ovs : x.idx >= 0
    BY <1>0, Bounds DEF Types, PortType
  <2>8. CallInv(s)'
    BY <2>2, <1>0, <1>1, <1>3 DEF SandboxInv, CallInv
  <2>9. LeakInv(s)'
    BY <2>2, <2>4, <2>7, <1>1, <1>3 DEF LeakInv
  <2>10. ASSUME add[s] # NoVal PROVE RequestInv(s, add[s], netns[s], ovs, "del")
    BY <2>10, <1>0 DEF SandboxInv, RequestInv, BridgeInv
  <2>11. SandboxInv(s)'
    BY <2>2, <2>8, <2>9, <2>10, <1>0, <1>1, <1>3 DEF SandboxInv
  <2>. QED
    BY <2>2, <2>4, <2>5, <2>6, <2>11, <1>2 DEF StepOf, Types
<1>4. CASE DelDone(s) /\ stuck' = stuck \cup {s} /\ UNCHANGED late
  <2>1. SandboxInv(s)'
    BY <1>0, <1>1, <1>4, DelDoneInv
  <2>2. CountType'
    BY <1>0, <1>1, <1>4 DEF Types, CountType
  <2>3. /\ CallType' /\ DelType' /\ AnswerType'
        /\ \A t \in Sandboxes : t # s =>
              call'[t] = call[t] /\ env'[t] = env[t] /\ del'[t] = del[t] /\ answer'[t] = answer[t]
    BY <1>0, <1>4, DelDoneTypes
  <2>4. \A t \in Sandboxes : t # s => Same(t)
    BY <2>3, <1>1, <1>4 DEF Same
  <2>. QED
    BY <2>1, <2>2, <2>3, <2>4, <1>2 DEF StepOf, Types
<1>. QED
  BY <1>3, <1>4 DEF CmdDel

\* cmdDel removes the port of the name it is at, so that after the last name none
\* is left; a del-port that fails ends it and is remembered.
LEMMA DelPortKeeps == ASSUME NEW s \in Sandboxes, IInv, DelPort(s) PROVE StepOf(s)
<1>0. Types /\ SandboxInv(s)
  BY IInvParts
<1>1. /\ del[s] # NoVal /\ UNCHANGED <<pod, conf, up, add, netns, late, pods>>
      /\ Fault \/ UNCHANGED faults
  BY DEF DelPort
<1>2. /\ call[s] = "del" /\ del[s] \in 0..(DelTries - 1)
      /\ del \in [Sandboxes -> (0..(DelTries - 1)) \cup {NoVal}]
      /\ add[s] # NoVal => s \in stuck \cup late
      /\ s \notin stuck \cup late => \A x \in ovs : x.sb = s => x.idx >= del[s]
  BY <1>0, <1>1 DEF Types, DelType, SandboxInv, CallInv, LeakInv
<1>3. PodType' /\ AddType' /\ NetnsType'
  BY <1>0, <1>1, TypeKept DEF Types
<1>4. ASSUME stuck' \subseteq Sandboxes PROVE CountType'
  BY <1>0, <1>1, <1>4, Bounds DEF Types, CountType, Fault
<1>5. ASSUME CallType', DelType', AnswerType', SandboxInv(s)', PortType', stuck' \subseteq Sandboxes,
             \A t \in Sandboxes : t # s =>
               /\ call'[t] = call[t] /\ env'[t] = env[t] /\ del'[t] = del[t]
               /\ answer'[t] = answer[t] /\ (t \in stuck' <=> t \in stuck),
             \A x : x.sb # s => (x \in ovs' <=> x \in ovs)
      PROVE  StepOf(s)
  <2>1. \A t \in Sandboxes : t # s => Same(t)
    BY <1>1, <1>5 DEF Same
  <2>. QED
    BY <2>1, <1>3, <1>4, <1>5 DEF StepOf, Types
<1>6. CASE /\ ovs' = {x \in ovs : ~(x.sb = s /\ x.idx = del[s])}
           /\ DelNext(s) /\ UNCHANGED <<stuck, faults>>
  <2>1. PortType' /\ stuck' \subseteq Sandboxes /\ \A x : x.sb # s => (x \in ovs' <=> x \in ovs)
    BY <1>0, <1>6 DEF Types, PortType, CountType
  <2>2. s \notin stuck \cup late => \A x \in ovs' : x.sb = s => x.idx > del[s]
    <3>1. \A x \in ovs : x.idx \in Nat
      BY <1>0, Bounds DEF Types, PortType
    <3>2. del[s] \in Nat
      BY <1>2, Bounds
    <3>. QED
      BY <3>1, <3>2, <1>2, <1>6
  <2>3. CASE del[s] + 1 = DelTries
    <3>1. DelDone(s)
      BY <2>3, <1>6 DEF DelNext
    <3>2. ASSUME s \notin stuck \cup late, NEW x \in ovs', x.sb = s PROVE FALSE
      <4>1. x.idx > del[s]
        BY <3>2, <2>2
      <4>2. x.idx \in 1..NameRoom
        BY <2>1 DEF PortType
      <4>. QED
        BY <4>1, <4>2, <2>3, <1>2, Bounds
    <3>3. SandboxInv(s)'
      BY <3>1, <3>2, <1>0, <1>1, <1>2, <1>6, DelDoneInv
    <3>. QED
      BY <3>1, <3>3, <2>1, <1>0, <1>5, <1>6, DelDoneTypes
  <2>4. CASE del[s] + 1 # DelTries
    <3>1. del' = [del EXCEPT ![s] = @ + 1] /\ UNCHANGED <<call, env, answer>>
      BY <2>4, <1>6 DEF DelNext, Following
    <3>2. del[s] + 1 \in 0..(DelTries - 1)
      BY <2>4, <1>2, Bounds
    <3>3. del'[s] = del[s] + 1 /\ DelType' /\ \A t \in Sandboxes : t # s => del'[t] = del[t]
      BY <3>1, <3>2, <1>2 DEF DelType
    <3>4. CallType' /\ AnswerType'
      BY <3>1, <1>0, TypeKept DEF Types
    <3>5. CallInv(s)'
      BY <3>1, <1>0, <1>1, <1>2 DEF SandboxInv, CallInv
    <3>6. LeakInv(s)'
      <4>1. s \notin stuck \cup late => \A x \in ovs' : x.sb = s => x.idx >= del[s] + 1
        <5>1. \A x \in ovs' : x.idx \in Nat
          BY <2>1, Bounds DEF PortType
        <5>. QED
          BY <5>1, <2>2, <1>2, Bounds
      <4>. QED
        BY <4>1, <3>1, <3>3, <1>1, <1>2, <1>6 DEF LeakInv
    <3>7. ASSUME add[s] # NoVal PROVE RequestInv(s, add[s], netns[s], ovs', call[s])
      BY <3>7, <1>0, <1>2 DEF SandboxInv, RequestInv, BridgeInv
    <3>8. SandboxInv(s)'
      BY <3>1, <3>5, <3>6, <3>7, <1>0, <1>1, <1>2 DEF SandboxInv
    <3>. QED
      BY <3>1, <3>3, <3>4, <3>8, <2>1, <1>5, <1>6
  <2>. QED
    BY <2>3, <2>4
<1>7. CASE Fault /\ DelDone(s) /\ stuck' = stuck \cup {s} /\ UNCHANGED ovs
  <2>1. SandboxInv(s)'
    BY <1>0, <1>1, <1>7, DelDoneInv
  <2>2. PortType' /\ stuck' \subseteq Sandboxes /\ \A t \in Sandboxes : t # s => (t \in stuck' <=> t \in stuck)
    BY <1>0, <1>7 DEF Types, PortType, CountType
  <2>. QED
    BY <2>1, <2>2, <1>0, <1>5, <1>7, DelDoneTypes
<1>. QED
  BY <1>6, <1>7 DEF DelPort

(***************************************************************************)
(* The theorems.                                                           *)
(***************************************************************************)
\* Init establishes the invariant.
LEMMA InvInit == Init => IInv
<1>. SUFFICES ASSUME Init PROVE IInv
  OBVIOUS
<1>1. PodType /\ CallType /\ AddType /\ DelType /\ PortType /\ AnswerType /\ NetnsType
  BY Bounds DEF Init, PodType, CallType, Calls, AddType, DelType, PortType, AnswerType, NetnsType
<1>2. CountType
  BY Bounds DEF Init, CountType
<1>3. \A s \in Sandboxes : SandboxInv(s)
  BY DEF Init, SandboxInv, CallInv, LeakInv
<1>. QED
  BY <1>1, <1>2, <1>3, TypeParts DEF Types, IInv

\* A step that stutters keeps it.
LEMMA StutterKeeps == ASSUME IInv, UNCHANGED vars PROVE IInv'
<1>0. Types /\ \A s \in Sandboxes : SandboxInv(s)
  BY IInvParts
<1>1. UNCHANGED <<pod, conf, up, call, env, add, del, netns, ovs, answer, stuck, late, pods, faults>>
  BY DEF vars, requests, history
<1>2. /\ PodType' /\ CallType' /\ AddType' /\ DelType' /\ PortType' /\ AnswerType'
      /\ CountType' /\ NetnsType'
  BY <1>0, <1>1, TypeKept DEF Types, history
<1>3. \A s \in Sandboxes : Same(s)
  BY <1>1 DEF Same
<1>4. TypeOK'
  BY <1>2, TypePartsNext
<1>. QED
  BY <1>0, <1>2, <1>3, <1>4, SameKept DEF IInv

\* Every step keeps it.
LEMMA InvNext == IInv /\ [Next]_vars => IInv'
<1>. SUFFICES ASSUME IInv, [Next]_vars PROVE IInv'
  OBVIOUS
<1>1. CASE CreatePod \/ Annotate \/ DeletePod \/ EditConf \/ Start
  BY <1>1, OutsideKeeps
<1>2. ASSUME NEW s \in Sandboxes,
             RunSandbox(s) \/ GiveUp(s) \/ StopSandbox(s) \/ NetnsGone(s) \/ CmdAdd(s) \/ CmdDel(s)
      PROVE  IInv'
  BY <1>2, RunKeeps, StopKeeps, CmdAddKeeps, CmdDelKeeps, StepKeeps
<1>3. ASSUME NEW s \in Sandboxes, Serve(s) PROVE IInv'
  BY <1>3, PollKeeps, SetupKeeps, AddPortKeeps, InterfacesDoneKeeps, AddRouteKeeps,
     RoutesDoneKeeps, StepKeeps DEF Serve
<1>4. ASSUME NEW s \in Sandboxes, DelPort(s) PROVE IInv'
  BY <1>4, DelPortKeeps, StepKeeps
<1>5. CASE Crash
  BY <1>5, DieKeeps DEF Crash
<1>6. CASE UNCHANGED vars
  BY <1>6, StutterKeeps
<1>. QED
  BY <1>1, <1>2, <1>3, <1>4, <1>5, <1>6 DEF Next

\* The invariant holds in every state.
THEOREM Invariance == Spec => []IInv
BY InvInit, InvNext, PTL DEF Spec

\* Type correctness: every request, result, port and DEL stays in its bounds; that
\* cmdAdd numbers no port beyond the names that cmdDel goes through is part of it.
THEOREM TypeCorrect == Spec => []TypeOK
<1>1. IInv => TypeOK
  BY DEF IInv
<1>. QED
  BY <1>1, Invariance, PTL

\* Once a sandbox is torn down br-int holds no port of it, except after a del-port
\* that failed, a DEL without configuration, or one that overtook its ADD.
THEOREM NoPortLeaks == Spec => []NoPortLeak
<1>1. IInv => NoPortLeak
  <2>. SUFFICES ASSUME IInv, NEW x \in ovs, call[x.sb] = "deleted" PROVE x.sb \in stuck \cup late
    BY DEF NoPortLeak
  <2>1. x.sb \in Sandboxes
    BY IInvParts DEF Types, PortType
  <2>. QED
    BY <2>1, IInvParts DEF SandboxInv, LeakInv
<1>. QED
  BY <1>1, Invariance, PTL

\* A successful ADD that lists interfaces has made all that it lists.
THEOREM AnswersArePlugged == Spec => []AnswerIsPlugged
<1>1. IInv => AnswerIsPlugged
  <2>. SUFFICES ASSUME IInv, NEW s \in Sandboxes,
                       call[s] = "added", netns[s] # NoVal, answer[s].result.ifs # <<>>
                PROVE  /\ Len(answer[s].result.ifs) = 2 * Len(answer[s].ann)
                       /\ \A i \in DOMAIN answer[s].ann : Plugged(s, answer[s].ann, i)
    BY DEF AnswerIsPlugged
  <2>. DEFINE a == answer[s].ann
  <2>1. AnswerInv(s, answer[s], env[s].ifname, netns[s], ovs)
    BY IInvParts DEF SandboxInv
  <2>2. /\ Len(answer[s].result.ifs) = 2 * Len(a) /\ DOMAIN a = 1..Len(a)
        /\ InNetns(netns[s], a, env[s].ifname, Len(a)) /\ OnBridge(s, ovs, a, Len(a))
    BY <2>1 DEF AnswerInv
  <2>3. ASSUME NEW i \in 1..Len(a) PROVE Plugged(s, a, i)
    BY <2>2 DEF InNetns, OnBridge, Plugged
  <2>. QED
    BY <2>2, <2>3
<1>. QED
  BY <1>1, Invariance, PTL

\* Every address of an answer points at the container end of its own entry.
THEOREM AddressesMatch == Spec => []AddressesMatchInterfaces
<1>1. IInv => AddressesMatchInterfaces
  BY IInvParts DEF AddressesMatchInterfaces, SandboxInv, Consistent
<1>. QED
  BY <1>1, Invariance, PTL

\* A pod with its default interface as eth0 has a default route, and keeps a route to
\* its node's network when that goes elsewhere.
THEOREM DefaultAndHostRoutes == Spec => []DefaultAndHostRoute
<1>1. IInv => DefaultAndHostRoute
  <2>. SUFFICES ASSUME IInv, NEW s \in Sandboxes,
                       call[s] = "added", netns[s] # NoVal, answer[s].result.ifs # <<>>,
                       env[s].ifname = "eth0",
                       NEW i \in DOMAIN answer[s].ann, answer[s].ann[i].intf = "*"
                PROVE  /\ netns[s].dflt # NoVal
                       /\ netns[s].dflt # "eth0" => netns[s].host = GetHostNetwork
    BY DEF DefaultAndHostRoute
  <2>. DEFINE a == answer[s].ann
  <2>1. AnswerInv(s, answer[s], env[s].ifname, netns[s], ovs)
    BY IInvParts DEF SandboxInv
  <2>2. DOMAIN a = 1..Len(a) /\ InNetns(netns[s], a, env[s].ifname, Len(a))
    BY <2>1 DEF AnswerInv
  <2>. QED
    BY <2>2 DEF InNetns
<1>. QED
  BY <1>1, Invariance, PTL
=============================================================================

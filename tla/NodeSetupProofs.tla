--------------------------- MODULE NodeSetupProofs ---------------------------
(***************************************************************************)
(* Safety of NodeSetup for every number of operators and nodes and every   *)
(* bound, by one inductive invariant.                                      *)
(***************************************************************************)
EXTENDS NodeSetup, TLAPS

(***************************************************************************)
(* The inductive invariant.                                                *)
(***************************************************************************)

\* How far an operator is tells what OVN holds: it has passed the router, the join
\* switch, the router's port (with its own MAC), and its peer.
OperatorInv ==
  \A o \in Operators :
    /\ pc[o] \notin {"down", "lrAdd"} => lr
    /\ pc[o] \notin {"down", "lrAdd", "joinAdd"} => join
    /\ pc[o] \in {"lrpAdd", "jtorAdd"} => mac[o] \in Macs
    /\ pc[o] = "jtorAdd" => rtoj = mac[o]
    /\ pc[o] \in {"findLs", "lsAdd", "up"} => jtor # NoVal
    /\ pc[o] = "up" => defaultNw

\* The two ends of the router's link agree.
LinkInv == jtor # NoVal => jtor = rtoj

\* A Subscribe call that has an address has the one of the node's port.
SubInvOf(n) ==
  sub[n] # NoVal =>
    /\ sub[n].addr # NoVal => sub[n].addr \in Addrs /\ sub[n].addr = lsp[PortName[n]]
    /\ sub[n].pc \in {"lspAdd", "poll"} => sub[n].tries < PollTries
SubInv == \A n \in Nodes : SubInvOf(n)

\* The calls between add-port and the masquerading rule.
Middle == {"linkUp", "addrAdd", "masq"}

\* How far the agent is tells what the node has; outside these calls a port that is
\* there is whole, unless they were cut short.
NodeInvOf(n) ==
  /\ agent[n] \in Middle \cup {"addPort"} =>
       want[n] \in Addrs /\ want[n] = lsp[PortName[n]]
  /\ agent[n] \in Middle => kernel[n].ovs
  /\ agent[n] \in {"addrAdd", "masq"} => kernel[n].up
  /\ agent[n] = "masq" => kernel[n].addr = want[n]
  /\ kernel[n].ovs /\ agent[n] \notin Middle /\ n \notin failed =>
       Whole(n, lsp[PortName[n]]) /\ lsp[PortName[n]] \in Addrs
  /\ agent[n] = "synced" /\ n \notin skipped \cup failed => kernel[n].ovs
NodeInv == \A n \in Nodes : NodeInvOf(n)

\* A pod's gateway is the address of its node's port.
PodInv == \A n \in Nodes : gw[n] \in Addrs => gw[n] = lsp[PortName[n]]

IInv == TypeOK /\ OperatorInv /\ LinkInv /\ SubInv /\ NodeInv /\ PodInv

(***************************************************************************)
(* Type correctness, by parts of the state.                                *)
(***************************************************************************)
OperatorType ==
  /\ pc \in [Operators -> {"down", "lrAdd", "joinAdd", "getMac", "lrpAdd", "jtorAdd",
                           "findLs", "lsAdd", "up"}]
  /\ mac \in [Operators -> Macs \cup {NoVal}]
  /\ lr \in BOOLEAN /\ join \in BOOLEAN /\ defaultNw \in BOOLEAN
  /\ rtoj \in Macs \cup {NoVal} /\ jtor \in Macs \cup {NoVal}

Subs ==
  [op: Operators, pc: {"lspAdd", "poll", "mask", "send", "open"},
   tries: 0..PollTries, addr: Addrs \cup {NoVal}]

SubType ==
  lsp \in [Ports -> Addrs \cup {"dynamic", NoVal}] /\ sub \in [Nodes -> Subs \cup {NoVal}]

Kernels == [ovs: BOOLEAN, up: BOOLEAN, addr: Addrs \cup {NoVal}, masq: BOOLEAN]

NodeType ==
  /\ agent \in [Nodes -> {"off", "recv", "addPort", "linkUp", "addrAdd", "masq", "synced"}]
  /\ want \in [Nodes -> Addrs \cup {NoVal}]
  /\ kernel \in [Nodes -> Kernels]

PodType == gw \in [Nodes -> Addrs \cup {"", NoVal}] /\ tries \in [Nodes -> 0..(PollTries - 1)]

CountType ==
  /\ skipped \subseteq Nodes /\ failed \subseteq Nodes
  /\ faults \in 0..MaxFaults /\ reboots \in 0..MaxReboots

\* The parts make the whole.
LEMMA TypeParts == TypeOK <=> OperatorType /\ SubType /\ NodeType /\ PodType /\ CountType
BY DEF TypeOK, OperatorType, SubType, NodeType, PodType, CountType, Subs, Kernels

\* Also in the next state.
LEMMA TypePartsNext ==
  ASSUME OperatorType', SubType', NodeType', PodType', CountType' PROVE TypeOK'
BY DEF TypeOK, OperatorType, SubType, NodeType, PodType, CountType, Subs, Kernels

\* The bounds are numbers.
LEMMA Bounds ==
  PollTries \in Nat /\ PollTries # 0 /\ MaxFaults \in Nat /\ MaxReboots \in Nat
BY ConstantsAssumption

\* Parts that a step leaves alone keep their types.
LEMMA TypeKept ==
  /\ OperatorType /\ UNCHANGED <<opVars, ovnVars>> => OperatorType'
  /\ SubType /\ UNCHANGED <<lsp, sub>> => SubType'
  /\ NodeType /\ UNCHANGED nodeVars => NodeType'
  /\ PodType /\ UNCHANGED podVars => PodType'
  /\ CountType /\ UNCHANGED <<history, faults, reboots>> => CountType'
BY DEF OperatorType, SubType, NodeType, PodType, CountType, opVars, ovnVars, nodeVars,
       podVars, history

\* A failure is counted, up to its bound.
LEMMA FaultCounted ==
  ASSUME CountType, Fault \/ UNCHANGED faults PROVE faults' \in 0..MaxFaults
BY Bounds DEF CountType, Fault

\* Init establishes the types.
LEMMA TypeInit == Init => TypeOK
<1>. SUFFICES ASSUME Init PROVE OperatorType /\ SubType /\ NodeType /\ PodType /\ CountType
  BY TypeParts
<1>1. OperatorType
  BY DEF Init, OperatorType
<1>2. SubType
  BY DEF Init, SubType
<1>3. NodeType
  BY DEF Init, NodeType, Kernels, Fresh
<1>4. PodType /\ CountType
  BY Bounds DEF Init, PodType, CountType
<1>. QED
  BY <1>1, <1>2, <1>3, <1>4

\* A command of the set-up, and what it leaves alone.
LEMMA SetupFrame ==
  ASSUME NEW o \in Operators, Operator(o)
  PROVE  UNCHANGED <<lsp, sub, nodeVars, podVars, history, reboots>> /\ (Fault \/ UNCHANGED faults)
BY DEF Operator, Start, LrAdd, JoinAdd, GetMac, LrpAdd, JtorAdd, FindLs, LsAdd, Setup

\* The commands of an operator keep the types.
LEMMA OperatorKeepsType == ASSUME TypeOK, NEW o \in Operators, Operator(o) PROVE TypeOK'
<1>1. OperatorType'
  <2>. USE TypeParts DEF OperatorType, Goto, ovnVars
  <2>1. CASE Start(o)
    BY <2>1 DEF Start
  <2>2. CASE LrAdd(o)
    BY <2>2 DEF LrAdd, Setup
  <2>3. CASE JoinAdd(o)
    BY <2>3 DEF JoinAdd, Setup
  <2>4. CASE GetMac(o)
    BY <2>4 DEF GetMac
  <2>5. CASE LrpAdd(o)
    BY <2>5 DEF LrpAdd, Setup
  <2>6. CASE JtorAdd(o)
    BY <2>6 DEF JtorAdd, Setup
  <2>7. CASE FindLs(o)
    BY <2>7 DEF FindLs
  <2>8. CASE LsAdd(o)
    BY <2>8 DEF LsAdd, Setup
  <2>. QED
    BY <2>1, <2>2, <2>3, <2>4, <2>5, <2>6, <2>7, <2>8 DEF Operator
<1>2. CountType'
  <2>1. UNCHANGED <<skipped, failed, reboots>>
    BY SetupFrame DEF history
  <2>. QED
    BY <2>1, SetupFrame, FaultCounted, TypeParts DEF CountType
<1>. QED
  BY <1>1, <1>2, SetupFrame, TypeKept, TypeParts, TypePartsNext

\* A Subscribe call after one of its steps.
LEMMA SubFields ==
  ASSUME SubType, NEW n \in Nodes, sub[n] # NoVal
  PROVE  /\ sub[n] \in Subs /\ sub[n].addr \in Addrs \cup {NoVal} /\ sub[n].tries \in Nat
         /\ \A c \in {"poll", "mask", "send", "open"} : [sub[n] EXCEPT !.pc = c] \in Subs
         /\ \A a \in Addrs \cup {NoVal} : [sub[n] EXCEPT !.pc = "mask", !.addr = a] \in Subs
         /\ \A t \in 0..PollTries, c \in {"poll", "send"} :
              [sub[n] EXCEPT !.tries = t, !.pc = c] \in Subs
<1>1. sub[n] \in Subs
  BY DEF SubType
<1>2. sub[n].tries \in 0..PollTries
  BY <1>1 DEF Subs
<1>3. sub[n].tries \in Nat
  BY <1>2, Bounds
<1>. QED
  BY <1>1, <1>3 DEF Subs

\* The steps of Subscribe keep the types; a call that polls has a read left.
LEMMA ServerKeepsType ==
  ASSUME TypeOK, SubInv, NEW n \in Nodes, Server(n) PROVE TypeOK'
<1>0. OperatorType /\ SubType /\ NodeType /\ PodType /\ CountType
  BY TypeParts
<1>. USE <1>0
<1>1. /\ sub[n] # NoVal /\ PortName[n] \in Ports
      /\ UNCHANGED <<opVars, ovnVars, podVars, failed, reboots>> /\ (Fault \/ UNCHANGED faults)
  BY ConstantsAssumption
  DEF Server, LspAdd, PollPort, GetMask, SendInSync, At, history
<1>2. \A x \in Subs \cup {NoVal} : [sub EXCEPT ![n] = x] \in [Nodes -> Subs \cup {NoVal}]
  BY DEF SubType
<1>3. faults' \in 0..MaxFaults
  BY <1>1, FaultCounted
<1>4. CASE LspAdd(n)
  <2>1. sub' \in [Nodes -> Subs \cup {NoVal}]
    BY <1>1, <1>2, <1>4, SubFields DEF LspAdd, Refuse
  <2>2. lsp' \in [Ports -> Addrs \cup {"dynamic", NoVal}]
    BY <1>1, <1>4 DEF LspAdd, SubType
  <2>3. SubType' /\ CountType' /\ UNCHANGED nodeVars
    BY <1>1, <1>3, <1>4, <2>1, <2>2 DEF LspAdd, SubType, CountType, history
  <2>. QED
    BY <1>1, <2>3, TypeKept, TypePartsNext
<1>5. CASE PollPort(n)
  <2>1. sub[n].pc = "poll" /\ sub[n].tries \in Nat /\ sub[n].tries < PollTries
    BY <1>1, <1>5, SubFields DEF PollPort, At, SubInv, SubInvOf
  <2>2. sub[n].tries + 1 \in 0..PollTries
    BY <2>1, Bounds
  <2>3. lsp[PortName[n]] \in Addrs \cup {"dynamic", NoVal}
    BY <1>1 DEF SubType
  <2>4. sub' \in [Nodes -> Subs \cup {NoVal}]
    <3>1. CASE /\ sub' = [sub EXCEPT ![n].pc = "mask", ![n].addr = lsp[PortName[n]]]
               /\ lsp[PortName[n]] # "dynamic"
      BY <1>1, <1>2, <2>3, <3>1, SubFields
    <3>2. CASE sub' = [sub EXCEPT ![n].tries = @ + 1,
                                  ![n].pc = IF RanOut(sub[n].tries) THEN "send" ELSE @]
      <4>1. PICK t \in 0..PollTries, c \in {"poll", "send"} :
              sub' = [sub EXCEPT ![n] = [sub[n] EXCEPT !.tries = t, !.pc = c]]
        BY <2>1, <2>2, <3>2
      <4>. QED
        BY <1>1, <1>2, <4>1, SubFields
    <3>3. CASE Refuse(n)
      BY <1>2, <3>3 DEF Refuse
    <3>. QED
      BY <1>5, <3>1, <3>2, <3>3 DEF PollPort
  <2>5. SubType' /\ CountType' /\ UNCHANGED nodeVars
    BY <1>1, <1>3, <1>5, <2>4 DEF PollPort, SubType, CountType, history
  <2>. QED
    BY <1>1, <2>5, TypeKept, TypePartsNext
<1>6. CASE GetMask(n)
  <2>1. sub' \in [Nodes -> Subs \cup {NoVal}]
    BY <1>1, <1>2, <1>6, SubFields DEF GetMask, Refuse
  <2>2. SubType' /\ CountType' /\ UNCHANGED nodeVars
    BY <1>1, <1>3, <1>6, <2>1 DEF GetMask, SubType, CountType, history
  <2>. QED
    BY <1>1, <2>2, TypeKept, TypePartsNext
<1>7. CASE SendInSync(n)
  <2>1. sub' \in [Nodes -> Subs \cup {NoVal}] /\ lsp' = lsp
    BY <1>1, <1>2, <1>7, SubFields DEF SendInSync
  <2>2. NodeType'
    BY <1>1, <1>7, SubFields DEF SendInSync, NodeType
  <2>3. SubType' /\ CountType'
    BY <1>1, <1>3, <1>7, <2>1 DEF SendInSync, SubType, CountType
  <2>. QED
    BY <1>1, <2>2, <2>3, TypeKept, TypePartsNext
<1>. QED
  BY <1>4, <1>5, <1>6, <1>7 DEF Server

\* What a node's port becomes is of its type.
LEMMA KernelFields ==
  ASSUME NodeType, NEW n \in Nodes
  PROVE  /\ kernel[n] \in Kernels
         /\ \A b \in BOOLEAN : [kernel[n] EXCEPT !.ovs = b] \in Kernels
         /\ [kernel[n] EXCEPT !.up = TRUE] \in Kernels
         /\ [kernel[n] EXCEPT !.addr = want[n]] \in Kernels
         /\ [kernel[n] EXCEPT !.masq = TRUE] \in Kernels
         /\ [Fresh EXCEPT !.ovs = kernel[n].ovs] \in Kernels
<1>1. kernel[n] \in Kernels /\ want[n] \in Addrs \cup {NoVal}
  BY DEF NodeType
<1>. QED
  BY <1>1 DEF Kernels, Fresh

\* One call of the agent keeps the types.
LEMMA StepKeepsType ==
  ASSUME TypeOK, NEW n \in Nodes, NEW k \in Kernels, NEW from, NEW to, Step(n, from, to, k),
         to \in Middle \cup {"synced"}, failed' \subseteq Nodes, Fault \/ UNCHANGED faults
  PROVE  TypeOK'
<1>. USE TypeParts
<1>1. NodeType'
  BY DEF Step, NodeType, Middle
<1>2. CountType'
  <2>1. UNCHANGED <<skipped, reboots>>
    BY DEF Step
  <2>. QED
    BY <2>1, FaultCounted DEF CountType
<1>3. UNCHANGED <<opVars, ovnVars, lsp, sub, podVars>>
  BY DEF Step
<1>. QED
  BY <1>1, <1>2, <1>3, TypeKept, TypePartsNext

\* The agent's subscription, its port and its end keep the types.
LEMMA AgentKeepsType == ASSUME TypeOK, NEW n \in Nodes, Agent(n) PROVE TypeOK'
<1>. USE TypeParts
<1>2. failed \subseteq Nodes
  BY DEF CountType
<1>3. CASE Subscribe(n)
  <2>1. PICK o \in Operators :
          sub' = [sub EXCEPT ![n] = [op |-> o, pc |-> "lspAdd", tries |-> 0, addr |-> NoVal]]
    BY <1>3 DEF Subscribe
  <2>2. [op |-> o, pc |-> "lspAdd", tries |-> 0, addr |-> NoVal] \in Subs
    BY Bounds DEF Subs
  <2>3. SubType' /\ NodeType'
    BY <1>3, <2>1, <2>2 DEF Subscribe, SubType, NodeType
  <2>. QED
    BY <1>3, <2>3, TypeKept, TypePartsNext DEF Subscribe
<1>4. ASSUME NEW step, Abandon(n, step) PROVE TypeOK'
  <2>1. Step(n, step, "synced", kernel[n]) /\ Fault /\ failed' \subseteq Nodes
    BY <1>2, <1>4 DEF Abandon
  <2>. QED
    BY <2>1, KernelFields, StepKeepsType
<1>5. CASE AddPort(n)
  <2>1. failed' \subseteq Nodes /\ (Fault \/ UNCHANGED faults)
    BY <1>2, <1>5 DEF AddPort
  <2>2. \/ Step(n, "addPort", "linkUp", [kernel[n] EXCEPT !.ovs = TRUE])
        \/ Step(n, "addPort", "synced", kernel[n])
        \/ \E made \in BOOLEAN : Step(n, "addPort", "synced", [kernel[n] EXCEPT !.ovs = made])
    BY <1>5 DEF AddPort
  <2>3. PICK k \in Kernels, to \in {"linkUp", "synced"} : Step(n, "addPort", to, k)
    BY <2>2, KernelFields
  <2>. QED
    BY <2>1, <2>3, StepKeepsType DEF Middle
<1>6. CASE LinkUp(n)
  <2>1. CASE /\ Step(n, "linkUp", "addrAdd", [kernel[n] EXCEPT !.up = TRUE])
             /\ UNCHANGED <<failed, faults>>
    BY <1>2, <2>1, KernelFields, StepKeepsType DEF Middle
  <2>. QED
    BY <1>4, <1>6, <2>1 DEF LinkUp
<1>7. CASE AddrAdd(n)
  <2>1. CASE /\ Step(n, "addrAdd", "masq", [kernel[n] EXCEPT !.addr = want[n]])
             /\ UNCHANGED <<failed, faults>>
    BY <1>2, <2>1, KernelFields, StepKeepsType DEF Middle
  <2>. QED
    BY <1>4, <1>7, <2>1 DEF AddrAdd
<1>8. CASE EnsureIPTables(n)
  <2>1. CASE /\ Step(n, "masq", "synced", [kernel[n] EXCEPT !.masq = TRUE])
             /\ UNCHANGED <<failed, faults>>
    BY <1>2, <2>1, KernelFields, StepKeepsType
  <2>. QED
    BY <1>4, <1>8, <2>1 DEF EnsureIPTables
<1>9. CASE AgentNotices(n)
  <2>1. NodeType'
    BY <1>9 DEF AgentNotices, NodeType
  <2>. QED
    BY <1>9, <2>1, TypeKept, TypePartsNext DEF AgentNotices
<1>. QED
  BY <1>3, <1>5, <1>6, <1>7, <1>8, <1>9 DEF Agent

\* So do ovn-northd, pods and every failure.
LEMMA OthersKeepType ==
  ASSUME TypeOK,
         \/ \E o \in Operators : Crash(o)
         \/ \E p \in Ports : Allocate(p)
         \/ \E n \in Nodes : AgentCrash(n) \/ Reboot(n) \/ GetNodeLogicalPortIPAddr(n)
         \/ UNCHANGED vars
  PROVE  TypeOK'
<1>. USE TypeParts DEF history
<1>1. ASSUME NEW o \in Operators, Crash(o) PROVE TypeOK'
  <2>1. OperatorType'
    BY <1>1 DEF Crash, Goto, OperatorType, ovnVars
  <2>2. SubType'
    BY <1>1 DEF Crash, SubType
  <2>3. CountType'
    BY <1>1, FaultCounted DEF Crash, CountType
  <2>. QED
    BY <1>1, <2>1, <2>2, <2>3, TypeKept, TypePartsNext DEF Crash
<1>2. ASSUME NEW p \in Ports, Allocate(p) PROVE TypeOK'
  <2>1. SubType'
    BY <1>2 DEF Allocate, SubType
  <2>. QED
    BY <1>2, <2>1, TypeKept, TypePartsNext DEF Allocate
<1>3. ASSUME NEW n \in Nodes, AgentCrash(n) PROVE TypeOK'
  <2>1. SubType' /\ NodeType'
    BY <1>3 DEF AgentCrash, Refuse, SubType, NodeType
  <2>2. CountType'
    BY <1>3, FaultCounted DEF AgentCrash, CountType
  <2>. QED
    BY <1>3, <2>1, <2>2, TypeKept, TypePartsNext DEF AgentCrash
<1>4. ASSUME NEW n \in Nodes, Reboot(n) PROVE TypeOK'
  <2>1. SubType' /\ NodeType'
    BY <1>4, KernelFields DEF Reboot, Refuse, SubType, NodeType
  <2>2. CountType'
    BY <1>4, Bounds DEF Reboot, CountType
  <2>. QED
    BY <1>4, <2>1, <2>2, TypeKept, TypePartsNext DEF Reboot
<1>5. ASSUME NEW n \in Nodes, GetNodeLogicalPortIPAddr(n) PROVE TypeOK'
  <2>1. tries[n] \in 0..(PollTries - 1)
    BY DEF PodType
  <2>2. tries' \in [Nodes -> 0..(PollTries - 1)]
    <3>1. PICK t \in {0, tries[n] + 1} :
            tries' = [tries EXCEPT ![n] = t] /\ (t = tries[n] + 1 => t # PollTries \/ t = 0)
      BY <1>5 DEF GetNodeLogicalPortIPAddr, RanOut
    <3>2. t \in 0..(PollTries - 1)
      BY <2>1, <3>1, Bounds
    <3>. QED
      BY <3>1, <3>2 DEF PodType
  <2>3. gw' \in [Nodes -> Addrs \cup {"", NoVal}]
    BY <1>5 DEF GetNodeLogicalPortIPAddr, PodType
  <2>4. CountType'
    <3>1. Fault \/ UNCHANGED faults
      BY <1>5 DEF GetNodeLogicalPortIPAddr
    <3>. QED
      BY <1>5, <3>1, FaultCounted DEF GetNodeLogicalPortIPAddr, CountType
  <2>5. PodType'
    BY <2>2, <2>3 DEF PodType
  <2>. QED
    BY <1>5, <2>4, <2>5, TypeKept, TypePartsNext DEF GetNodeLogicalPortIPAddr
<1>6. CASE UNCHANGED vars
  BY <1>6, TypeKept, TypePartsNext DEF vars
<1>. QED
  BY <1>1, <1>2, <1>3, <1>4, <1>5, <1>6

\* Every step keeps the types.
LEMMA TypeStep == ASSUME TypeOK, SubInv, [Next]_vars PROVE TypeOK'
<1>1. ASSUME NEW o \in Operators, Operator(o) PROVE TypeOK'
  BY <1>1, OperatorKeepsType
<1>2. ASSUME NEW n \in Nodes, Server(n) \/ Agent(n) PROVE TypeOK'
  BY <1>2, ServerKeepsType, AgentKeepsType
<1>. QED
  BY <1>1, <1>2, OthersKeepType DEF Next

(***************************************************************************)
(* The operators.                                                          *)
(***************************************************************************)

\* The steps of nodes, pods and ovn-northd leave the set-up alone.
LEMMA SetupKept ==
  ASSUME Next, \A o \in Operators : ~Operator(o) /\ ~Crash(o)
  PROVE  UNCHANGED <<pc, mac, lr, join, defaultNw, rtoj, jtor>>
BY ZenonT(60) DEF Next, Allocate, Server, LspAdd, PollPort, GetMask, SendInSync, Agent, Subscribe, AddPort,
       LinkUp, AddrAdd, EnsureIPTables, Abandon, Step, AgentNotices, AgentCrash, Reboot,
       GetNodeLogicalPortIPAddr, opVars, ovnVars

\* A second operator's command finds the MAC that the first one gave to the link, or
\* is refused; and nothing that is there goes.
LEMMA OperatorInvStep ==
  ASSUME TypeOK, OperatorInv, LinkInv, [Next]_vars PROVE OperatorInv' /\ LinkInv'
<1>. USE DEF OperatorInv, LinkInv
<1>1. NoVal \notin Macs
  BY ConstantsAssumption
<1>2. OperatorType
  BY TypeParts
<1>3. CASE UNCHANGED <<pc, mac, lr, join, defaultNw, rtoj, jtor>>
  BY <1>3
<1>4. ASSUME NEW o \in Operators, Operator(o) PROVE OperatorInv' /\ LinkInv'
  <2>. USE <1>1, <1>2 DEF OperatorType, Goto, ovnVars
  <2>1. CASE Start(o)
    BY <2>1 DEF Start
  <2>2. CASE LrAdd(o)
    BY <2>2 DEF LrAdd, Setup
  <2>3. CASE JoinAdd(o)
    BY <2>3 DEF JoinAdd, Setup
  <2>4. CASE GetMac(o)
    BY <2>4 DEF GetMac
  <2>5. CASE LrpAdd(o)
    BY <2>5 DEF LrpAdd, Setup
  <2>6. CASE JtorAdd(o)
    BY <2>6 DEF JtorAdd, Setup
  <2>7. CASE FindLs(o)
    BY <2>7 DEF FindLs
  <2>8. CASE LsAdd(o)
    BY <2>8 DEF LsAdd, Setup
  <2>. QED
    BY <1>4, <2>1, <2>2, <2>3, <2>4, <2>5, <2>6, <2>7, <2>8 DEF Operator
<1>5. ASSUME NEW o \in Operators, Crash(o) PROVE OperatorInv' /\ LinkInv'
  BY <1>2, <1>5 DEF Crash, Goto, OperatorType, ovnVars
<1>. QED
  BY <1>3, <1>4, <1>5, SetupKept DEF vars, opVars, ovnVars

(***************************************************************************)
(* The nodes.                                                              *)
(***************************************************************************)

\* A port keeps its address.
PortsKept ==
  \A p \in Ports : lsp[p] \in Addrs => lsp'[p] = lsp[p]

\* No step takes an address from a port: --may-exist keeps it, ovn-northd gives one once.
LEMMA PortsKeptStep == ASSUME TypeOK, [Next]_vars PROVE PortsKept
<1>1. SubType /\ "dynamic" \notin Addrs /\ NoVal \notin Addrs
  BY TypeParts, ConstantsAssumption
<1>2. CASE UNCHANGED lsp
  BY <1>2 DEF PortsKept
<1>3. ASSUME NEW p \in Ports, Allocate(p) PROVE PortsKept
  BY <1>1, <1>3 DEF Allocate, PortsKept, SubType
<1>4. ASSUME NEW n \in Nodes, LspAdd(n) PROVE PortsKept
  <2>1. \/ UNCHANGED lsp
        \/ lsp' = [lsp EXCEPT ![PortName[n]] = IF @ = NoVal THEN "dynamic" ELSE @]
    BY <1>4 DEF LspAdd
  <2>2. CASE lsp' = [lsp EXCEPT ![PortName[n]] = IF @ = NoVal THEN "dynamic" ELSE @]
    BY <1>1, <2>2 DEF PortsKept, SubType
  <2>. QED
    BY <1>2, <2>1, <2>2
<1>5. ASSUME \A n \in Nodes : ~LspAdd(n), \A p \in Ports : ~Allocate(p) PROVE UNCHANGED lsp
  BY ZenonT(60), <1>5 DEF Next, Operator, Start, LrAdd, JoinAdd, GetMac, LrpAdd, JtorAdd, FindLs, LsAdd,
       Setup, Crash, Server, PollPort, GetMask, SendInSync, Agent, Subscribe, AddPort, LinkUp,
       AddrAdd, EnsureIPTables, Abandon, Step, AgentNotices, AgentCrash, Reboot,
       GetNodeLogicalPortIPAddr, vars
<1>. QED
  BY <1>2, <1>3, <1>4, <1>5

\* A Subscribe call that goes on or ends keeps its part of the invariant.
LEMMA SubFrame ==
  ASSUME PortsKept, NEW n \in Nodes, SubInvOf(n), sub'[n] \in {sub[n], NoVal}
  PROVE  SubInvOf(n)'
<1>1. PortName[n] \in Ports
  BY ConstantsAssumption
<1>. QED
  BY <1>1 DEF PortsKept, SubInvOf

\* A Subscribe call sends the address that the port has.
LEMMA SubInvStep == ASSUME TypeOK, SubInv, [Next]_vars PROVE SubInv'
<1>1. PortsKept /\ SubType
  BY PortsKeptStep, TypeParts
<1>2. ASSUME NEW n \in Nodes, SubInvOf(n)', \A m \in Nodes \ {n} : sub'[m] = sub[m]
      PROVE  SubInv'
  <2>1. ASSUME NEW m \in Nodes, m # n PROVE SubInvOf(m)'
    BY <1>1, <1>2, <2>1, SubFrame DEF SubInv
  <2>. QED
    BY <1>2, <2>1 DEF SubInv
<1>3. ASSUME \A n \in Nodes : sub'[n] \in {sub[n], NoVal} PROVE SubInv'
  BY <1>1, <1>3, SubFrame DEF SubInv
<1>4. ASSUME NEW n \in Nodes, Subscribe(n) PROVE SubInv'
  <2>1. PICK o \in Operators :
          sub' = [sub EXCEPT ![n] = [op |-> o, pc |-> "lspAdd", tries |-> 0, addr |-> NoVal]]
    BY <1>4 DEF Subscribe
  <2>2. SubInvOf(n)'
    BY <1>1, <2>1, Bounds DEF SubInvOf, SubType
  <2>. QED
    BY <1>1, <1>2, <2>1, <2>2 DEF SubType
<1>5. ASSUME NEW n \in Nodes, Server(n) PROVE SubInv'
  <2>1. sub[n] # NoVal /\ PortName[n] \in Ports /\ sub[n] \in Subs /\ SubInvOf(n)
    BY <1>1, <1>5, ConstantsAssumption
    DEF Server, LspAdd, PollPort, GetMask, SendInSync, At, SubType, SubInv
  <2>2. \A m \in Nodes \ {n} : sub'[m] = sub[m]
    BY <1>1, <1>5 DEF Server, LspAdd, PollPort, GetMask, SendInSync, Refuse, SubType
  <2>3. CASE sub'[n] = NoVal
    BY <1>2, <2>2, <2>3 DEF SubInvOf
  <2>4. sub[n].addr \in Addrs => lsp'[PortName[n]] = lsp[PortName[n]]
    <3>1. NoVal \notin Addrs
      BY ConstantsAssumption
    <3>. QED
      BY <1>1, <2>1, <3>1 DEF PortsKept, SubInvOf
  <2>5. CASE LspAdd(n) /\ sub' = [sub EXCEPT ![n].pc = "poll"]
    <3>1. sub'[n] = [sub[n] EXCEPT !.pc = "poll"] /\ sub[n].pc = "lspAdd"
      BY <1>1, <2>5 DEF LspAdd, At, SubType
    <3>. QED
      BY <1>2, <2>1, <2>2, <2>4, <3>1 DEF SubInvOf, Subs
  <2>6. CASE PollPort(n) /\ sub'[n] # NoVal
    <3>. DEFINE a == lsp[PortName[n]]
                c == IF RanOut(sub[n].tries) THEN "send" ELSE sub[n].pc
    <3>1. \/ a # "dynamic" /\ sub'[n] = [sub[n] EXCEPT !.pc = "mask", !.addr = a]
          \/ sub'[n] = [sub[n] EXCEPT !.tries = @ + 1, !.pc = c]
      BY <1>1, <2>6 DEF PollPort, Refuse, SubType
    <3>2. sub[n].pc = "poll" /\ lsp' = lsp /\ a \in Addrs \cup {"dynamic", NoVal}
      BY <1>1, <2>1, <2>6 DEF PollPort, At, SubType
    <3>3. CASE a # "dynamic" /\ sub'[n] = [sub[n] EXCEPT !.pc = "mask", !.addr = a]
      <4>1. sub'[n].pc = "mask" /\ sub'[n].addr = a
        BY <2>1, <3>3 DEF Subs
      <4>. QED
        BY <1>2, <2>2, <3>2, <3>3, <4>1 DEF SubInvOf
    <3>4. CASE sub'[n] = [sub[n] EXCEPT !.tries = @ + 1, !.pc = c]
      <4>1. sub'[n].tries = sub[n].tries + 1 /\ sub'[n].pc = c /\ sub'[n].addr = sub[n].addr
        BY <2>1, <3>4 DEF Subs
      <4>2. sub[n].tries \in Nat /\ sub[n].tries < PollTries
        BY <1>1, <2>1, <3>2, SubFields DEF SubInvOf
      <4>3. c = "poll" => sub[n].tries + 1 < PollTries
        BY <4>2, Bounds DEF RanOut
      <4>4. c # "lspAdd"
        BY <3>2
      <4>. QED
        BY <1>2, <2>1, <2>2, <3>2, <4>1, <4>3, <4>4 DEF SubInvOf
    <3>. QED
      BY <3>1, <3>3, <3>4
  <2>7. CASE GetMask(n) /\ sub'[n] # NoVal
    <3>1. sub'[n] = [sub[n] EXCEPT !.pc = "send"]
      BY <1>1, <2>7 DEF GetMask, Refuse, SubType
    <3>. QED
      BY <1>2, <2>1, <2>2, <2>4, <3>1 DEF SubInvOf, Subs
  <2>8. CASE SendInSync(n)
    <3>1. sub'[n] = [sub[n] EXCEPT !.pc = "open"]
      BY <1>1, <2>8 DEF SendInSync, SubType
    <3>. QED
      BY <1>2, <2>1, <2>2, <2>4, <3>1 DEF SubInvOf, Subs
  <2>. QED
    BY <1>1, <1>5, <2>3, <2>5, <2>6, <2>7, <2>8 DEF Server, LspAdd, Refuse, SubType
<1>6. ASSUME NEW o \in Operators, Operator(o) \/ Crash(o) PROVE SubInv'
  BY <1>1, <1>3, <1>6, SetupFrame DEF Crash, SubType
<1>7. ASSUME NEW n \in Nodes, Agent(n), ~Subscribe(n) PROVE SubInv'
  BY <1>3, <1>7
  DEF Agent, AddPort, LinkUp, AddrAdd, EnsureIPTables, Abandon, Step, AgentNotices
<1>8. ASSUME NEW n \in Nodes, AgentCrash(n) \/ Reboot(n) PROVE SubInv'
  BY <1>1, <1>3, <1>8 DEF AgentCrash, Reboot, Refuse, SubType
<1>9. ASSUME NEW n \in Nodes, GetNodeLogicalPortIPAddr(n) PROVE SubInv'
  BY <1>3, <1>9 DEF GetNodeLogicalPortIPAddr
<1>10. ASSUME NEW p \in Ports, Allocate(p) PROVE SubInv'
  BY <1>3, <1>10 DEF Allocate
<1>11. CASE UNCHANGED vars
  BY <1>3, <1>11 DEF vars
<1>. QED
  BY <1>4, <1>5, <1>6, <1>7, <1>8, <1>9, <1>10, <1>11 DEF Next

\* A node that a step leaves alone, but for the address of its port, keeps its part.
LEMMA NodeFrame ==
  ASSUME PortsKept, NEW n \in Nodes, NodeInvOf(n),
         agent'[n] = agent[n], want'[n] = want[n], kernel'[n] = kernel[n],
         n \in skipped' <=> n \in skipped, n \in failed' <=> n \in failed
  PROVE  NodeInvOf(n)'
<1>1. PortName[n] \in Ports
  BY ConstantsAssumption
<1>. QED
  BY <1>1 DEF PortsKept, NodeInvOf, Whole

\* The calls of the agent make a port whole or are on record as cut short.
LEMMA NodeInvStep == ASSUME TypeOK, SubInv, NodeInv, [Next]_vars PROVE NodeInv'
<1>1. PortsKept /\ NodeType /\ CountType
  BY PortsKeptStep, TypeParts
<1>2. ASSUME NEW n \in Nodes, NodeInvOf(n)',
             \A m \in Nodes \ {n} :
               /\ agent'[m] = agent[m] /\ want'[m] = want[m] /\ kernel'[m] = kernel[m]
               /\ m \in skipped' <=> m \in skipped
               /\ m \in failed' <=> m \in failed
      PROVE  NodeInv'
  BY <1>1, <1>2, NodeFrame DEF NodeInv
<1>3. ASSUME UNCHANGED <<agent, want, kernel, skipped, failed>> PROVE NodeInv'
  BY <1>1, <1>3, NodeFrame DEF NodeInv
<1>4. ASSUME NEW n \in Nodes, SendInSync(n) PROVE NodeInv'
  <2>1. /\ agent[n] = "recv" /\ want'[n] = sub[n].addr /\ kernel' = kernel /\ lsp' = lsp
        /\ agent'[n] = IF sub[n].addr = NoVal THEN "synced" ELSE "addPort"
        /\ sub[n].addr = NoVal => n \in skipped'
        /\ failed' = failed
    BY <1>1, <1>4 DEF SendInSync, NodeType
  <2>2. sub[n].addr # NoVal => sub[n].addr \in Addrs /\ sub[n].addr = lsp[PortName[n]]
    BY <1>4 DEF SendInSync, At, SubInv, SubInvOf
  <2>3. NodeInvOf(n)'
    BY <2>1, <2>2 DEF NodeInv, NodeInvOf, Middle, Whole
  <2>. QED
    BY <1>1, <1>2, <1>4, <2>3 DEF SendInSync, NodeType
<1>5. ASSUME NEW n \in Nodes, Subscribe(n) \/ AgentNotices(n) PROVE NodeInv'
  <2>1. /\ agent[n] \notin Middle /\ agent'[n] \in {"recv", "off"} /\ kernel' = kernel
        /\ lsp' = lsp /\ failed' = failed /\ want' = want
    BY <1>1, <1>5 DEF Subscribe, AgentNotices, Broken, NodeType, history, Middle
  <2>2. NodeInvOf(n)'
    BY <2>1 DEF NodeInv, NodeInvOf, Middle, Whole
  <2>. QED
    BY <1>1, <1>2, <1>5, <2>2 DEF Subscribe, AgentNotices, NodeType, history
<1>6. ASSUME NEW n \in Nodes, NEW from, NEW to, NEW k, Step(n, from, to, k),
             \A m \in Nodes \ {n} : m \in failed' <=> m \in failed,
             agent'[n] = to /\ kernel'[n] = k /\ want' = want /\ lsp' = lsp /\ skipped' = skipped
               => NodeInvOf(n)'
      PROVE  NodeInv'
  BY <1>1, <1>2, <1>6 DEF Step, NodeType
<1>7. ASSUME NEW n \in Nodes, NEW step, Abandon(n, step) PROVE NodeInv'
  <2>1. Step(n, step, "synced", kernel[n]) /\ failed' = failed \cup {n}
    BY <1>7 DEF Abandon
  <2>2. agent'[n] = "synced" => NodeInvOf(n)'
    BY <2>1 DEF NodeInvOf, Middle
  <2>. QED
    BY <1>6, <2>1, <2>2
<1>8. ASSUME NEW n \in Nodes, AddPort(n) PROVE NodeInv'
  <2>1. /\ agent[n] = "addPort" /\ kernel[n] \in Kernels
        /\ want[n] \in Addrs /\ want[n] = lsp[PortName[n]]
    BY <1>1, <1>8 DEF AddPort, Step, NodeInv, NodeInvOf, NodeType
  <2>2. CASE /\ Step(n, "addPort", "linkUp", [kernel[n] EXCEPT !.ovs = TRUE])
             /\ failed' = failed \ {n}
    <3>1. /\ agent'[n] = "linkUp" /\ kernel'[n] = [kernel[n] EXCEPT !.ovs = TRUE]
          /\ want' = want /\ lsp' = lsp
          => NodeInvOf(n)'
      BY <2>1 DEF NodeInvOf, Middle, Kernels
    <3>. QED
      BY <1>6, <2>2, <3>1
  <2>3. CASE kernel[n].ovs /\ Step(n, "addPort", "synced", kernel[n]) /\ UNCHANGED failed
    <3>1. /\ agent'[n] = "synced" /\ kernel'[n] = kernel[n] /\ lsp' = lsp
          => NodeInvOf(n)'
      BY <2>1, <2>3 DEF NodeInv, NodeInvOf, Middle, Whole
    <3>. QED
      BY <1>6, <2>3, <3>1
  <2>4. ASSUME failed' = failed \cup {n}, NEW k, Step(n, "addPort", "synced", k)
        PROVE  NodeInv'
    <3>1. agent'[n] = "synced" => NodeInvOf(n)'
      BY <2>4 DEF NodeInvOf, Middle
    <3>. QED
      BY <1>6, <2>4, <3>1
  <2>. QED
    BY <1>8, <2>2, <2>3, <2>4 DEF AddPort
<1>9. ASSUME NEW n \in Nodes, LinkUp(n) \/ AddrAdd(n) \/ EnsureIPTables(n) PROVE NodeInv'
  <2>. DEFINE OkStep ==
         /\ UNCHANGED failed
         /\ \/ Step(n, "linkUp", "addrAdd", [kernel[n] EXCEPT !.up = TRUE])
            \/ Step(n, "addrAdd", "masq", [kernel[n] EXCEPT !.addr = want[n]])
            \/ Step(n, "masq", "synced", [kernel[n] EXCEPT !.masq = TRUE])
  <2>1. CASE OkStep
    <3>1. kernel[n] \in Kernels /\ NodeInvOf(n)
      BY <1>1 DEF NodeType, NodeInv
    <3>2. /\ want' = want /\ lsp' = lsp /\ skipped' = skipped /\ failed' = failed
          /\ \/ /\ agent[n] = "linkUp" /\ agent'[n] = "addrAdd"
                /\ kernel'[n] = [kernel[n] EXCEPT !.up = TRUE]
             \/ /\ agent[n] = "addrAdd" /\ agent'[n] = "masq"
                /\ kernel'[n] = [kernel[n] EXCEPT !.addr = want[n]]
             \/ /\ agent[n] = "masq" /\ agent'[n] = "synced"
                /\ kernel'[n] = [kernel[n] EXCEPT !.masq = TRUE]
      BY <1>1, <2>1 DEF Step, NodeType
    <3>3. NodeInvOf(n)'
      BY <3>1, <3>2 DEF NodeInvOf, Middle, Kernels, Whole
    <3>. QED
      BY <1>6, <2>1, <3>3
  <2>. QED
    BY <1>7, <1>9, <2>1 DEF LinkUp, AddrAdd, EnsureIPTables
<1>10. ASSUME NEW n \in Nodes, AgentCrash(n) PROVE NodeInv'
  <2>1. /\ agent'[n] = "off" /\ UNCHANGED <<want, kernel, lsp, skipped>>
        /\ failed' = IF Interrupted(n) THEN failed \cup {n} ELSE failed
    BY <1>1, <1>10 DEF AgentCrash, NodeType
  <2>2. NodeInvOf(n)'
    BY <2>1 DEF NodeInv, NodeInvOf, Interrupted, Middle, Whole
  <2>. QED
    BY <1>1, <1>2, <1>10, <2>1, <2>2 DEF AgentCrash, NodeType
<1>11. ASSUME NEW n \in Nodes, Reboot(n) PROVE NodeInv'
  <2>1. /\ agent'[n] = "off" /\ UNCHANGED <<want, lsp, skipped>>
        /\ kernel'[n] = [Fresh EXCEPT !.ovs = kernel[n].ovs]
        /\ failed' = IF kernel[n].ovs THEN failed \cup {n} ELSE failed
    BY <1>1, <1>11 DEF Reboot, NodeType
  <2>2. kernel'[n].ovs = kernel[n].ovs
    BY <2>1 DEF Fresh
  <2>3. NodeInvOf(n)'
    BY <2>1, <2>2 DEF NodeInvOf, Middle
  <2>. QED
    BY <1>1, <1>2, <1>11, <2>1, <2>3 DEF Reboot, NodeType
<1>12. ASSUME NEW o \in Operators, Operator(o) \/ Crash(o) PROVE NodeInv'
  BY <1>3, <1>12, SetupFrame DEF Crash, nodeVars, history
<1>13. ASSUME NEW n \in Nodes, LspAdd(n) \/ PollPort(n) \/ GetMask(n) PROVE NodeInv'
  BY <1>3, <1>13 DEF LspAdd, PollPort, GetMask, nodeVars, history
<1>14. ASSUME NEW n \in Nodes, GetNodeLogicalPortIPAddr(n) PROVE NodeInv'
  BY <1>3, <1>14 DEF GetNodeLogicalPortIPAddr, nodeVars, history
<1>15. ASSUME NEW p \in Ports, Allocate(p) PROVE NodeInv'
  BY <1>3, <1>15 DEF Allocate, nodeVars, history
<1>16. CASE UNCHANGED vars
  BY <1>3, <1>16 DEF vars, nodeVars, history
<1>. QED
  BY <1>4, <1>5, <1>8, <1>9, <1>10, <1>11, <1>12, <1>13, <1>14, <1>15, <1>16
  DEF Next, Server, Agent

\* Pods are given the address that the port has, and keeps.
LEMMA PodInvStep == ASSUME TypeOK, PodInv, [Next]_vars PROVE PodInv'
<1>1. PortsKept /\ PodType /\ \A n \in Nodes : PortName[n] \in Ports
  BY PortsKeptStep, TypeParts, ConstantsAssumption
<1>2. CASE UNCHANGED gw
  BY <1>1, <1>2 DEF PodInv, PortsKept
<1>3. ASSUME NEW n \in Nodes, GetNodeLogicalPortIPAddr(n) PROVE PodInv'
  <2>1. lsp' = lsp /\ "" \notin Addrs
    BY <1>3, ConstantsAssumption DEF GetNodeLogicalPortIPAddr
  <2>2. gw' \in {gw, [gw EXCEPT ![n] = lsp[PortName[n]]], [gw EXCEPT ![n] = ""]}
    BY <1>3 DEF GetNodeLogicalPortIPAddr
  <2>. QED
    BY <1>1, <2>1, <2>2 DEF PodInv, PodType
<1>4. ASSUME \A n \in Nodes : ~GetNodeLogicalPortIPAddr(n) PROVE UNCHANGED gw
  BY ZenonT(60), <1>4 DEF Next, Operator, Start, LrAdd, JoinAdd, GetMac, LrpAdd, JtorAdd, FindLs, LsAdd,
       Setup, Crash, Server, LspAdd, PollPort, GetMask, SendInSync, Agent, Subscribe, AddPort,
       LinkUp, AddrAdd, EnsureIPTables, Abandon, Step, AgentNotices, AgentCrash, Reboot,
       Allocate, podVars, vars
<1>. QED
  BY <1>2, <1>3, <1>4

(***************************************************************************)
(* The theorems.                                                           *)
(***************************************************************************)

\* The inductive invariant holds at the start.
LEMMA InvInit == Init => IInv
<1>. SUFFICES ASSUME Init PROVE IInv
  OBVIOUS
<1>1. OperatorInv /\ LinkInv
  BY DEF Init, OperatorInv, LinkInv
<1>2. SubInv
  BY DEF Init, SubInv, SubInvOf
<1>3. NodeInv
  BY DEF Init, NodeInv, NodeInvOf, Middle, Fresh
<1>4. PodInv
  BY ConstantsAssumption DEF Init, PodInv
<1>. QED
  BY <1>1, <1>2, <1>3, <1>4, TypeInit DEF IInv

\* The inductive invariant holds in every state.
THEOREM Invariance == Spec => []IInv
<1>1. IInv /\ [Next]_vars => IInv'
  BY TypeStep, OperatorInvStep, SubInvStep, NodeInvStep, PodInvStep DEF IInv
<1>. QED
  BY InvInit, <1>1, PTL DEF Spec

\* Whatever fails or restarts, operators, Subscribe calls, agents and nodes keep their
\* types; in particular no poll goes past its last read.
THEOREM TypeCorrect == Spec => []TypeOK
<1>1. IInv => TypeOK
  BY DEF IInv
<1>. QED
  BY Invariance, <1>1, PTL

\* setupDistributedRouter: any number of operators that run at a time, fail and start
\* again leave one MAC on the link of router and join switch, and none serves before
\* the whole set-up is there.
THEOREM RouterJoinedHolds == Spec => []RouterJoined
<1>1. IInv => RouterJoined
  BY DEF IInv, OperatorInv, LinkInv, RouterJoined
<1>. QED
  BY Invariance, <1>1, PTL

\* AddNodeLogicalPorts, createNodeOVSInternalPort, getNodeLogicalPortIPAddr: on every
\* node the pods' gateway is the address of the node's port, and a node in sync has it,
\* unless it is on record why not.
THEOREM GatewayServedHolds == Spec => []GatewayServed
<1>1. ASSUME IInv PROVE GatewayServed
  <2>. SUFFICES ASSUME NEW n \in Nodes
                PROVE  /\ gw[n] \in {NoVal, "", lsp[PortName[n]]}
                       /\ agent[n] = "synced" /\ n \notin skipped \cup failed =>
                            Whole(n, lsp[PortName[n]])
    BY DEF GatewayServed
  <2>1. gw[n] \in Addrs \cup {"", NoVal}
    BY <1>1 DEF IInv, TypeOK
  <2>2. gw[n] \in {NoVal, "", lsp[PortName[n]]}
    BY <1>1, <2>1 DEF IInv, PodInv
  <2>3. agent[n] = "synced" /\ n \notin skipped \cup failed => Whole(n, lsp[PortName[n]])
    BY <1>1 DEF IInv, NodeInv, NodeInvOf, Middle
  <2>. QED
    BY <2>2, <2>3
<1>. QED
  BY Invariance, <1>1, PTL
=============================================================================

----------------------------- MODULE NodeSetup -----------------------------
(***************************************************************************)
(* What pods need before their first packet: nfn-operator sets up the      *)
(* distributed router, the join switch and the default network; a node     *)
(* whose nfn-agent subscribes gets a logical port on the default network,  *)
(* whose address the agent puts on an OVS internal port of the node; and   *)
(* pods of that node get this address as their gateway.                    *)
(*                                                                         *)
(* An action is one call that leaves the process, with the code up to the  *)
(* next one.  nfn-operator has no leader election, so that two processes   *)
(* can run at a time (a rolling update); Subscribe runs in a goroutine of  *)
(* the process that the agent reached.  ovn-northd, the kernel, OVS and    *)
(* the restarts by Kubernetes are external.                                *)
(***************************************************************************)
EXTENDS Naturals

CONSTANTS
  Operators,    \* processes of nfn-operator
  Nodes,        \* nodes of the cluster
  Ports,        \* names of node ports
  PortName,     \* GetNodeIntfName: the name of a node's port
  Macs,         \* what generateMac may draw
  Addrs,        \* addresses of the default network
  PollTries,    \* reads of a port's dynamic address (30 in the code)
  NoVal,        \* an absent object, value or request
  MaxFaults,    \* bound: failing calls, and restarts of operators and agents
  MaxReboots    \* bound: reboots of nodes

ASSUME ConstantsAssumption ==
  /\ PortName \in [Nodes -> Ports]
  /\ \A m, n \in Nodes : PortName[m] = PortName[n] => m = n
  /\ NoVal \notin Macs \cup Addrs \cup Ports
  /\ "dynamic" \notin Addrs /\ "" \notin Addrs
  /\ PollTries \in Nat \ {0} /\ MaxFaults \in Nat /\ MaxReboots \in Nat

VARIABLES
  pc,            \* per operator: its next call, "up" once it serves, "down"
  mac,           \* per operator: routerMac
  lr, join, defaultNw, \* OVN: the router, the join switch, the default network
  rtoj, jtor,    \* OVN: the MACs of the router's port and of its peer
  lsp,           \* OVN: per node port "dynamic" or its dynamic address
  sub,           \* per node: its Subscribe call [op, pc, tries, addr]
  agent,         \* per node: nfn-agent's next call
  want,          \* per node: the address in the InSync message
  kernel,        \* per node: [ovs, up, addr, masq] of its internal port
  gw,            \* per node: the gateway in the annotations of its pods
  tries,         \* per node: reads of getNodeLogicalPortIPAddr so far
  skipped,       \* history: nodes whose last InSync message had no address
  failed,        \* history: nodes where making or setting up the port was cut short
  faults, reboots

ovnVars  == <<lr, join, defaultNw, rtoj, jtor>>
opVars   == <<pc, mac>>
nodeVars == <<agent, want, kernel>>
podVars  == <<gw, tries>>
history  == <<skipped, failed>>
vars == <<opVars, ovnVars, lsp, sub, nodeVars, podVars, history, faults, reboots>>

Fault == faults < MaxFaults /\ faults' = faults + 1

(***************************************************************************)
(* Set-up of OVN: NewOvnController, before main starts the gRPC server.    *)
(* A command that fails, before or after it has committed, ends the        *)
(* process, and Kubernetes starts it again.                                *)
(***************************************************************************)
Goto(o, step) == pc' = [pc EXCEPT ![o] = step]

Start(o) ==
  /\ pc[o] = "down"
  /\ Goto(o, "lrAdd")
  /\ UNCHANGED <<mac, ovnVars, lsp, sub, nodeVars, podVars, history, faults, reboots>>

\* A command of the set-up with its effect on OVN.  refused: ovn-nbctl rejects it.
Setup(o, step, next, refused, effect, unchanged) ==
  /\ pc[o] = step
  /\ \/ ~refused /\ effect /\ Goto(o, next) /\ UNCHANGED faults
     \/ ~refused /\ effect /\ Goto(o, "down") /\ Fault
     \/ unchanged /\ Goto(o, "down") /\ (IF refused THEN UNCHANGED faults ELSE Fault)
  /\ UNCHANGED <<lsp, sub, nodeVars, podVars, history, reboots>>

\* Faulty variant: lr-add without --may-exist.
LrAddNew(o) ==
  /\ Setup(o, "lrAdd", "joinAdd", lr, lr' = TRUE, UNCHANGED lr)
  /\ UNCHANGED <<mac, join, defaultNw, rtoj, jtor>>

LrAdd(o) ==
  /\ Setup(o, "lrAdd", "joinAdd", FALSE, lr' = TRUE, UNCHANGED lr)
  /\ UNCHANGED <<mac, join, defaultNw, rtoj, jtor>>

JoinAdd(o) ==
  /\ Setup(o, "joinAdd", "getMac", FALSE, join' = TRUE, UNCHANGED join)
  /\ UNCHANGED <<mac, lr, defaultNw, rtoj, jtor>>

\* Faulty variant: a MAC is drawn also when the router port has one.
GetMacDraws(o) ==
  /\ pc[o] = "getMac"
  /\ \E m \in Macs : mac' = [mac EXCEPT ![o] = m]
  /\ Goto(o, IF rtoj = NoVal THEN "lrpAdd" ELSE "jtorAdd")
  /\ UNCHANGED <<ovnVars, lsp, sub, nodeVars, podVars, history, faults, reboots>>

\* The MAC of the router's port, or a new one.
GetMac(o) ==
  /\ pc[o] = "getMac"
  /\ \/ /\ rtoj # NoVal
        /\ mac' = [mac EXCEPT ![o] = rtoj]
        /\ Goto(o, "jtorAdd") /\ UNCHANGED faults
     \/ /\ rtoj = NoVal
        /\ \E m \in Macs : mac' = [mac EXCEPT ![o] = m]
        /\ Goto(o, "lrpAdd") /\ UNCHANGED faults
     \/ Fault /\ Goto(o, "down") /\ UNCHANGED mac
  /\ UNCHANGED <<ovnVars, lsp, sub, nodeVars, podVars, history, reboots>>

\* lrp-add rejects a port that exists with another MAC, --may-exist or not.
LrpAdd(o) ==
  /\ Setup(o, "lrpAdd", "jtorAdd", rtoj \notin {NoVal, mac[o]}, rtoj' = mac[o], UNCHANGED rtoj)
  /\ UNCHANGED <<mac, lr, join, defaultNw, jtor>>

JtorAdd(o) ==
  /\ Setup(o, "jtorAdd", "findLs", FALSE, jtor' = mac[o], UNCHANGED jtor)
  /\ UNCHANGED <<mac, lr, join, defaultNw, rtoj>>

\* createOvnLS of the default network; that it exists is no error here.
FindLs(o) ==
  /\ pc[o] = "findLs"
  /\ \/ Goto(o, IF defaultNw THEN "up" ELSE "lsAdd") /\ UNCHANGED faults
     \/ Goto(o, "down") /\ Fault
  /\ UNCHANGED <<mac, ovnVars, lsp, sub, nodeVars, podVars, history, reboots>>

LsAdd(o) ==
  /\ Setup(o, "lsAdd", "up", FALSE, defaultNw' = TRUE, UNCHANGED defaultNw)
  /\ UNCHANGED <<mac, lr, join, rtoj, jtor>>

\* The process ends, and with it the Subscribe calls it serves.
Crash(o) ==
  /\ pc[o] # "down" /\ Fault
  /\ Goto(o, "down")
  /\ sub' = [n \in Nodes |-> IF sub[n] # NoVal /\ sub[n].op = o THEN NoVal ELSE sub[n]]
  /\ UNCHANGED <<mac, ovnVars, lsp, nodeVars, podVars, history, reboots>>

(***************************************************************************)
(* Subscribe and AddNodeLogicalPorts.                                      *)
(***************************************************************************)
\* ovn-northd gives a port an address that no other port has.
Allocate(p) ==
  /\ lsp[p] = "dynamic"
  /\ \E a \in Addrs : /\ \A q \in Ports : lsp[q] # a
                      /\ lsp' = [lsp EXCEPT ![p] = a]
  /\ UNCHANGED <<opVars, ovnVars, sub, nodeVars, podVars, history, faults, reboots>>

\* The agent starts and calls Subscribe, waiting until an operator is ready.
Subscribe(n) ==
  /\ agent[n] = "off"
  /\ \E o \in Operators :
       /\ pc[o] = "up"
       /\ sub' = [sub EXCEPT ![n] = [op |-> o, pc |-> "lspAdd", tries |-> 0, addr |-> NoVal]]
  /\ agent' = [agent EXCEPT ![n] = "recv"]
  /\ UNCHANGED <<opVars, ovnVars, lsp, want, kernel, podVars, history, faults, reboots>>

At(n, step) == sub[n] # NoVal /\ sub[n].pc = step

\* Subscribe returns an error: the stream closes.
Refuse(n) == sub' = [sub EXCEPT ![n] = NoVal]

LspAdd(n) ==
  /\ At(n, "lspAdd")
  /\ LET p == PortName[n]
         added == [lsp EXCEPT ![p] = IF @ = NoVal THEN "dynamic" ELSE @]
     IN  \/ /\ lsp' = added
            /\ sub' = [sub EXCEPT ![n].pc = "poll"]
            /\ UNCHANGED faults
         \/ /\ lsp' \in {lsp, added}
            /\ Refuse(n) /\ Fault
  /\ UNCHANGED <<opVars, ovnVars, nodeVars, podVars, history, reboots>>

\* Faulty variant: one read more.
RanOutOffByOne(count) == count = PollTries

\* Whether the read after count others is the last one.
RanOut(count) == count + 1 = PollTries

\* One read of the port's dynamic address.  When the reads run out err is nil, so
\* that the node is in sync without an address.
PollPort(n) ==
  /\ At(n, "poll")
  /\ LET a == lsp[PortName[n]]
     IN  \/ /\ a # "dynamic"
            /\ sub' = [sub EXCEPT ![n].pc = "mask", ![n].addr = a]
            /\ UNCHANGED faults
         \/ /\ a = "dynamic"
            /\ sub' = [sub EXCEPT ![n].tries = @ + 1,
                                  ![n].pc = IF RanOut(sub[n].tries) THEN "send" ELSE @]
            /\ UNCHANGED faults
         \/ Refuse(n) /\ Fault
  /\ UNCHANGED <<opVars, ovnVars, lsp, nodeVars, podVars, history, reboots>>

\* getGatewayFromSwitch, for the mask: from the cache or by a command.
GetMask(n) ==
  /\ At(n, "mask")
  /\ \/ defaultNw /\ sub' = [sub EXCEPT ![n].pc = "send"] /\ UNCHANGED faults
     \/ Refuse(n) /\ Fault
  /\ UNCHANGED <<opVars, ovnVars, lsp, nodeVars, podVars, history, reboots>>

\* The InSync message; the stream then stays open.  The agent makes its port only
\* from a message with an address.
SendInSync(n) ==
  /\ At(n, "send") /\ agent[n] = "recv"
  /\ sub' = [sub EXCEPT ![n].pc = "open"]
  /\ want' = [want EXCEPT ![n] = sub[n].addr]
  /\ agent' = [agent EXCEPT ![n] = IF sub[n].addr = NoVal THEN "synced" ELSE "addPort"]
  /\ skipped' = IF sub[n].addr = NoVal THEN skipped \cup {n} ELSE skipped \ {n}
  /\ UNCHANGED <<opVars, ovnVars, lsp, kernel, podVars, failed, faults, reboots>>

(***************************************************************************)
(* CreateNodeOVSInternalPort in the agent: every call must succeed before  *)
(* the next; an error ends it, is logged, and the agent goes on.           *)
(***************************************************************************)
Fresh == [ovs |-> FALSE, up |-> FALSE, addr |-> NoVal, masq |-> FALSE]

Step(n, step, next, effect) ==
  /\ agent[n] = step
  /\ agent' = [agent EXCEPT ![n] = next]
  /\ kernel' = [kernel EXCEPT ![n] = effect]
  /\ UNCHANGED <<opVars, ovnVars, lsp, sub, want, podVars, skipped, reboots>>

\* A call fails once the port is made.
Abandon(n, step) ==
  /\ Step(n, step, "synced", kernel[n])
  /\ Fault
  /\ failed' = failed \cup {n}

\* add-port without --may-exist: it fails for a port that is there.
AddPort(n) ==
  \/ /\ ~kernel[n].ovs
     /\ Step(n, "addPort", "linkUp", [kernel[n] EXCEPT !.ovs = TRUE])
     /\ failed' = failed \ {n} /\ UNCHANGED faults
  \/ /\ kernel[n].ovs
     /\ Step(n, "addPort", "synced", kernel[n])
     /\ UNCHANGED <<failed, faults>>
  \/ /\ ~kernel[n].ovs /\ Fault
     /\ \E made \in BOOLEAN : Step(n, "addPort", "synced", [kernel[n] EXCEPT !.ovs = made])
     /\ failed' = failed \cup {n}

LinkUp(n) ==
  \/ /\ Step(n, "linkUp", "addrAdd", [kernel[n] EXCEPT !.up = TRUE])
     /\ UNCHANGED <<failed, faults>>
  \/ Abandon(n, "linkUp")

\* Faulty variant: an address that cannot be added is only logged.
AddrAddIgnoresError(n) ==
  \/ /\ Step(n, "addrAdd", "masq", [kernel[n] EXCEPT !.addr = want[n]])
     /\ UNCHANGED <<failed, faults>>
  \/ /\ Step(n, "addrAdd", "masq", kernel[n])
     /\ Fault /\ UNCHANGED failed

AddrAdd(n) ==
  \/ /\ Step(n, "addrAdd", "masq", [kernel[n] EXCEPT !.addr = want[n]])
     /\ UNCHANGED <<failed, faults>>
  \/ Abandon(n, "addrAdd")

\* SetupAndEnsureIPTables of the masquerading rule.
EnsureIPTables(n) ==
  \/ /\ Step(n, "masq", "synced", [kernel[n] EXCEPT !.masq = TRUE])
     /\ UNCHANGED <<failed, faults>>
  \/ Abandon(n, "masq")

Interrupted(n) == kernel[n].ovs /\ agent[n] \in {"linkUp", "addrAdd", "masq"}

\* The agent ends; the port it was setting up stays as it is.
AgentCrash(n) ==
  /\ agent[n] # "off" /\ Fault
  /\ agent' = [agent EXCEPT ![n] = "off"]
  /\ Refuse(n)
  /\ failed' = IF Interrupted(n) THEN failed \cup {n} ELSE failed
  /\ UNCHANGED <<opVars, ovnVars, lsp, want, kernel, podVars, skipped, reboots>>

\* Faulty variant: an error before the first message is not noticed.
BrokenOnceSynced(n) == agent[n] = "synced" /\ sub[n] = NoVal

\* Recv returns an error.
Broken(n) == agent[n] \in {"recv", "synced"} /\ sub[n] = NoVal

\* The agent shuts down, after the message at hand.
AgentNotices(n) ==
  /\ Broken(n)
  /\ agent' = [agent EXCEPT ![n] = "off"]
  /\ UNCHANGED <<opVars, ovnVars, lsp, sub, want, kernel, podVars, history, faults, reboots>>

\* The port is a row of the node's OVS database and survives; what the kernel
\* held does not.
Reboot(n) ==
  /\ reboots < MaxReboots /\ reboots' = reboots + 1
  /\ agent' = [agent EXCEPT ![n] = "off"]
  /\ Refuse(n)
  /\ kernel' = [kernel EXCEPT ![n] = [Fresh EXCEPT !.ovs = kernel[n].ovs]]
  /\ failed' = IF kernel[n].ovs THEN failed \cup {n} ELSE failed
  /\ UNCHANGED <<opVars, ovnVars, lsp, want, podVars, skipped, faults>>

(***************************************************************************)
(* getNodeLogicalPortIPAddr, the gateway that a pod of the node is given   *)
(* on the default network.                                                 *)
(***************************************************************************)
\* A pod whose node has no port yet, or whose read fails, gets no annotation now;
\* when the reads run out it gets an empty gateway.
GetNodeLogicalPortIPAddr(n) ==
  /\ gw[n] = NoVal /\ \E o \in Operators : pc[o] = "up"
  /\ LET a == lsp[PortName[n]]
     IN  \/ /\ a \in Addrs
            /\ gw' = [gw EXCEPT ![n] = a]
            /\ tries' = [tries EXCEPT ![n] = 0] /\ UNCHANGED faults
         \/ /\ a = "dynamic"
            /\ IF RanOut(tries[n])
                 THEN gw' = [gw EXCEPT ![n] = ""] /\ tries' = [tries EXCEPT ![n] = 0]
                 ELSE UNCHANGED gw /\ tries' = [tries EXCEPT ![n] = @ + 1]
            /\ UNCHANGED faults
         \/ /\ tries[n] > 0 /\ Fault
            /\ tries' = [tries EXCEPT ![n] = 0] /\ UNCHANGED gw
  /\ UNCHANGED <<opVars, ovnVars, lsp, sub, nodeVars, history, reboots>>

(***************************************************************************)
(* The specification.                                                      *)
(***************************************************************************)
Init ==
  /\ pc = [o \in Operators |-> "down"] /\ mac = [o \in Operators |-> NoVal]
  /\ lr = FALSE /\ join = FALSE /\ defaultNw = FALSE
  /\ rtoj = NoVal /\ jtor = NoVal
  /\ lsp = [p \in Ports |-> NoVal]
  /\ sub = [n \in Nodes |-> NoVal]
  /\ agent = [n \in Nodes |-> "off"] /\ want = [n \in Nodes |-> NoVal]
  /\ kernel = [n \in Nodes |-> Fresh]
  /\ gw = [n \in Nodes |-> NoVal] /\ tries = [n \in Nodes |-> 0]
  /\ skipped = {} /\ failed = {}
  /\ faults = 0 /\ reboots = 0

Operator(o) ==
  \/ Start(o) \/ LrAdd(o) \/ JoinAdd(o) \/ GetMac(o) \/ LrpAdd(o) \/ JtorAdd(o)
  \/ FindLs(o) \/ LsAdd(o)

Server(n) == LspAdd(n) \/ PollPort(n) \/ GetMask(n) \/ SendInSync(n)

Agent(n) ==
  Subscribe(n) \/ AddPort(n) \/ LinkUp(n) \/ AddrAdd(n) \/ EnsureIPTables(n) \/ AgentNotices(n)

Next ==
  \/ \E o \in Operators : Operator(o) \/ Crash(o)
  \/ \E p \in Ports : Allocate(p)
  \/ \E n \in Nodes :
       \/ Server(n) \/ Agent(n) \/ AgentCrash(n) \/ Reboot(n)
       \/ GetNodeLogicalPortIPAddr(n)

Spec == Init /\ [][Next]_vars

\* Kubernetes restarts operators and agents, and what runs goes on.  Nothing is
\* assumed of ovn-northd: the code bounds its wait for an address.
FairSpec ==
  /\ Spec
  /\ \A o \in Operators : WF_vars(Operator(o))
  /\ \A n \in Nodes : WF_vars(Server(n)) /\ WF_vars(Agent(n))

-----------------------------------------------------------------------------
(***************************************************************************)
(* Properties.                                                             *)
(***************************************************************************)
\* The type of the state.
TypeOK ==
  /\ pc \in [Operators -> {"down", "lrAdd", "joinAdd", "getMac", "lrpAdd", "jtorAdd",
                           "findLs", "lsAdd", "up"}]
  /\ mac \in [Operators -> Macs \cup {NoVal}]
  /\ lr \in BOOLEAN /\ join \in BOOLEAN /\ defaultNw \in BOOLEAN
  /\ rtoj \in Macs \cup {NoVal} /\ jtor \in Macs \cup {NoVal}
  /\ lsp \in [Ports -> Addrs \cup {"dynamic", NoVal}]
  /\ sub \in [Nodes -> [op: Operators, pc: {"lspAdd", "poll", "mask", "send", "open"},
                        tries: 0..PollTries, addr: Addrs \cup {NoVal}] \cup {NoVal}]
  /\ agent \in [Nodes -> {"off", "recv", "addPort", "linkUp", "addrAdd", "masq", "synced"}]
  /\ want \in [Nodes -> Addrs \cup {NoVal}]
  /\ kernel \in [Nodes -> [ovs: BOOLEAN, up: BOOLEAN, addr: Addrs \cup {NoVal}, masq: BOOLEAN]]
  /\ gw \in [Nodes -> Addrs \cup {"", NoVal}] /\ tries \in [Nodes -> 0..(PollTries - 1)]
  /\ skipped \subseteq Nodes /\ failed \subseteq Nodes
  /\ faults \in 0..MaxFaults /\ reboots \in 0..MaxReboots

\* The router and the join switch agree on the MAC of their link in every state,
\* whatever processes set it up, fail and start again, although each of them
\* draws a MAC of its own; and an operator serves only once everything is there.
RouterJoined ==
  /\ jtor # NoVal => jtor = rtoj
  /\ (\E o \in Operators : pc[o] = "up") => lr /\ join /\ defaultNw /\ jtor # NoVal

Whole(n, a) == kernel[n] = [ovs |-> TRUE, up |-> TRUE, addr |-> a, masq |-> TRUE]

\* The gateway of a node's pods answers: on a node that is in sync the port is up,
\* masqueraded and has the address that OVN gave it, which is the one that pods
\* were given, unless a call failed or the node rebooted after the port was made
\* (add-port then fails for good) or no address came in time.
GatewayServed ==
  \A n \in Nodes :
    /\ gw[n] \in {NoVal, "", lsp[PortName[n]]}
    /\ agent[n] = "synced" /\ n \notin skipped \cup failed => Whole(n, lsp[PortName[n]])

\* The set-up can be repeated from any point: an operator that was cut off comes
\* up in the end, also beside another one.
OperatorComesUp == \A o \in Operators : pc[o] = "down" ~> pc[o] = "up"

\* Every agent ends up in sync: a Subscribe that fails, or an operator that goes,
\* closes the stream, and the agent that notices starts again.  What the node has
\* then is what GatewayServed says.
NodeReady == \A n \in Nodes : agent[n] = "off" ~> agent[n] = "synced"
=============================================================================

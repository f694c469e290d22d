SPECIFICATION FairSpec
CONSTANTS
  NoVal = NoVal
  Operators = {o1, o2}
  Nodes = {n1}
  Ports = {n1}
  PortName <- OwnNames
  Macs = {m1, m2}
  Addrs = {a1}
  PollTries = 2
  MaxFaults = 2
  MaxReboots = 1
INVARIANTS TypeOK RouterJoined GatewayServed
PROPERTIES OperatorComesUp NodeReady
CHECK_DEADLOCK FALSE

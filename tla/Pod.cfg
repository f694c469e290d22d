SPECIFICATION FairSpec
CONSTANTS
  p1 = p1
  p2 = p2
  nw = nw
  sw1 = sw1
  eth1 = eth1
  ip1 = ip1
  mac1 = mac1
  NoVal = NoVal
  DefaultNw = nw
  Intfs = {eth1}
  Ips = {ip1}
  Macs = {mac1}
  Pods = {p1}
  Switches = {nw, sw1}
  Tags = {t1, t2}
  PodSpecs <- AllSpecs
  Contains <- Distinct
  MaxInc = 2
  MaxOps = 3
  MaxSwitchOps = 2
  MaxFaults = 1
  MaxCrashes = 1
INVARIANTS TypeOK ConfiguredMatchesOvn PortsHaveOwner
PROPERTY AnnotatedInTheEnd
CHECK_DEADLOCK FALSE

SPECIFICATION Spec
CONSTANTS
  p1 = p1
  p2 = p2
  nw = nw
  sw1 = sw1
  eth1 = eth1
  ip1 = ip1
  mac1 = mac1
  NoVal = NoVal
  DefaultNw = nw
  Intfs = {eth1}
  Ips = {ip1}
  Macs = {mac1}
  Pods = {p1, p2}
  Switches = {nw}
  Tags = {t1, t2}
  PodSpecs <- DefaultOnly
  Contains <- PrefixNames
  MaxInc = 1
  MaxOps = 3
  MaxSwitchOps = 0
  MaxFaults = 0
  MaxCrashes = 0
INVARIANT ConfiguredMatchesOvn
CHECK_DEADLOCK FALSE

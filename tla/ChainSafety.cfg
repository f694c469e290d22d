SPECIFICATION Spec
CONSTANTS
  c1 = c1
  d1 = d1
  d2 = d2
  d3 = d3
  n1 = n1
  n2 = n2
  w1 = w1
  w2 = w2
  NoVal = NoVal
  Chains = {c1}
  Deps = {d1, d2, d3}
  Nets = {n1, n2}
  DepsOf <- ThreeDeps
  NetsOf <- TwoNets
  Contains <- Distinct
  Slow = {d2}
  Nodes = {w1, w2}
  NodeOf <- OnNodes
  MaxInfo = 6
  MaxChan = 1
  MaxOps = 2
  MaxFaults = 1
INVARIANTS TypeOK HostRouteKept NoForwardingLoop CreatedMeansRouted
CHECK_DEADLOCK FALSE

SPECIFICATION Spec
CONSTANTS
  k1 = k1
  n1 = n1
  NoKey = NoKey
  NoSubnet = NoSubnet
  Keys <- OneKey
  Names <- OneName
  NameOf <- OneMap
  Subnets = {s1}
  BadSubnets = {}
  CniTypes = {"ovn4nfv"}
  MaxFaults = 1
  MaxCrashes = 0
  MaxOps = 1
INVARIANT CreatedMeansConnected
CHECK_DEADLOCK FALSE

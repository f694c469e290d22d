SPECIFICATION FairSpec
CONSTANTS
  k1 = k1
  n1 = n1
  NoKey = NoKey
  NoSubnet = NoSubnet
  Keys <- OneKey
  Names <- OneName
  NameOf <- OneMap
  Subnets = {s1, s2, bad}
  BadSubnets = {bad}
  CniTypes = {"ovn4nfv", "other"}
  MaxFaults = 2
  MaxCrashes = 1
  MaxOps = 3
INVARIANTS TypeOK NoOrphanSwitch CreatedHasSwitch RouterPortHasSwitch
PROPERTIES ImplementsLifecycle DeletionCompletes Converges
CHECK_DEADLOCK FALSE

SPECIFICATION Spec
CONSTANTS
  NoVal = NoVal
  Pns = {a}
  Nodes = {w1}
  Labelled = {w1}
  PnSpecs <- AllKinds
  MaxChan = 2
  MaxInc = 1
  MaxOps = 2
  MaxFaults = 1
  MaxRestarts = 1
INVARIANTS TypeOK NoLostCreate RemovalReachesNode
PROPERTY ImplementsProviderLifecycle
CHECK_DEADLOCK FALSE

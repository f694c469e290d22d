SPECIFICATION Spec
CONSTANTS
  NoVal = NoVal
  Pns = {a}
  Nodes = {w1}
  Labelled = {}
  PnSpecs <- VlanAll
  MaxChan = 3
  MaxInc = 1
  MaxOps = 1
  MaxFaults = 0
  MaxRestarts = 0
INVARIANT InSyncConfigures
CHECK_DEADLOCK FALSE

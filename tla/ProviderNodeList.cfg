SPECIFICATION FairSpec
CONSTANTS
  NoVal = NoVal
  Pns = {a}
  Nodes = {w1}
  Labelled = {w1}
  PnSpecs <- Specific
  MaxChan = 2
  MaxInc = 1
  MaxOps = 1
  MaxFaults = 1
  MaxRestarts = 0
PROPERTY ReconcileReturns
CHECK_DEADLOCK FALSE

SPECIFICATION Spec
CONSTANTS
  NoVal = NoVal
  Sandboxes = {s1, s2}
  Devs = {"eth0", "net0", "net1", "net2"}
  ConfFiles <- GoodConf
  Envs <- Primary
  Annotations <- TwoAnnotations
  RouteLists <- OneRoute
  NodeRoutes <- TwoRoutes
  NodeAddrs <- TwoLinks
  Steps = 2
  NameRoom = 2
  DelTries = 3
  MaxPods = 1
  MaxFaults = 1
INVARIANT AddedMeansPlugged
CHECK_DEADLOCK FALSE

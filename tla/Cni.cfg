SPECIFICATION FairSpec
CONSTANTS
  NoVal = NoVal
  Sandboxes = {s1}
  Devs = {"eth0", "net0", "net1", "net2"}
  ConfFiles <- SomeConfs
  Envs <- SomeEnvs
  Annotations <- SomeAnnotations
  RouteLists <- SomeRoutes
  NodeRoutes <- TwoRoutes
  NodeAddrs <- TwoLinks
  Steps = 2
  NameRoom = 2
  DelTries = 3
  MaxPods = 1
  MaxFaults = 2
INVARIANTS TypeOK NoPortLeak AnswerIsPlugged AddressesMatchInterfaces DefaultAndHostRoute
PROPERTIES AddAnswered TornDown
CHECK_DEADLOCK FALSE

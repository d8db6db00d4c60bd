\* Two link generations of one appliance, any three faults, one queued write.
CONSTANTS
  Handles = {h1, h2}
  Addresses = {a1}
  None = None
  MaxServices = 1
  MaxBackoff = 2
  EventDepth = 0
  CharDepth = 1
  CommandDepth = 1
  RejectCapacity = 1
  AppCommands = {"Write"}
  FaultKinds <- LifecycleFaults
  MaxFaults = 3
SYMMETRY HandleSymmetry
SPECIFICATION Spec
INVARIANTS TypeOK Awaited ConnHandleValid DiscoverySequential
  WriteNeverStranded


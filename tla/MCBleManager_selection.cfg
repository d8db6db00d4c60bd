\* Two appliances in range, rejected at any time while the address filter is
\* set, and a reject list of one, so that it overflows; an app task that polls
\* late, and an event queue of three, so that it overflows too; any one fault, then none.
CONSTANTS
  Handles = {h1}
  Addresses = {a1, a2}
  None = None
  MaxServices = 1
  MaxBackoff = 1
  EventDepth = 3
  CharDepth = 0
  CommandDepth = 1
  RejectCapacity = 1
  AppCommands = {"Reject", "Set"}
  FaultKinds <- SettledFaults
  MaxFaults = 1
SPECIFICATION FairSpec
INVARIANTS RejectedPeerLeaves
PROPERTIES LinkSpec AlwaysRetries SubscribeSettles
CHECK_DEADLOCK FALSE

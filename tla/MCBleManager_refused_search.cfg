\* One descriptor search that NimBLE refuses to start.
CONSTANTS
  Handles = {h1}
  Addresses = {a1}
  None = None
  MaxServices = 1
  MaxBackoff = 1
  EventDepth = 0
  CharDepth = 0
  CommandDepth = 1
  RejectCapacity = 1
  AppCommands = {}
  FaultKinds = {"dscs"}
  MaxFaults = 1
SPECIFICATION FairSpec
PROPERTIES AlwaysRetries
CHECK_DEADLOCK FALSE

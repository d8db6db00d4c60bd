SPECIFICATION FairSpec
CONSTANTS
  MaxWifiRetries = 5
  MaxSyncs = 2
INVARIANTS RadioFollowsUsers OneVerdict
PROPERTIES TimeVerdictIsFinal WaitersAnswered SntpSettles

SPECIFICATION FairSpec
CONSTANTS
  MaxWifiRetries = 5
  MaxSyncs = 1
PROPERTIES LostLinkIsRetried

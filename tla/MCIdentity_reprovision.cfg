SPECIFICATION FairSpec
CONSTANTS
  Appliances = {a1, a2}
  None = None
  RejectedCapacity = 4
  MaxProvisions = 1
  MaxMishaps = 0
CHECK_DEADLOCK FALSE
PROPERTIES ReprovisioningTakesEffect

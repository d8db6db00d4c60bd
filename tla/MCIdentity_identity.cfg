SPECIFICATION FairSpec
CONSTANTS
  Appliances = {a1, a2, a3}
  None = None
  RejectedCapacity = 2
  MaxProvisions = 2
  MaxMishaps = 2
CHECK_DEADLOCK FALSE
INVARIANTS PinMatchesCredentials
PROPERTIES ConnectsOnlyToPinned GenuineIsFound

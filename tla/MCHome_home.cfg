\* Two tokens, so that one can be rotated, and any two mishaps.
SPECIFICATION FairSpec
CONSTANTS
  Tokens = {t1, t2}
  Appliances = {p1}
  None = None
  MaxMishaps = 2
INVARIANTS NoOrphans LinkFollowsDial
PROPERTIES Recovers

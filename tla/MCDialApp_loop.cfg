SPECIFICATION FairSpec
CONSTANTS
  None = None
  MinAmount = 1
  MaxAmount = 2
  AmountStep = 1
  EventDepth = 4
  CharDepth = 2
  Stalls = FALSE
  Losses = TRUE
  Provisions = TRUE
  StoreFails = TRUE
INVARIANTS PendingAgree SessionShown PourNeedsLink OutcomeAnswersCommand VerdictFromProbedPeer
PROPERTIES PourShowsItsAmount ReturnsToIdle CommandResolved

\* Two amounts, and an appliance that keeps its answers: what the screen shows does
\* not depend on more.
SPECIFICATION ScreenSpec
CONSTANTS
  None = None
  MinAmount = 1
  MaxAmount = 2
  AmountStep = 1
  EventDepth = 4
  CharDepth = 2
  Stalls = FALSE
  Losses = FALSE
  Provisions = FALSE
  StoreFails = FALSE
INVARIANTS ScreenIsCurrent PourIsLit WidgetsFit

SPECIFICATION ServerSpec
CONSTANTS
  None = None
  MaxRequests = 2
  MaxChanges = 2
  Fields = {"amount", "step"}
  Values = {1, 2}
  Default = 1
  TooLarge = 9
  Unreadable = Unreadable
  MaxUpdates = 2
  MaxMishaps = 2
CHECK_DEADLOCK FALSE
INVARIANTS TypeOK PromptAnswers ConfirmedSettingsHold RestartKeepsSettings
PROPERTIES StatusNeverGoesBack EveryRequestAnswered

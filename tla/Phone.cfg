CONSTANTS
  MaxSessions = 2
  MaxToggles = 1
  MaxMessages = 2
  MaxFailures = 1
  MelFrames = 3
  TailFrames = 1
  EMBEDDING_WINDOW = 6
  EMBEDDING_STEP = 3
  CLASSIFIER_WINDOW = 2
  DEBOUNCE_STEPS = 2
  MaxSteps = 10
  MaxMisses = 1
  MaxFrames = 4
  MaxTurns = 4
  MaxEvents = 4
  Alerts = {boil_notice, street_fair, concert}
  Critical = {boil_notice}
  MaxDismissals = 3
  Times = {2}
  MaxDelay = 1
  MaxRows = 2
  MaxRereads = 2
  MaxRetries = 2
SPECIFICATION PhoneSpec
INVARIANTS MicIsOwned WakeWordHeard WorkedOnIsOwned FeedAgrees UndoPersists StepsInOrder
PROPERTIES WakeSessionEnds FramesAreHeard CanSendAgain DueIsFired
CHECK_DEADLOCK FALSE

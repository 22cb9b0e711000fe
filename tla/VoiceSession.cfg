\* Two utterances and one barge-in, which may come while the first is spoken and
\* the second waits, or between them; two units are enough for one to be late
\* and another to be wrongly sent.
CONSTANTS
  MaxTurns = 2
  MaxUnits = 2
  MaxFiller = 2
  MaxBargeIns = 1
  MaxReconnect = 0
  EnableBargeIn = TRUE
SPECIFICATION Spec
INVARIANTS TurnsInOrder AudioYields NextReplyPlays
CHECK_DEADLOCK FALSE

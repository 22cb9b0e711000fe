CONSTANTS
  t1 = t1
  t2 = t2
  alice = alice
  k1 = k1
  k2 = k2
  Turns = {t1, t2}
  Sessions = {alice}
  Sockets = {k1}
  Channels = {k1, k2}
  ChannelOf <- TwoChannels
  SessionOf <- OneSession
  Tools = {look, pay, none}
  SeedTools = {look, pay}
  Gated = {pay}
  Volatile = {pay}
  MaxHistory = 3
  MaxToolUses = 2
  MaxToolHops = 2
  MaxRetries = 1
  Threshold = 1
  HasApiKey = TRUE
SPECIFICATION Spec
INVARIANTS ExchangeSound HistorySound
PROPERTIES OneRunPerConfirmation BreakerSpec
CHECK_DEADLOCK FALSE

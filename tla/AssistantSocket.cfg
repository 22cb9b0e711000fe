CONSTANTS
  t1 = t1
  t2 = t2
  alice = alice
  k1 = k1
  k2 = k2
  Turns = {t1, t2}
  Sessions = {alice}
  Sockets = {k1}
  Channels = {k1}
  ChannelOf <- SameChannel
  SessionOf <- SameSession
  Tools = {look, pay, none}
  SeedTools = {look, pay}
  Gated = {pay}
  Volatile = {}
  MaxHistory = 4
  MaxToolUses = 1
  MaxToolHops = 1
  MaxRetries = 1
  Threshold = 1
  HasApiKey = TRUE
SPECIFICATION FairSpec
PROPERTIES LogSpec EveryTurnEnds
CHECK_DEADLOCK FALSE

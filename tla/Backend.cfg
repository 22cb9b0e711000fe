\* Five overlapping calls and threshold 2: enough that some of them settle after
\* the breaker opened, half opened and closed again.  Two of everything that is
\* stored: a call must leave the records of another owner, site or id.
CONSTANTS
  Calls = {c1, c2, c3, c4, c5}
  Threshold = 2
  Owners = {alice, bob}
  Sites = {water, power}
  Ids = {1, 2}
  Residents = {alice, bob}
  MaxTools = 2
  Sidecars = {redis, voice}
  Jobs = {alerts, outages}
SPECIFICATION BackendSpec
\* A request ends, and so does the process.
CHECK_DEADLOCK FALSE
INVARIANTS FieldsAgree AnswersAgree
PROPERTIES StoresAgree LetsCallsInAgain EveryRequestEnds ExitsClean

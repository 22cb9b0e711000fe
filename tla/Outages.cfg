\* Two residents, one of them with alerts on: a failing outage reaches the one
\* after it.  Two overlapping checks; two outages, or one that changes.
CONSTANTS
  Residents = {alice, bob}
  OptedIn = {alice}
  NoOne = nobody
  Areas = {zip}
  Ids = {1, 2}
  UndatedIds = {2}
  Passes = {tick}
  Requests = {save}
  MaxWindow = 1
  MaxChanges = 2
  MaxSaves = 1
  MaxFaults = 1
SPECIFICATION Spec
INVARIANTS StoredIsTold
PROPERTIES ToldOnce CatchesUp

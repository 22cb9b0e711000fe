CONSTANTS
  Entries = {a, b}
  NoEntry = none
  Passes = {p1, p2}
  OptedIn = {alice, bob}
  LastPage = 2
  MaxEvents = 2
  Addresses = {elm, oak}
  NoAddress = nowhere
  Residents = {alice}
  Kinds = {"find_my_rep", "collection_schedule"}
  Warms = {w1}
  Openings = {o1}
  MaxVersion = 2
  MaxMishaps = 1
SPECIFICATION Spec
INVARIANTS CivicSound
PROPERTIES ToldOnce CivicCatchesUp

CONSTANTS
  r1 = r1
  r2 = r2
  alice = alice
  bob = bob
  lowell = lowell
  dracut = dracut
  Reminders = {r1, r2}
  Residents = {alice, bob}
  Tenants = {lowell, dracut}
  OwnerOf <- OneEach
  CityOf <- TwoCities
  Ticks = {k1}
SPECIFICATION Spec
INVARIANTS FiredIsQueued

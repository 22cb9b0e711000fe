CONSTANTS
  Sites = {water}
  MaxOps = 2
  MaxFaults = 1
  MaxDays = 1
SPECIFICATION Spec
INVARIANTS AccountsAgree
PROPERTIES ListKeepsLinks AccountsCatchUp

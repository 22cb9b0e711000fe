\* Two types: toggling one must keep the other.  Three register() calls: one of
\* the first opening, a change, and one more of either kind.
CONSTANTS
  Types = {utility, bills}
  MaxRegisters = 3
  MaxStrays = 1
SPECIFICATION OptInsFairSpec
INVARIANTS NothingInvented
PROPERTIES Settles
CHECK_DEADLOCK FALSE

SPECIFICATION Spec
CONSTANTS
  Clients = {a, b}
  Policies = {none, some}
  NoRules = none
  MaxChanges = 3
  MaxClock = 1
INVARIANTS NothingUnseenReplaced
CHECK_DEADLOCK FALSE

SPECIFICATION Spec
CONSTANTS
  u1 = u1  u2 = u2  f1 = f1  f2 = f2  f3 = f3
  Users <- MCUsers
  Owner = owner
  Forks <- MCForks
  SelfFork = self
  None = None
  ShareUnconfirmed = FALSE
  Shutdowns = FALSE
  Networks = {TRUE, FALSE}
  LossyForks = 2
  MaxSlow = 2
  MaxAttempts = 2
  MaxFetches = 2
SYMMETRY Symmetry
INVARIANTS OwnerKept ParentOutlivesChild InFlightTracked AssertionsHold NoLeak
CHECK_DEADLOCK FALSE

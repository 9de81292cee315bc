SPECIFICATION Spec
CONSTANTS
  u1 = u1  u2 = u2  f1 = f1  f2 = f2  f3 = f3
  Users <- MCUsers
  Owner = owner
  Forks <- MCForks
  SelfFork = self
  None = None
  ShareUnconfirmed = TRUE
  Shutdowns = FALSE
  Networks = {FALSE}
  LossyForks = 0
  MaxSlow = 0
  MaxAttempts = 1
  MaxFetches = 0
INVARIANTS OwnerKept
CHECK_DEADLOCK FALSE

SPECIFICATION Spec
CONSTANTS
  u1 = u1  u2 = u2  f1 = f1  f2 = f2  f3 = f3
  Users <- MCUsers
  Owner = owner
  Forks <- MCForks2
  SelfFork = self
  None = None
  ShareUnconfirmed = FALSE
  Shutdowns = TRUE
  Networks = {FALSE}
  LossyForks = 0
  MaxSlow = 0
  MaxAttempts = 1
  MaxFetches = 1
INVARIANTS CleanShutdown
PROPERTIES ToHereReturns EventuallyReclaimed ShutdownCompletes
CHECK_DEADLOCK FALSE

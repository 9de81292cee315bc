SPECIFICATION Spec
CONSTANTS
  a = a  b = b  p = p
  Calls = {a, b}
  MaxRetries = 2
  Peers = {p}
  To <- OnePeer
  BadDevices = {b}
  Breakable = {p}
  Timed = {a}
  Workloads <- MCWorkloads
INVARIANTS ResponseRecognized JoinSeesWork SettledAtShutdown
PROPERTIES ImplementsCalls TimedCallsReturn ShutdownWaitsForTimer
CHECK_DEADLOCK FALSE

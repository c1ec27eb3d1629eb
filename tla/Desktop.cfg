\* Two deliveries beside two moves of other applications and one failure; two outputs,
\* fades of up to two writes, two failures or deaths; two tools that write up to two
\* chunks through pipes of one; two sessions that test, three failures or deaths.
CONSTANTS
  MaxDeliveries = 2
  Modes = {"auto", "standard"}
  Windows = {w1}
  NoWindow = NoWindow
  MaxMoves = 2
  Failing = {"connect", "display", "focus", "device", "emit"}
  MaxFailures = 1
  Sinks = {s1, s2}
  Full = 2
  MaxSteps = 2
  CallFailing = {"read", "write", "late", "save", "load", "die"}
  MaxCallFailures = 2
  MaxRuns = 2
  Room = 1
  MaxOutput = 2
  ToolFailing = {"spawn", "pidfd", "poll", "read", "exit"}
  MaxToolFailures = 1
  Sessions = {c1, c2}
  Nobody = Nobody
  TestFailing = {"spawn", "crash", "late", "read", "die"}
  MaxTestFailures = 3
SPECIFICATION DesktopSpec
INVARIANTS
  NoKeyStaysDown
  ReportsAreTrue
  LoweredIsAccountedFor
  NothingOutlivesItsCall
PROPERTIES
  DesktopSettles
CHECK_DEADLOCK FALSE

\* Every order of key events, clients, captures and settings, under fair threads.
CONSTANTS
  Keyboards = {k1, k2}
  Disturbances = {"mode", "swap", "capture", "unread"}
  MaxInputs = 5
  MaxTicks = 1
  MaxDisturbed = 4
SPECIFICATION MCSpec
INVARIANTS
  OneActionInFlight
  UndisturbedHoldIsOver
  EscapeIsNeverLost
PROPERTIES
  DispatchNeverStops
  UndisturbedPressDoesNotStop
CHECK_DEADLOCK FALSE

\* Two updates, two pastes, two failures of helpers or of their launches.
CONSTANTS
  MaxUpdates = 2
  MaxDismissals = 2
  MaxQueue = 2
  Failing = {"spawn", "helper", "stuck"}
  MaxFailures = 2
SPECIFICATION Spec
INVARIANTS
  HelpersAreKnown
PROPERTIES
  ScreenClears
CHECK_DEADLOCK FALSE

\* The daemon and the maintenance thread on one dictation, no failure.
CONSTANTS
  Jobs = {j1}
  NoJob = NoJob
  LegacyStages = {}
  Failing = {}
  MaxFailures = 0
  MaxCrashesBeside = 0
SPECIFICATION Spec
INVARIANTS
  NeverPanics

\* One dictation, also of an older version, one failed step or crash, and the threads'
\* fairness.
CONSTANTS
  Jobs = {j1}
  NoJob = NoJob
  LegacyStages = {"delivered", "no_speech", "deleted"}
  Failing = {"crash", "write", "disk", "recorder"}
  MaxFailures = 1
  MaxCrashesBeside = 1
SPECIFICATION FairSpec
INVARIANTS
  WorkIsOwned
PROPERTIES
  NothingStaysInFlight
  ImplementsDictation

\* Two recordings of up to two samples, the first silent, a failure of any kind, a retry.
CONSTANTS
  MaxRecordings = 2
  MaxSamples = 2
  Silent = {1}
  Failing = {"spawn", "late", "crash", "interrupt", "encoder", "encode", "read", "key", "network"}
  MaxFailures = 1
  MaxRetries = 1
SPECIFICATION Spec
INVARIANTS
  RecordingIsWhole
  AnswersAreKept
PROPERTIES
  RecordingsEnd
CHECK_DEADLOCK FALSE

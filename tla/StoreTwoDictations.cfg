\* One dictation, also of an older version, and three failed steps or crashes of any kind;
\* or two dictations beside each other and one crash.
CONSTANTS
  Jobs = {j1, j2}
  NoJob = NoJob
  LegacyStages = {"delivered", "no_speech", "deleted"}
  Failing = {"crash", "write", "read", "disk", "recorder"}
  MaxFailures = 3
  MaxCrashesBeside = 1
SPECIFICATION MCSpec
SYMMETRY Symmetry
INVARIANTS
  AtMostOneAutomaticPaste
  PastedIsNotTranscribedAgain
  AudioBehindRecovery
  TicketsAreAwaited
PROPERTIES
  DeliveredIsRecordedOnce
  PaidTextIsKept
  OnlyCurrentIsPasted

\* Two builds, two daemons, a client; a settings change beside the maintenance thread; two
\* quits beside a command and two transcriptions.
CONSTANTS
  Latest <- MCLatest
  LegacyJobs <- MCLegacyJobs
  Failing = {"bind", "open", "copy", "migrate", "save", "drop", "systemctl", "die", "hand"}
  MaxFaults = 2
  MaxInstalls = 1
  SyncFailing = {"write", "systemctl", "remove", "die"}
  MaxSyncFailures = 2
  Commands = {c1}
  Quitters = {q1, q2}
  SignalQuit = q2
  Transcriptions = {t1, t2}
  MaxFailures = 1
SPECIFICATION ServiceFairSpec
INVARIANTS
  ServingIsReachable
  HandoversSurviveDeath
  QuitsCleanly
PROPERTIES
  UpgradeIsPickedUp
CHECK_DEADLOCK FALSE

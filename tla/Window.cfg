CONSTANTS
  Dictations <- MCDictations
  Matching <- MCMatching
  FirstPage = 1
  NextPage = 1
  MaxTurns = 3
  Spellings <- MCSpellings
  Keys <- MCKeys
  MaxClicks = 4
  RecheckInterval = 1
  MaxClock = 2
  MaxChanges = 3
  MaxDevices = 1
  MaxPolls = 1
  Launched <- MCLaunched
  NoLaunch = NoLaunch
SPECIFICATION FairSpec
INVARIANT TypedIsMeant
INVARIANT ReportsAreFresh
 
PROPERTY SavesAreMeant
CHECK_DEADLOCK FALSE

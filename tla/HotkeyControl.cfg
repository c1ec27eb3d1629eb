\* Listeners die, fail to start and find no keyboards beside saves and captures.
CONSTANTS
  Specs = {s1, s2}
  Clients = {c1, c2}
  Nobody = Nobody
  Failing = {"start", "listener", "discover", "watch", "reject", "save"}
  MaxFailures = 2
  MaxChanges = 2
  MaxCommands = 1
SPECIFICATION MCSpec
INVARIANTS
  ShortcutIsAsShown
PROPERTIES
  CommandsEnd
CHECK_DEADLOCK FALSE

CONSTANTS
  Topics <- MCTopics
SPECIFICATION Spec
CHECK_DEADLOCK FALSE
INVARIANTS
  ReadsBack
  KeptAsHeard

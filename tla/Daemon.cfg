\* Two dictations, a failed step, a restart, two of the four buttons.
CONSTANTS
  Jobs = {j1, j2}
  NoJob = NoJob
  MaxFailures = 1
  MaxRestarts = 1
  MaxOffers = 2
SPECIFICATION MCSpec
SYMMETRY Symmetry
INVARIANTS
  WorkflowFollowsActivity
PROPERTIES
  DeletedIsNotPasted
  NoticesAreTrue
CHECK_DEADLOCK FALSE

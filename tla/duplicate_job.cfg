\* One object of either kind that nobody edits, and no fault.
SPECIFICATION Spec
CONSTANTS
  Templates = {t1}
  NoTemplate = NoTemplate
  Jobs = {j1, j2}
  NoJob = NoJob
  MaxEdits = 0
  MaxFaults = 0
CHECK_DEADLOCK FALSE
INVARIANT NoDuplicateJob

\* One object of either kind, one change of its spec, one fault.
SPECIFICATION FairSpec
CONSTANTS
  Templates = {t1, t2}
  NoTemplate = NoTemplate
  Jobs = {j1, j2}
  NoJob = NoJob
  MaxEdits = 1
  MaxFaults = 1
\* The controller stops when the object is gone.
CHECK_DEADLOCK FALSE
INVARIANTS TypeOK QuiescentIsDone
PROPERTIES
  ProvisionsUnderFinalizer
  Paired
  ReadyIsProvisioned
  DeletionCompletes
  EveryVersionRuns

\* One host type of at most one replica, two instances, one change, loss or failure, one fault.
SPECIFICATION FairSpec
CONSTANTS
  a = a
  b = b
  t = t
  HostTypes = {t}
  Instances = {a, b}
  MaxReplicas = 1
  Changes = {"scale", "delete", "fail"}
  MaxChanges = 1
  MaxFaults = 1
INVARIANTS TypeOK DeletionNotForgotten
PROPERTIES CreatedUnderFinalizer DeletionCompletes NothingLeftBehind ScalesWhenUpToDate
\* Nothing is left to do when the pool is gone.
CHECK_DEADLOCK FALSE

\* Two instances, one host, two workers, one fault or restart.
SPECIFICATION FairSpec
CONSTANTS
  a = a
  b = b
  h1 = h1
  Instances = {a, b}
  Hosts = {h1}
  NoInstance = NoInstance
  NoHost = NoHost
  MaxConcurrentReconciles = 2
  ManagementOutcomes = {"Progressing"}
  MaxFaults = 1
\* The controller stops when every object is gone.
CHECK_DEADLOCK FALSE
PROPERTIES DeletionCompletes AllocationCompletes

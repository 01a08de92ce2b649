\* Two instances, two hosts, two workers, one fault or restart.
SPECIFICATION Spec
CONSTANTS
  a = a
  b = b
  h1 = h1
  h2 = h2
  Instances = {a, b}
  Hosts = {h1, h2}
  NoInstance = NoInstance
  NoHost = NoHost
  MaxConcurrentReconciles = 2
  ManagementOutcomes = {"Progressing", "Failed", "Ready"}
  MaxFaults = 1
SYMMETRY Symmetry
\* The controller stops when every object is gone.
CHECK_DEADLOCK FALSE
INVARIANT NoLeak

\* Three instances, one host, two workers, no fault.
SPECIFICATION Spec
CONSTANTS
  a = a
  b = b
  c = c
  h1 = h1
  Instances = {a, b, c}
  Hosts = {h1}
  NoInstance = NoInstance
  NoHost = NoHost
  MaxConcurrentReconciles = 2
  ManagementOutcomes = {"Progressing", "Ready"}
  MaxFaults = 0
SYMMETRY Symmetry
\* The controller stops when every object is gone.
CHECK_DEADLOCK FALSE
INVARIANT NoDoubleBooking

\* One host type of up to two replicas, two instances, no change, no fault.
SPECIFICATION Spec
CONSTANTS
  a = a
  b = b
  t = t
  HostTypes = {t}
  Instances = {a, b}
  MaxReplicas = 2
  Changes = {}
  MaxChanges = 0
  MaxFaults = 0
\* Nothing is left to do when the pool is gone.
CHECK_DEADLOCK FALSE
INVARIANT MatchesAtRest

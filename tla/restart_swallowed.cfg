\* Both backends, two changes of the object, no fault.
SPECIFICATION Spec
CONSTANTS
  Backends = {"metal3", "openstack"}
  MaxEdits = 2
  MaxFaults = 0
\* Nothing is left to do once the users have stopped.
CHECK_DEADLOCK FALSE
INVARIANT RestartHonoured

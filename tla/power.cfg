\* Both backends, three changes of the object, two faults or restart.
SPECIFICATION FairSpec
CONSTANTS
  Backends = {"metal3", "openstack"}
  MaxEdits = 3
  MaxFaults = 2
INVARIANTS
  TypeOK
  QuiescentIsDone
PROPERTIES
  AcknowledgedAfterRestart
  Settles
\* Nothing is left to do once the users have stopped.
CHECK_DEADLOCK FALSE

\* Three instances and one host of either backend, three failures.
SPECIFICATION FairSpec
CONSTANTS
  a = a
  b = b
  c = c
  Instances = {a, b, c}
  None = None
  Keys = {"p", "q", "x", "y"}
  Plain <- MCPlain
  Persistent <- MCPersistent
  LateWrites = {"metal3"}
  MaxFaults = 3
\* Everything stops when all instances are gone.
CHECK_DEADLOCK FALSE
INVARIANTS TypeOK HolderHasItsLabels PatchIsAccepted
PROPERTIES ImplementsLabels ReleasedWithItsLabels HolderKeepsItsHost ReleaseCompletes WantedHostIsTaken

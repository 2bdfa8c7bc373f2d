\* A pod with a sidecar beside one that is restarted always; exits, faults
\* and a busy user.
CONSTANTS
    web = web  db = db  NoPod = none
    Pods = {web, db}
    RuntimeNames <- MCSidecar
    Always = {db}
    Classes <- MCClasses
    Nodes <- MCNodes
    MaxOps = 3
    MaxFaults = 1
SPECIFICATION FairSpec
INVARIANTS Tracks NeverTwice
PROPERTIES StatusConverges OrphansAreStopped
CHECK_DEADLOCK FALSE

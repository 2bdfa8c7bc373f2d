\* A pod is applied again while its agent works.
CONSTANTS
    web = web  db = db  NoPod = none
    Pods = {web}
    RuntimeNames <- MCSingle
    Always = {}
    Classes <- MCOneClass
    Nodes <- MCFallback
    MaxOps = 2
    MaxFaults = 0
SPECIFICATION FairSpec
PROPERTIES WantedIsBound
CHECK_DEADLOCK FALSE

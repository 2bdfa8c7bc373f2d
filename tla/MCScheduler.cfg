\* One scheduler; nodes, pods and statements come, go and fail.
CONSTANTS
    n1 = n1  n2 = n2  p1 = p1  p2 = p2  p3 = p3
    Schedulers = {s1}
    Machine <- MCMachines
    Manifest <- MCManifests
    NoNode = NoNode
    NoZone = NoZone
    Unlimited = Unlimited
    MostAllocated = FALSE
    MaxCreates = 3
    MaxFlaps = 2
SPECIFICATION FairSpec
PROPERTIES NoOvercommit AntiAffinityKept PendingPodIsBound
CHECK_DEADLOCK FALSE

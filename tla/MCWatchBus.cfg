\* Two servers, two writers at once, a fault and a pruning.
CONSTANTS
    Kinds <- MCKinds
    Servers = {s1, s2}
    Handlers = {h1, h2}
    Watchers = {w1}
    Nowhere = nowhere
    Capacity = 1
    MaxWrites = 2
    MaxFaults = 1
SPECIFICATION FairSpec
INVARIANTS NoEcho
PROPERTIES Reaches ViewIsTrue
CHECK_DEADLOCK FALSE

\* One master; nodes, pods and calls that fail.
CONSTANTS
    Workers = {w1}
    Nodes = {n1, n2}
    Labelled = TRUE
    MaxPods = 8
    MaxEvents = 4
SPECIFICATION FairSpec
INVARIANTS OnePerNode
PROPERTIES Converges
CHECK_DEADLOCK FALSE

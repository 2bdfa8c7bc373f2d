\* Two masters whose passes may overlap; a user who scales, deletes and re-creates.
CONSTANTS
    Workers = {w1, w2}
    Selectors = {"labels"}
    BarePods = {"app"}
    MaxReplicas = 1
    MaxPods = 6
    MaxEvents = 3
SPECIFICATION FairSpec
INVARIANTS NeverOvershoots
PROPERTIES Converges
CHECK_DEADLOCK FALSE

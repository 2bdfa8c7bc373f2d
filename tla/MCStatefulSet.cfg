\* Two masters whose passes may overlap; a scale-down past what a pass looks at.
CONSTANTS
    Workers = {w1, w2}
    Cap = 1
    MaxReplicas = 2
    MaxEvents = 2
SPECIFICATION FairSpec
INVARIANTS OneStartsAtATime
PROPERTIES Converges
CHECK_DEADLOCK FALSE

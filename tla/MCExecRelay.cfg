\* A session of every kind, two frames of stdin; a connection holds a status and a close frame.
CONSTANTS
    Containers = {main}
    NoName = none
    Kinds <- MCKinds
    UpSize = 1
    DownSize = 2
    PipeSize = 1
    MaxOut = 2
    MaxIn = 2
SPECIFICATION FairSpec
INVARIANTS OutputIsWhole StatusIsTrue
PROPERTIES StatusArrives DiesWithItsClient BothEndsClose
CHECK_DEADLOCK FALSE

\* Two requests and a channel that one of them can overrun; the second line is garbled.
CONSTANTS
    f1 = f1  f2 = f2
    Pumps = {out, err}
    Followers = {f1, f2}
    TailOf <- MCTail
    LimitOf <- MCLimit
    Garbled = {2}
    Mine = main
    Containers = {main, side}
    NoName = none
    Capacity = 1
    ChanSize = 1
    Free = Free
    MaxLines = 3
SPECIFICATION FairSpec
INVARIANTS ExactlyOnce NothingLostAtTheEnd
PROPERTIES FollowerEnds ForwarderGoes
CHECK_DEADLOCK FALSE

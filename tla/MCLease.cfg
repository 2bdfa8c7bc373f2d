\* Passes shorter than the TTL, skewed clocks, crashes, one failing statement.
CONSTANTS
    m1 = m1  m2 = m2
    Masters = {m1, m2}
    NoOne = NoOne
    Order <- MCTwoNames
    TTL = 2
    Period = 1
    PassBound = 1
    MaxSkew = 1
    MaxTime = 7
    MaxDbErrors = 1
SPECIFICATION Spec
INVARIANTS TypeOK OneMasterPerLease ExpiredLeaseIsTakenOver
SYMMETRY MCSymmetry
CHECK_DEADLOCK FALSE

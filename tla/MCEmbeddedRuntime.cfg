\* Three names, two of them with one link name, two addresses, failures, processes that outlive SIGKILL, a restart.
CONSTANTS
    a = a  b = b  c = c
    Names = {a, b, c}
    Suffix <- MCSuffix
    LastOctet = 3
    MayHang = TRUE
    MaxStarts = 3
    MaxFailures = 1
    MaxRestarts = 1
SPECIFICATION FairSpec
INVARIANTS TypeOK UniqueAddress OneInstancePerName NoAddressLeak StaysConnected
PROPERTIES ImplementsContract CallReturns
CHECK_DEADLOCK FALSE

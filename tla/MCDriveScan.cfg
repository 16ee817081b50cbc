SPECIFICATION FairSpec
CONSTANTS
    Drive = {c, d, f}
    Ntfs = {c, d}
    Faulty = {d}
    MaxRequests = 1
    MaxPlugs = 2
INVARIANTS PrivilegeHeld PrivilegeReleased OnlineIsComplete NothingLeftStale
PROPERTIES IndexingEnds
CHECK_DEADLOCK FALSE

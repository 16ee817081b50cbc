SPECIFICATION FairSpec
CONSTANTS
    d = d
    n = n
    e = e
    Drive = {d}
    Walked = {d}
    Share = {n}
    List = {e}
    MaxChanges = 2
    MaxStarts = 2
    CanCrash = TRUE
INVARIANTS IndexFollowsSettings  RowsSound
PROPERTIES  RescanPrevails
CHECK_DEADLOCK FALSE

SPECIFICATION Spec
CONSTANTS
    File = {f, z}
    Archive = {z}
    Named = {f}
    MaxCache = 5
    MaxChanges = 1
    MaxJobs = 2
    MaxSearches = 2
    MaxPurges = 1
INVARIANTS   QuotaKept
CHECK_DEADLOCK FALSE

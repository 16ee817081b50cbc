CONSTANTS
    Root <- MCRoot
    ShareOf <- MCShareOf
    List <- MCList
    Mark <- MCMark
    Managed <- MCManaged
    MaxDamage = 1
    MaxStarts = 2
    MaxSaves = 2
SPECIFICATION Spec
  
PROPERTIES FilesAtomic
CHECK_DEADLOCK FALSE

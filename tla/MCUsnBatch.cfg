SPECIFICATION Spec
CONSTANTS
    Frn = {d, e, f}
    Dirs = {d, e}
    Root = Root
    Name = {a, b}
    Worlds <- SomeWorlds
SYMMETRY NameSymmetry
INVARIANTS NamesMatchVolume PathsMatchVolume RowsFollow 
CHECK_DEADLOCK FALSE

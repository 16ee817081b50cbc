----------------------------- MODULE MCUsnBatch -----------------------------
\* Instances of UsnBatch for TLC: two directories, one file.
EXTENDS UsnBatch, TLC

\* A crash beside searches; directories held open, numbers used again and writes that
\* fail, with a crash; numbers used again, with a third change.
SomeWorlds ==
    {[reuse |-> FALSE, hold |-> FALSE, search |-> TRUE, fail |-> FALSE,
      ops |-> 2, runs |-> 2],
     [reuse |-> TRUE, hold |-> TRUE, search |-> FALSE, fail |-> TRUE,
      ops |-> 2, runs |-> 2],
     [reuse |-> TRUE, hold |-> FALSE, search |-> FALSE, fail |-> FALSE,
      ops |-> 3, runs |-> 1]}
NameSymmetry == Permutations(Name) \cup Permutations(Dirs)
=============================================================================

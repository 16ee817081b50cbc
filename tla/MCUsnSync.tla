------------------------------ MODULE MCUsnSync ------------------------------
\* Instances of UsnSync for TLC: two interchangeable files.
EXTENDS UsnSync, TLC

FileSymmetry == Permutations(File)
=============================================================================

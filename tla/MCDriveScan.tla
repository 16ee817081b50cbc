---------------------------- MODULE MCDriveScan -----------------------------
\* Instances of DriveScan for TLC.
EXTENDS DriveScan, TLC
=============================================================================

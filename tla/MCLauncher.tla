------------------------------ MODULE MCLauncher ------------------------------
\* Instances of Launcher for TLC: the second text is a calculation.
EXTENDS Launcher

SecondText == {2}
=============================================================================

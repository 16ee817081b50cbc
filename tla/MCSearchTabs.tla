---------------------------- MODULE MCSearchTabs ----------------------------
\* Instances of SearchTabs for TLC: the second edit is no regular expression.
EXTENDS SearchTabs

SecondEdit == {2}
=============================================================================

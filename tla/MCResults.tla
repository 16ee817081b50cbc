------------------------------ MODULE MCResults -------------------------------
\* Instances of Results for TLC: two interchangeable tabs and texts; three selections of one
\* search's results; a sort, a switch or a deletion between two searches; two deletions.
EXTENDS Results, TLC

Symmetry == Permutations(Tab) \cup Permutations(Text)
Limit(r, s, v, d) == [results |-> r, selects |-> s, views |-> v, deletes |-> d]
Limits == {Limit(1, 3, 0, 0), Limit(2, 1, 2, 1), Limit(2, 2, 1, 0), Limit(1, 2, 0, 2)}
=============================================================================

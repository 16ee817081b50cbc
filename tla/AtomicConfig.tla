---------------------------- MODULE AtomicConfig ----------------------------
(***************************************************************************)
(* What the program promises of the files it keeps its configuration in:   *)
(* a reader finds in each the whole of a content the program asked to      *)
(* save, never a part of one, and a store with backups is not overwritten  *)
(* before a copy of what it held is kept.  Profile implements it.          *)
(***************************************************************************)
CONSTANTS Store,      \* the files
          Backed,     \* those copied before they are replaced
          Content,    \* what the program may save
          Missing,    \* no file
          Damaged,    \* a file no program can read
          Nothing     \* no save has been asked for

VARIABLES value,      \* what a reader finds in each store
          asked,      \* the content whose save is under way, or Nothing
          kept        \* the latest copy made of a store with backups

vars == <<value, asked, kept>>

TypeOK ==
    /\ value \in [Store -> Content \cup {Missing, Damaged}]
    /\ asked \in [Store -> Content \cup {Nothing}]
    /\ kept \in [Backed -> Content \cup {Missing, Damaged}]

Init ==
    /\ value \in [Store -> Content \cup {Missing}]
    /\ asked = [s \in Store |-> Nothing]
    /\ kept = [s \in Backed |-> Missing]

\* A save is asked for.
Ask(s, c) ==
    /\ asked[s] = Nothing
    /\ asked' = [asked EXCEPT ![s] = c]
    /\ UNCHANGED <<value, kept>>

\* A copy of a store that is about to be replaced is kept.
Keep(s) ==
    /\ s \in Backed /\ asked[s] # Nothing /\ value[s] # Missing
    /\ kept' = [kept EXCEPT ![s] = value[s]]
    /\ UNCHANGED <<value, asked>>

\* The new content takes the place of the old in one step.
Install(s) ==
    /\ asked[s] # Nothing
    /\ s \in Backed /\ value[s] # Missing => kept[s] = value[s]
    /\ value' = [value EXCEPT ![s] = asked[s]]
    /\ asked' = [asked EXCEPT ![s] = Nothing]
    /\ UNCHANGED kept

\* The save fails, or the program stops before it is done.
Abandon(s) ==
    /\ asked[s] # Nothing
    /\ asked' = [asked EXCEPT ![s] = Nothing]
    /\ UNCHANGED <<value, kept>>

\* Somebody else damages a file.
Damage(s) ==
    /\ value[s] # Missing
    /\ value' = [value EXCEPT ![s] = Damaged]
    /\ UNCHANGED <<asked, kept>>

Next == \E s \in Store :
    \/ \E c \in Content : Ask(s, c)
    \/ Keep(s) \/ Install(s) \/ Abandon(s) \/ Damage(s)

Spec == Init /\ [][Next]_vars
=============================================================================

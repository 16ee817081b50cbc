---------------------------- MODULE ResultsProofs ----------------------------
(***************************************************************************)
(* Proofs about Results and the panes of Preview for any files, tabs,      *)
(* batch size and bounds: every running preview loader has a reference, a  *)
(* pane shows its own file, selected rows stay those the user chose, and   *)
(* deleted files leave every tab while the count shown stays right.        *)
(***************************************************************************)
EXTENDS Results, TLAPS, FiniteSetTheorems, SequenceTheorems

USE PreviewAssumption, ResultsAssumption

-----------------------------------------------------------------------------
\* A nonempty set of naturals has a least element, and Min is that element.
LEMMA LeastOf ==
    ASSUME NEW S \in SUBSET Nat, S # {}
    PROVE  Min(S) \in S /\ \A y \in S : Min(S) <= y
<1>1. PICK m \in S : \A y \in S : m <= y
  <2> DEFINE Less == OpToRel(<, Nat)
  <2>1. IsWellFoundedOn(Less, Nat)
    BY NatLessThanWellFounded, Zenon DEF Less
  <2>2. ASSUME NEW a \in Nat, NEW b \in Nat, a < b
        PROVE  <<a, b>> \in Less
    <3>1. <<a, b>> \in Nat \X Nat /\ <<a, b>>[1] < <<a, b>>[2]
      BY <2>2
    <3> QED
      BY <3>1, Zenon DEF Less, OpToRel
  <2> HIDE DEF Less
  <2>3. PICK m \in S : \A y \in S : ~(<<y, m>> \in Less)
    BY <2>1, WFMin, Zenon
  <2>4. \A y \in S : m <= y
    <3> TAKE y \in S
    <3>1. ~(y < m)
      BY <2>2, <2>3, Zenon
    <3> QED
      BY <3>1
  <2> QED
    BY <2>4
<1> QED
  BY <1>1 DEF Min

\* The numbers from 1 to n are n.
LEMMA IntervalSize ==
    ASSUME NEW n \in Nat
    PROVE  Cardinality(1..n) = n /\ IsFiniteSet(1..n)
  BY FS_Interval

-----------------------------------------------------------------------------
\* What a pane is made of: the loader threads, the signals on their way, and the pages.
LoaderThread == [id : Nat \ {0}, path : Text \cup Image, pc : {"load", "end"},
                 parked : BOOLEAN]
LoadSignal == [kind : {"loaded", "error"}, of : Text \cup Image]
FinishedSignal == [kind : {"finished"}, of : Nat \ {0}]
PaneState ==
    [path : File \cup {None}, page : {"info", "text", "image", "details"},
     info : File \cup {None}, text : File \cup {None}, image : File \cup {None},
     details : File \cup {None}, loader : Nat, pending : SUBSET (Nat \ {0}),
     threads : SUBSET LoaderThread, posted : Seq(LoadSignal \cup FinishedSignal)]

Finished(s) == {i \in DOMAIN s.posted : s.posted[i].kind = "finished"}

\* A loader's reference goes with its "finished", of which there is one and which
\* follows the end of the thread.
PaneInv(s) ==
    /\ s \in PaneState
    /\ IsFiniteSet(s.threads) /\ IsFiniteSet(s.pending)
    /\ \A l \in s.threads : l.id = s.loader \/ l.id \in s.pending
    /\ \A l \in s.threads : l.parked => l.id \in s.pending
    /\ \A l, m \in s.threads : l.id = m.id => l = m
    /\ \A i \in Finished(s) : s.posted[i].of \in s.pending
    /\ \A i \in Finished(s), l \in s.threads : l.id # s.posted[i].of
    /\ \A i, j \in Finished(s) : s.posted[i].of = s.posted[j].of => i = j

PaneCurrent(s) == s.path # None => Content(s) = s.path \/ Content(s) = None

\* A new thread's identity is not that of a loader that is still kept.
LEMMA NewIdIsNew ==
    ASSUME NEW s, PaneInv(s)
    PROVE  /\ NewId(s) \in Nat \ {0} /\ NewId(s) \notin s.pending
           /\ \A l \in s.threads : l.id # NewId(s)
<1> DEFINE ids == {l.id : l \in s.threads}
           taken == ids \cup s.pending
           free == (1..(Cardinality(taken) + 1)) \ taken
<1>1. IsFiniteSet(ids)
  <2> DEFINE f == [l \in s.threads |-> l.id]
  <2>1. f \in Surjection(s.threads, ids)
    BY DEF Surjection
  <2> QED
    BY <2>1, FS_Surjection DEF PaneInv
<1>2. IsFiniteSet(taken)
  BY <1>1, FS_Union DEF PaneInv
<1>3. Cardinality(taken) \in Nat
  BY <1>2, FS_CardinalityType
<1> DEFINE n == Cardinality(taken)
<1>4. free # {}
  <2> SUFFICES ASSUME free = {} PROVE FALSE
    OBVIOUS
  <2>1. 1..(n + 1) \in SUBSET taken
    OBVIOUS
  <2>2. Cardinality(1..(n + 1)) <= n
    BY <1>2, <2>1, FS_Subset
  <2> HIDE DEF taken
  <2>3. n + 1 \in Nat
    BY <1>3
  <2>4. Cardinality(1..(n + 1)) = n + 1
    BY <2>3, IntervalSize, Zenon
  <2> QED
    BY <1>3, <2>2, <2>4
<1>5. free \in SUBSET Nat
  BY <1>3
<1>6. Min(free) \in free
  BY <1>4, <1>5, LeastOf
<1>7. NewId(s) = Min(free)
  BY DEF NewId
<1>8. \A x \in free : x \in Nat \ {0} /\ x \notin s.pending /\ x \notin ids
  BY <1>3
<1> HIDE DEF free
<1>9. NewId(s) \in Nat \ {0} /\ NewId(s) \notin s.pending /\ NewId(s) \notin ids
  BY <1>6, <1>7, <1>8, Zenon
<1> QED
  BY <1>9

\* A parked loader keeps its identity.
LEMMA ParkedFields ==
    ASSUME NEW l \in LoaderThread
    PROVE  /\ [l EXCEPT !.parked = TRUE] \in LoaderThread
           /\ [l EXCEPT !.parked = TRUE].id = l.id
           /\ [l EXCEPT !.parked = TRUE].parked
  BY DEF LoaderThread

\* What the loaders that end while they are waited for have signalled.
LEMMA FindsFacts ==
    ASSUME NEW s \in PaneState, NEW how \in Finds(s)
    PROVE  /\ how[1] \in {"gone", "late", "runs"}
           /\ how[1] = "gone" <=> Mine(s) = {}
           /\ how[2] = <<>> \/ \E m \in LoadSignal : how[2] = <<m>>
<1>1. ASSUME NEW l \in Mine(s), NEW x \in Signals(l)
      PROVE  x = <<>> \/ \E m \in LoadSignal : x = <<m>>
  BY <1>1 DEF Signals, Mine, PaneState, LoaderThread, LoadSignal
<1> QED
  BY <1>1 DEF Finds

\* Letting the loader go: its thread has ended, or is parked with a reference.
LEMMA CleanedPane ==
    ASSUME NEW s, PaneInv(s), NEW how \in Finds(s)
    PROVE  LET c == Cleaned(s, how) IN
           PaneInv(c) /\ c.loader = 0 /\ c.path = s.path
<1> DEFINE kept == s.pending \cup (IF how[1] = "gone" THEN {} ELSE {s.loader})
           parked == {[l EXCEPT !.parked = TRUE] : l \in Mine(s)}
           run == (s.threads \ Mine(s)) \cup (IF how[1] = "late" THEN {} ELSE parked)
           sent == s.posted \o how[2]
           c == Cleaned(s, how)
<1>1. s \in PaneState /\ IsFiniteSet(s.threads) /\ IsFiniteSet(s.pending)
  BY DEF PaneInv
<1>2. /\ how[1] \in {"gone", "late", "runs"}
      /\ how[1] = "gone" <=> Mine(s) = {}
      /\ how[2] = <<>> \/ \E m \in LoadSignal : how[2] = <<m>>
  BY <1>1, FindsFacts
<1>3. /\ s.loader \in Nat /\ s.pending \in SUBSET (Nat \ {0})
      /\ s.threads \in SUBSET LoaderThread
      /\ s.posted \in Seq(LoadSignal \cup FinishedSignal)
  BY <1>1 DEF PaneState
<1>4. Mine(s) \in SUBSET s.threads /\ \A l \in s.threads : l \in Mine(s) <=> l.id = s.loader
  BY DEF Mine
<1>5. Mine(s) # {} => s.loader # 0
  BY <1>3, <1>4 DEF LoaderThread
<1>6. kept \in SUBSET (Nat \ {0})
  BY <1>2, <1>3, <1>5
<1>7. \A l \in parked : /\ l \in LoaderThread /\ l.parked /\ l.id = s.loader
  BY <1>3, <1>4, ParkedFields
<1>8. run \in SUBSET LoaderThread
  BY <1>3, <1>7
<1>9. sent \in Seq(LoadSignal \cup FinishedSignal)
  <2>1. ASSUME NEW m \in LoadSignal PROVE <<m>> \in Seq(LoadSignal \cup FinishedSignal)
    OBVIOUS
  <2>2. <<>> \in Seq(LoadSignal \cup FinishedSignal)
    OBVIOUS
  <2>3. how[2] \in Seq(LoadSignal \cup FinishedSignal)
    BY <1>2, <2>1, <2>2, Zenon
  <2> QED
    BY <1>3, <2>3
<1>10. /\ c \in PaneState /\ c.path = s.path
       /\ c.loader = 0 /\ c.pending = kept /\ c.threads = run /\ c.posted = sent
  <2>1. c = [s EXCEPT !.loader = 0, !.pending = kept, !.threads = run, !.posted = sent]
    BY Zenon DEF Cleaned
  <2> HIDE DEF kept, run, sent, c
  <2> QED
    BY <1>1, <1>6, <1>8, <1>9, <2>1 DEF PaneState
<1>11. IsFiniteSet(kept)
  BY <1>1, FS_EmptySet, FS_Singleton, FS_Union
<1>12. IsFiniteSet(run)
  <2>1. IsFiniteSet(Mine(s)) /\ IsFiniteSet(s.threads \ Mine(s))
    BY <1>1, <1>4, FS_Subset
  <2> DEFINE f == [l \in Mine(s) |-> [l EXCEPT !.parked = TRUE]]
  <2>2. f \in Surjection(Mine(s), parked)
    BY DEF Surjection
  <2>3. IsFiniteSet(parked)
    BY <2>1, <2>2, FS_Surjection
  <2> HIDE DEF parked
  <2> QED
    BY <2>1, <2>3, FS_EmptySet, FS_Union
<1>13. Finished(c) = Finished(s) /\ \A i \in Finished(s) : sent[i] = s.posted[i]
  <2>1. CASE how[2] = <<>>
    BY <1>3, <1>10, <2>1 DEF Finished
  <2>2. CASE \E m \in LoadSignal : how[2] = <<m>>
    <3>1. PICK m \in LoadSignal : how[2] = <<m>>
      BY <2>2
    <3>2. /\ DOMAIN sent = 1..(Len(s.posted) + 1) /\ DOMAIN s.posted = 1..Len(s.posted)
          /\ \A i \in 1..Len(s.posted) : sent[i] = s.posted[i]
          /\ sent[Len(s.posted) + 1] = m
      BY <1>3, <3>1
    <3>3. m.kind # "finished"
      BY DEF LoadSignal
    <3> HIDE DEF sent
    <3> QED
      BY <1>3, <1>10, <3>2, <3>3 DEF Finished
  <2> QED
    BY <1>2, <2>1, <2>2
<1> HIDE DEF sent, c
<1>14. \A l \in run : l.id \in kept
  BY <1>2, <1>4, <1>7 DEF PaneInv
<1>15. \A l, m \in run : l.id = m.id => l = m
  <2>1. \A l, m \in parked : l = m
    BY <1>4 DEF PaneInv
  <2>2. \A l \in s.threads \ Mine(s) : l.id # s.loader
    BY <1>4
  <2> HIDE DEF parked
  <2> QED
    BY <1>7, <2>1, <2>2 DEF PaneInv
<1>16. \A l \in run : \E m \in s.threads : l.id = m.id
  BY <1>4, <1>7
<1> HIDE DEF run
<1>17. /\ \A i \in Finished(c) : c.posted[i].of \in c.pending
       /\ \A i \in Finished(c), l \in c.threads : l.id # c.posted[i].of
       /\ \A i, j \in Finished(c) : c.posted[i].of = c.posted[j].of => i = j
  BY <1>10, <1>13, <1>16 DEF PaneInv
<1> HIDE DEF kept
<1>18. IsFiniteSet(c.threads) /\ IsFiniteSet(c.pending)
  BY <1>10, <1>11, <1>12, Zenon
<1>19. /\ \A l \in c.threads : l.id \in c.pending
       /\ \A l, m \in c.threads : l.id = m.id => l = m
  BY <1>10, <1>14, <1>15
<1>20. PaneInv(c)
  BY <1>10, <1>17, <1>18, <1>19, Zenon DEF PaneInv
<1> QED
  BY <1>10, <1>20 DEF c

\* What holds of a pane's threads, references and signals does not look at its pages.
LEMMA SameLoaders ==
    ASSUME NEW s, PaneInv(s), NEW c \in PaneState,
           c.loader = s.loader, c.pending = s.pending, c.threads = s.threads,
           c.posted = s.posted
    PROVE  PaneInv(c)
<1>1. Finished(c) = Finished(s)
  BY DEF Finished
<1> QED
  BY <1>1, Zenon DEF PaneInv

\* A new loader is the pane's own, and its reference the loader's.
LEMMA StartedPane ==
    ASSUME NEW s, PaneInv(s), s.loader = 0, NEW f \in Text \cup Image
    PROVE  LET c == Started(s, f) IN
           /\ PaneInv(c) /\ c.path = s.path /\ c.page = s.page
           /\ c.text = s.text /\ c.image = s.image
<1> DEFINE id == NewId(s)
           l == [id |-> id, path |-> f, pc |-> "load", parked |-> FALSE]
           run == s.threads \cup {l}
           c == Started(s, f)
<1>1. s \in PaneState /\ IsFiniteSet(s.threads) /\ IsFiniteSet(s.pending)
  BY DEF PaneInv
<1>2. id \in Nat \ {0} /\ id \notin s.pending /\ \A m \in s.threads : m.id # id
  BY NewIdIsNew
<1> HIDE DEF id
<1>3. l \in LoaderThread /\ l.id = id /\ ~l.parked
  BY <1>2 DEF LoaderThread
<1> HIDE DEF l
<1>4. /\ c \in PaneState /\ c.path = s.path /\ c.page = s.page
      /\ c.text = s.text /\ c.image = s.image
      /\ c.loader = id /\ c.pending = s.pending /\ c.threads = run /\ c.posted = s.posted
  <2>1. c = [s EXCEPT !.loader = id, !.threads = run]
    BY DEF Started, id, l
  <2>2. run \in SUBSET LoaderThread
    BY <1>1, <1>3 DEF PaneState
  <2> HIDE DEF run, c
  <2> QED
    BY <1>1, <1>2, <2>1, <2>2 DEF PaneState
<1> HIDE DEF c
<1>5. IsFiniteSet(c.threads) /\ IsFiniteSet(c.pending)
  <2>1. IsFiniteSet(run)
    BY <1>1, FS_AddElement
  <2> QED
    BY <1>1, <1>4, <2>1, Zenon
<1>6. Finished(c) = Finished(s)
  BY <1>4 DEF Finished
<1>7. \A m \in s.threads : m.id \in s.pending
  BY <1>1 DEF PaneInv, PaneState, LoaderThread
<1>8. \A m \in c.threads : (m.id = c.loader \/ m.id \in c.pending)
                           /\ (m.parked => m.id \in c.pending)
  BY <1>3, <1>4, <1>7
<1>9. \A m, o \in c.threads : m.id = o.id => m = o
  BY <1>2, <1>3, <1>4 DEF PaneInv
<1>10. \A i \in Finished(c) : c.posted[i].of \in c.pending
  BY <1>4, <1>6 DEF PaneInv
<1>11. \A i \in Finished(c), m \in c.threads : m.id # c.posted[i].of
  BY <1>2, <1>3, <1>4, <1>6 DEF PaneInv
<1>12. \A i, j \in Finished(c) : c.posted[i].of = c.posted[j].of => i = j
  BY <1>4, <1>6 DEF PaneInv
<1>13. PaneInv(c)
  BY <1>4, <1>5, <1>8, <1>9, <1>10, <1>11, <1>12, Zenon DEF PaneInv
<1> QED
  BY <1>4, <1>13 DEF c

\* A pane that has a file shows it or waits for it after preview_entry and clear.
LEMMA EntryPane ==
    ASSUME NEW s, PaneInv(s), NEW how \in Finds(s), NEW f \in File \cup {None}
    PROVE  PaneInv(preview_entry(s, f, how)) /\ PaneCurrent(preview_entry(s, f, how))
<1> DEFINE c == [Cleaned(s, how) EXCEPT !.path = f]
           d == Cleaned(s, how)
<1>1. PaneInv(d) /\ d.loader = 0 /\ d \in PaneState
  BY CleanedPane DEF PaneInv
<1> HIDE DEF d
<1>2. /\ c \in PaneState /\ c.loader = d.loader /\ c.pending = d.pending
      /\ c.threads = d.threads /\ c.posted = d.posted /\ c.path = f
  BY <1>1 DEF PaneState, d
<1>3. PaneInv(c)
  BY <1>1, <1>2, SameLoaders
<1> HIDE DEF c
<1>4. CASE f = None
  <2> DEFINE e == [c EXCEPT !.page = "info"]
  <2>1. /\ e \in PaneState /\ e.loader = c.loader /\ e.pending = c.pending
        /\ e.threads = c.threads /\ e.posted = c.posted /\ e.path = f
    BY <1>2 DEF PaneState
  <2>2. PaneInv(e)
    BY <1>3, <2>1, SameLoaders
  <2>3. preview_entry(s, f, how) = e
    BY <1>4 DEF preview_entry, c
  <2> HIDE DEF e
  <2> QED
    BY <1>4, <2>1, <2>2, <2>3 DEF PaneCurrent
<1>5. CASE f \in Text
  <2> DEFINE e == [c EXCEPT !.text = None, !.page = "text"]
  <2>1. /\ e \in PaneState /\ e.loader = c.loader /\ e.pending = c.pending
        /\ e.threads = c.threads /\ e.posted = c.posted
        /\ e.page = "text" /\ e.text = None
    BY <1>2 DEF PaneState
  <2>2. PaneInv(e)
    BY <1>3, <2>1, SameLoaders
  <2>3. preview_entry(s, f, how) = Started(e, f)
    BY <1>5 DEF preview_entry, c, _load_text_preview
  <2> HIDE DEF e
  <2>4. PaneInv(Started(e, f)) /\ Content(Started(e, f)) = None
    BY <1>1, <1>2, <1>5, <2>1, <2>2, StartedPane DEF Content
  <2> QED
    BY <2>3, <2>4 DEF PaneCurrent
<1>6. CASE f \in Image
  <2> DEFINE e == [c EXCEPT !.image = None, !.page = "image"]
  <2>1. /\ e \in PaneState /\ e.loader = c.loader /\ e.pending = c.pending
        /\ e.threads = c.threads /\ e.posted = c.posted
        /\ e.page = "image" /\ e.image = None
    BY <1>2 DEF PaneState
  <2>2. PaneInv(e)
    BY <1>3, <2>1, SameLoaders
  <2>3. preview_entry(s, f, how) = Started(e, f)
    BY <1>6 DEF preview_entry, c, _load_image_preview
  <2> HIDE DEF e
  <2>4. PaneInv(Started(e, f)) /\ Content(Started(e, f)) = None
    BY <1>1, <1>2, <1>6, <2>1, <2>2, StartedPane DEF Content
  <2> QED
    BY <2>3, <2>4 DEF PaneCurrent
<1>7. CASE f # None /\ f \notin Text /\ f \notin Image
  <2> DEFINE e == [c EXCEPT !.details = f, !.page = "details"]
  <2>1. /\ e \in PaneState /\ e.loader = c.loader /\ e.pending = c.pending
        /\ e.threads = c.threads /\ e.posted = c.posted
        /\ e.page = "details" /\ e.details = f /\ e.path = f
    BY <1>2 DEF PaneState
  <2>2. PaneInv(e)
    BY <1>3, <2>1, SameLoaders
  <2>3. preview_entry(s, f, how) = e
    BY <1>7 DEF preview_entry, c, ShowDetails
  <2> HIDE DEF e
  <2> QED
    BY <2>1, <2>2, <2>3 DEF PaneCurrent, Content
<1> QED
  BY <1>4, <1>5, <1>6, <1>7

\* A pane that is cleared has no file, and keeps its threads.
LEMMA ClearedPane ==
    ASSUME NEW s, PaneInv(s)
    PROVE  PaneInv(hideEvent(s)) /\ PaneCurrent(hideEvent(s))
<1> DEFINE e == hideEvent(s)
<1>1. /\ e \in PaneState /\ e.loader = s.loader /\ e.pending = s.pending
      /\ e.threads = s.threads /\ e.posted = s.posted /\ e.path = None
  BY DEF hideEvent, clear, PaneInv, PaneState
<1> HIDE DEF e
<1>2. PaneInv(e) /\ PaneCurrent(e)
  BY <1>1, SameLoaders DEF PaneCurrent
<1> QED
  BY <1>2 DEF e

\* A thread's signal is posted before its end.
LEMMA LoadedPane ==
    ASSUME NEW s, PaneInv(s), PaneCurrent(s), NEW l \in s.threads, l.pc = "load",
           NEW x \in Signals(l)
    PROVE  LET c == [s EXCEPT !.threads = (@ \ {l}) \cup {[l EXCEPT !.pc = "end"]},
                              !.posted = @ \o x] IN
           PaneInv(c) /\ PaneCurrent(c)
<1> DEFINE e == [l EXCEPT !.pc = "end"]
           run == (s.threads \ {l}) \cup {e}
           sent == s.posted \o x
           c == [s EXCEPT !.threads = run, !.posted = sent]
<1>1. /\ s \in PaneState /\ IsFiniteSet(s.threads) /\ IsFiniteSet(s.pending)
      /\ s.posted \in Seq(LoadSignal \cup FinishedSignal) /\ s.threads \in SUBSET LoaderThread
      /\ l \in LoaderThread
  BY DEF PaneInv, PaneState
<1>2. PICK m \in LoadSignal : x = <<m>>
  BY <1>1 DEF Signals, LoadSignal, LoaderThread
<1>3. e \in LoaderThread /\ e.id = l.id /\ e.parked = l.parked
  BY <1>1 DEF LoaderThread
<1>4. /\ sent \in Seq(LoadSignal \cup FinishedSignal)
      /\ DOMAIN sent = 1..(Len(s.posted) + 1) /\ DOMAIN s.posted = 1..Len(s.posted)
      /\ \A i \in 1..Len(s.posted) : sent[i] = s.posted[i]
      /\ sent[Len(s.posted) + 1] = m
  BY <1>1, <1>2
<1>5. m.kind # "finished"
  BY DEF LoadSignal
<1> HIDE DEF e, sent
<1>6. /\ c \in PaneState /\ c.loader = s.loader /\ c.pending = s.pending
      /\ c.threads = run /\ c.posted = sent
      /\ c.path = s.path /\ Content(c) = Content(s)
  <2>1. run \in SUBSET LoaderThread
    BY <1>1, <1>3
  <2> HIDE DEF run
  <2> QED
    BY <1>1, <1>4, <2>1 DEF PaneState, Content
<1> HIDE DEF c
<1>7. Finished(c) = Finished(s) /\ \A i \in Finished(s) : sent[i] = s.posted[i]
  <2>1. Finished(c) = {i \in DOMAIN sent : sent[i].kind = "finished"}
    BY <1>6 DEF Finished
  <2>2. Len(s.posted) \in Nat
    BY <1>1
  <2>3. ASSUME NEW i \in DOMAIN sent
        PROVE  i \in DOMAIN s.posted \/ sent[i] = m
    BY <1>4, <2>2
  <2>4. DOMAIN s.posted \subseteq DOMAIN sent
    BY <1>4, <2>2
  <2> QED
    BY <1>4, <1>5, <2>1, <2>3, <2>4 DEF Finished
<1>8. IsFiniteSet(c.threads) /\ IsFiniteSet(c.pending)
  <2>1. IsFiniteSet(s.threads \ {l})
    BY <1>1, FS_RemoveElement
  <2>2. IsFiniteSet(run)
    BY <2>1, FS_AddElement
  <2> QED
    BY <1>1, <1>6, <2>2, Zenon
<1>9. \A o \in c.threads : (o.id = c.loader \/ o.id \in c.pending)
                           /\ (o.parked => o.id \in c.pending)
  BY <1>3, <1>6 DEF PaneInv
<1>10. \A o, n \in c.threads : o.id = n.id => o = n
  BY <1>3, <1>6 DEF PaneInv
<1>11. \A i \in Finished(c) : c.posted[i].of \in c.pending
  BY <1>6, <1>7 DEF PaneInv
<1>12. \A i \in Finished(c), o \in c.threads : o.id # c.posted[i].of
  BY <1>3, <1>6, <1>7 DEF PaneInv
<1>13. \A i, j \in Finished(c) : c.posted[i].of = c.posted[j].of => i = j
  BY <1>6, <1>7 DEF PaneInv
<1>14. PaneInv(c)
  BY <1>6, <1>8, <1>9, <1>10, <1>11, <1>12, <1>13, Zenon DEF PaneInv
<1>15. PaneCurrent(c)
  BY <1>6 DEF PaneCurrent
<1> QED
  BY <1>14, <1>15 DEF c, run, sent, e

\* A thread that ends leaves the pane's threads; a parked one posts one "finished".
LEMMA EndedPane ==
    ASSUME NEW s, PaneInv(s), PaneCurrent(s), NEW l \in s.threads
    PROVE  LET c == [s EXCEPT
                        !.threads = @ \ {l},
                        !.posted = IF l.parked
                                   THEN Append(@, [kind |-> "finished", of |-> l.id])
                                   ELSE @] IN
           PaneInv(c) /\ PaneCurrent(c)
<1> DEFINE m == [kind |-> "finished", of |-> l.id]
           run == s.threads \ {l}
           sent == IF l.parked THEN Append(s.posted, m) ELSE s.posted
           c == [s EXCEPT !.threads = run, !.posted = sent]
<1>1. /\ s \in PaneState /\ IsFiniteSet(s.threads) /\ IsFiniteSet(s.pending)
      /\ s.posted \in Seq(LoadSignal \cup FinishedSignal) /\ s.threads \in SUBSET LoaderThread
      /\ l \in LoaderThread
  BY DEF PaneInv, PaneState
<1>2. m \in FinishedSignal /\ m.of = l.id
  BY <1>1 DEF FinishedSignal, LoaderThread
<1> HIDE DEF m
<1>3. /\ sent \in Seq(LoadSignal \cup FinishedSignal)
      /\ DOMAIN s.posted = 1..Len(s.posted)
      /\ DOMAIN sent = IF l.parked THEN 1..(Len(s.posted) + 1) ELSE 1..Len(s.posted)
      /\ \A i \in 1..Len(s.posted) : sent[i] = s.posted[i]
      /\ l.parked => sent[Len(s.posted) + 1] = m
  BY <1>1, <1>2
<1> HIDE DEF sent
<1>4. /\ c \in PaneState /\ c.loader = s.loader /\ c.pending = s.pending
      /\ c.threads = run /\ c.posted = sent
      /\ c.path = s.path /\ Content(c) = Content(s)
  <2>1. run \in SUBSET LoaderThread
    BY <1>1
  <2> HIDE DEF run
  <2> QED
    BY <1>1, <1>3, <2>1 DEF PaneState, Content
<1> HIDE DEF c
<1>5. \A i \in Finished(c) : /\ i \in Finished(s) => sent[i] = s.posted[i]
                             /\ i \notin Finished(s) => l.parked /\ i = Len(s.posted) + 1
                                                        /\ sent[i] = m
  BY <1>1, <1>3, <1>4 DEF Finished
<1>6. IsFiniteSet(c.threads) /\ IsFiniteSet(c.pending)
  <2>1. IsFiniteSet(run)
    BY <1>1, FS_RemoveElement
  <2> QED
    BY <1>1, <1>4, <2>1, Zenon
<1>7. \A o \in c.threads : /\ o.id = c.loader \/ o.id \in c.pending
                           /\ o.parked => o.id \in c.pending
                           /\ o.id # l.id
  BY <1>4 DEF PaneInv
<1>8. \A o, n \in c.threads : o.id = n.id => o = n
  BY <1>4 DEF PaneInv
<1>9. \A i \in Finished(c) : c.posted[i].of \in c.pending
  BY <1>2, <1>4, <1>5 DEF PaneInv
<1>10. \A i \in Finished(c), o \in c.threads : o.id # c.posted[i].of
  BY <1>2, <1>4, <1>5, <1>7 DEF PaneInv
<1>11. \A i, j \in Finished(c) : c.posted[i].of = c.posted[j].of => i = j
  BY <1>2, <1>4, <1>5 DEF PaneInv
<1>12. PaneInv(c)
  BY <1>4, <1>6, <1>7, <1>8, <1>9, <1>10, <1>11, Zenon DEF PaneInv
<1>13. PaneCurrent(c)
  BY <1>4 DEF PaneCurrent
<1> QED
  BY <1>12, <1>13 DEF c, run, sent, m

\* A signal for the pane's own file shows it, one for another file is dropped, and a
\* "finished" takes the reference of a thread that has ended.
LEMMA DeliveredPane ==
    ASSUME NEW s, PaneInv(s), PaneCurrent(s), s.posted # <<>>
    PROVE  LET m == Head(s.posted)
               d == [s EXCEPT !.posted = Tail(@)]
               c == CASE m.kind = "loaded" /\ m.of \in Text -> _on_text_loaded(d, m)
                      [] m.kind = "loaded" /\ m.of \in Image -> _on_image_loaded(d, m)
                      [] m.kind = "error" -> _on_preview_error(d, m)
                      [] OTHER -> _discard_pending_loader(d, m) IN
           PaneInv(c) /\ PaneCurrent(c)
<1> DEFINE m == Head(s.posted)
           rest == Tail(s.posted)
           d == [s EXCEPT !.posted = rest]
           c == CASE m.kind = "loaded" /\ m.of \in Text -> _on_text_loaded(d, m)
                  [] m.kind = "loaded" /\ m.of \in Image -> _on_image_loaded(d, m)
                  [] m.kind = "error" -> _on_preview_error(d, m)
                  [] OTHER -> _discard_pending_loader(d, m)
<1> SUFFICES PaneInv(c) /\ PaneCurrent(c)
  BY Zenon
<1>1. /\ s \in PaneState /\ IsFiniteSet(s.threads) /\ IsFiniteSet(s.pending)
      /\ s.posted \in Seq(LoadSignal \cup FinishedSignal)
  BY DEF PaneInv, PaneState
<1>2. /\ m \in LoadSignal \cup FinishedSignal /\ m = s.posted[1]
      /\ rest \in Seq(LoadSignal \cup FinishedSignal) /\ Len(s.posted) \in Nat \ {0}
      /\ DOMAIN rest = 1..(Len(s.posted) - 1) /\ DOMAIN s.posted = 1..Len(s.posted)
      /\ \A i \in DOMAIN rest : rest[i] = s.posted[i + 1]
  BY <1>1
<1> HIDE DEF m, rest
<1>3. /\ d \in PaneState /\ d.loader = s.loader /\ d.pending = s.pending
      /\ d.threads = s.threads /\ d.posted = rest
      /\ d.path = s.path /\ d.page = s.page /\ Content(d) = Content(s)
  BY <1>1, <1>2 DEF PaneState, Content
<1>4. PaneCurrent(d)
  BY <1>3 DEF PaneCurrent
<1> HIDE DEF d
<1>5. /\ 1 \in DOMAIN s.posted
      /\ \A i \in Finished(d) : i + 1 \in Finished(s) /\ d.posted[i] = s.posted[i + 1]
                                /\ i + 1 # 1 /\ i \in Nat
  BY <1>2, <1>3 DEF Finished
<1>6. IsFiniteSet(d.threads) /\ IsFiniteSet(d.pending)
  BY <1>1, <1>3, Zenon
<1>7. \A i \in Finished(d) : d.posted[i].of \in d.pending
  BY <1>3, <1>5 DEF PaneInv
<1>8. \A i \in Finished(d), o \in d.threads : o.id # d.posted[i].of
  BY <1>3, <1>5 DEF PaneInv
<1>9. \A i, j \in Finished(d) : d.posted[i].of = d.posted[j].of => i = j
  BY <1>3, <1>5 DEF PaneInv
<1>10. /\ \A l \in d.threads : l.id = d.loader \/ l.id \in d.pending
       /\ \A l \in d.threads : l.parked => l.id \in d.pending
       /\ \A l, n \in d.threads : l.id = n.id => l = n
  BY <1>3 DEF PaneInv
<1>11. PaneInv(d)
  BY <1>3, <1>6, <1>7, <1>8, <1>9, <1>10, Zenon DEF PaneInv
<1>12. CASE m.kind # "finished"
  <2>1. m.kind \in {"loaded", "error"} /\ m.of \in Text \cup Image
    BY <1>2, <1>12 DEF LoadSignal, FinishedSignal
  <2>2. CASE m.kind = "loaded" /\ m.of \in Text
    <3>1. c = _on_text_loaded(d, m)
      BY <2>2
    <3> HIDE DEF c
    <3>2. /\ c \in PaneState /\ c.loader = d.loader /\ c.pending = d.pending
          /\ c.threads = d.threads /\ c.posted = d.posted
          /\ c.path = d.path /\ c.page = d.page /\ c.info = d.info /\ c.image = d.image
          /\ c.details = d.details /\ c.text \in {d.text, d.path}
      BY <1>3, <2>2, <3>1 DEF PaneState, _on_text_loaded
    <3>3. PaneCurrent(c)
      BY <1>4, <3>2 DEF PaneCurrent, Content
    <3>4. PaneInv(c)
      BY <1>11, <3>2, SameLoaders
    <3> QED
      BY <3>3, <3>4
  <2>3. CASE m.kind = "loaded" /\ m.of \in Image
    <3>1. c = _on_image_loaded(d, m)
      BY <2>3
    <3> HIDE DEF c
    <3>2. /\ c \in PaneState /\ c.loader = d.loader /\ c.pending = d.pending
          /\ c.threads = d.threads /\ c.posted = d.posted
          /\ c.path = d.path /\ c.page = d.page /\ c.info = d.info /\ c.text = d.text
          /\ c.details = d.details /\ c.image \in {d.image, d.path}
      BY <1>3, <2>3, <3>1 DEF PaneState, _on_image_loaded
    <3>3. PaneCurrent(c)
      BY <1>4, <3>2 DEF PaneCurrent, Content
    <3>4. PaneInv(c)
      BY <1>11, <3>2, SameLoaders
    <3> QED
      BY <3>3, <3>4
  <2>4. CASE m.kind = "error"
    <3>1. c = _on_preview_error(d, m)
      BY <2>4
    <3> HIDE DEF c
    <3>2. /\ c \in PaneState /\ c.loader = d.loader /\ c.pending = d.pending
          /\ c.threads = d.threads /\ c.posted = d.posted
          /\ c.path = d.path /\ (c = d \/ (c.page = "info" /\ c.info = c.path))
      BY <1>3, <2>1, <3>1 DEF PaneState, _on_preview_error
    <3>3. PaneCurrent(c)
      BY <1>4, <3>2 DEF PaneCurrent, Content
    <3>4. PaneInv(c)
      BY <1>11, <3>2, SameLoaders
    <3> QED
      BY <3>3, <3>4
  <2> QED
    BY <2>1, <2>2, <2>3, <2>4
<1>13. CASE m.kind = "finished"
  <2>1. c = _discard_pending_loader(d, m)
    BY <1>13
  <2>2. m.of \notin {l.id : l \in d.threads} /\ 1 \in Finished(s)
    BY <1>2, <1>3, <1>5, <1>13 DEF Finished, PaneInv
  <2> DEFINE kept == d.pending \ {m.of}
  <2> HIDE DEF c
  <2>3. /\ c \in PaneState /\ c.loader = d.loader /\ c.pending = kept
        /\ c.threads = d.threads /\ c.posted = d.posted
        /\ c.path = d.path /\ Content(c) = Content(d)
    <3>1. kept \in SUBSET (Nat \ {0}) /\ c = [d EXCEPT !.pending = kept]
      BY <1>3, <2>1 DEF PaneState, _discard_pending_loader
    <3> HIDE DEF kept
    <3> QED
      BY <1>3, <3>1 DEF PaneState, Content
  <2>4. PaneCurrent(c)
    BY <1>4, <2>3 DEF PaneCurrent
  <2>5. Finished(c) = Finished(d)
    BY <2>3 DEF Finished
  <2>6. IsFiniteSet(c.threads) /\ IsFiniteSet(c.pending)
    <3>1. IsFiniteSet(kept)
      BY <1>6, FS_RemoveElement
    <3> QED
      BY <1>6, <2>3, <3>1, Zenon
  <2>7. \A i \in Finished(d) : d.posted[i].of # m.of
    BY <1>2, <1>5, <2>2 DEF PaneInv
  <2>8. /\ \A i \in Finished(c) : c.posted[i].of \in c.pending
        /\ \A i \in Finished(c), o \in c.threads : o.id # c.posted[i].of
        /\ \A i, j \in Finished(c) : c.posted[i].of = c.posted[j].of => i = j
    BY <1>7, <1>8, <1>9, <2>3, <2>5, <2>7
  <2>9. /\ \A l \in c.threads : l.id = c.loader \/ l.id \in c.pending
        /\ \A l \in c.threads : l.parked => l.id \in c.pending
        /\ \A l, n \in c.threads : l.id = n.id => l = n
    BY <1>10, <2>2, <2>3
  <2>10. PaneInv(c)
    BY <2>3, <2>6, <2>8, <2>9, Zenon DEF PaneInv
  <2> QED
    BY <2>4, <2>10
<1> QED
  BY <1>12, <1>13

-----------------------------------------------------------------------------
Upto(K, i) == {j \in K : j <= i}

\* The n-th of some rows is there.
LEMMA NthRow ==
    ASSUME NEW N \in Nat, NEW K \in SUBSET (1..N), NEW n \in 1..Cardinality(K)
    PROVE  \E i \in K : Cardinality(Upto(K, i)) = n
<1> DEFINE G == {i \in 0..N : Cardinality(Upto(K, i)) >= n}
<1>1. IsFiniteSet(K) /\ Cardinality(K) \in Nat
  BY IntervalSize, FS_Subset, FS_CardinalityType
<1>2. \A i \in 0..N : IsFiniteSet(Upto(K, i)) /\ Cardinality(Upto(K, i)) \in Nat
  BY <1>1, FS_Subset, FS_CardinalityType DEF Upto
<1> \A j \in K : j \in Int /\ 1 <= j /\ j <= N
  OBVIOUS
<1>3. Upto(K, N) = K /\ Upto(K, 0) = {}
  <2>1. \A x \in K : x <= N /\ ~(x <= 0)
    OBVIOUS
  <2> QED
    BY <2>1, Zenon DEF Upto
<1>4. Cardinality(Upto(K, 0)) = 0
  BY <1>3, FS_EmptySet
<1>5. \A i \in 1..N : Upto(K, i) = Upto(K, i - 1) \cup (IF i \in K THEN {i} ELSE {})
                      /\ i \notin Upto(K, i - 1) /\ i - 1 \in 0..N
  <2> SUFFICES ASSUME NEW i \in 1..N
               PROVE  /\ Upto(K, i) = Upto(K, i - 1) \cup (IF i \in K THEN {i} ELSE {})
                      /\ i \notin Upto(K, i - 1) /\ i - 1 \in 0..N
    OBVIOUS
  <2>1. \A j \in K : j <= i <=> j <= i - 1 \/ j = i
    OBVIOUS
  <2>2. ~(i <= i - 1) /\ i - 1 \in 0..N
    OBVIOUS
  <2> USE DEF Upto
  <2>3. \A j : j \in Upto(K, i) <=> j \in Upto(K, i - 1) \cup (IF i \in K THEN {i} ELSE {})
    <3>1. CASE i \in K
      BY <2>1, <3>1, Zenon
    <3>2. CASE i \notin K
      BY <2>1, <3>2, Zenon
    <3> QED
      BY <3>1, <3>2
  <2> QED
    BY <2>2, <2>3, Zenon
<1>6. \A i \in 1..N : Cardinality(Upto(K, i)) =
          Cardinality(Upto(K, i - 1)) + (IF i \in K THEN 1 ELSE 0)
  <2> SUFFICES ASSUME NEW i \in 1..N
               PROVE  Cardinality(Upto(K, i)) =
                          Cardinality(Upto(K, i - 1)) + (IF i \in K THEN 1 ELSE 0)
    OBVIOUS
  <2> DEFINE U == Upto(K, i - 1)
  <2>1. IsFiniteSet(U) /\ Cardinality(U) \in Nat /\ i \notin U
    BY <1>2, <1>5
  <2>2. Upto(K, i) = IF i \in K THEN U \cup {i} ELSE U
    <3>1. Upto(K, i) = U \cup (IF i \in K THEN {i} ELSE {})
      BY <1>5
    <3>2. U \cup {} = U
      OBVIOUS
    <3> HIDE DEF U
    <3>3. CASE i \in K
      BY <3>1, <3>3
    <3>4. CASE i \notin K
      BY <3>1, <3>2, <3>4
    <3> QED
      BY <3>3, <3>4
  <2> HIDE DEF U
  <2>3. Cardinality(U \cup {i}) = Cardinality(U) + 1
    BY <2>1, FS_AddElement
  <2>4. Cardinality(Upto(K, i)) = Cardinality(U) + (IF i \in K THEN 1 ELSE 0)
    BY <2>1, <2>2, <2>3
  <2> QED
    BY <2>4 DEF U
<1>7. N \in G
  BY <1>1, <1>3
<1>8. Min(G) \in G /\ \A y \in G : Min(G) <= y
  BY <1>7, LeastOf
<1> DEFINE m == Min(G)
<1> HIDE DEF m
<1>9. m \in 0..N /\ Cardinality(Upto(K, m)) >= n /\ \A y \in 0..N :
          Cardinality(Upto(K, y)) >= n => m <= y
  BY <1>8 DEF m
<1>10. m \in 1..N /\ m - 1 \in 0..N
  BY <1>1, <1>4, <1>9
<1>11. Cardinality(Upto(K, m - 1)) < n
  BY <1>1, <1>2, <1>9, <1>10
<1>12. m \in K /\ Cardinality(Upto(K, m)) = n
  BY <1>1, <1>2, <1>6, <1>9, <1>10, <1>11
<1> QED
  BY <1>12

Distinct(r) == \A i, j \in DOMAIN r : r[i] = r[j] => i = j

\* What a deletion leaves of a tab's results: some of them, each once, none deleted.
LEMMA RemovedRows ==
    ASSUME NEW t, results[t] \in Seq(File), Distinct(results[t]), NEW ok
    PROVE  /\ Removed(t, ok) \in Seq(File) /\ Distinct(Removed(t, ok))
           /\ \A f \in ToSet(Removed(t, ok)) : f \in ToSet(results[t]) /\ f \notin ok
<1> DEFINE K == Kept(t, ok)
           N == Len(results[t])
           Nth(n) == CHOOSE i \in K : Cardinality(Upto(K, i)) = n
           r == Removed(t, ok)
<1>1. /\ N \in Nat /\ K \in SUBSET (1..N)
      /\ \A i \in K : results[t][i] \notin ok
      /\ \A i \in 1..N : results[t][i] \in File /\ results[t][i] \in ToSet(results[t])
  BY DEF Kept, ToSet
<1>2. Cardinality(K) \in Nat
  BY <1>1, IntervalSize, FS_Subset, FS_CardinalityType
<1>3. r = [n \in 1..Cardinality(K) |-> results[t][Nth(n)]]
  BY Zenon DEF Removed, Upto
<1> HIDE DEF K, r
<1>4. \A n \in 1..Cardinality(K) : Nth(n) \in K /\ Cardinality(Upto(K, Nth(n))) = n
  <2> TAKE n \in 1..Cardinality(K)
  <2>1. \E i \in K : Cardinality(Upto(K, i)) = n
    <3>1. N \in Nat /\ K \in SUBSET (1..N) /\ n \in 1..Cardinality(K)
      BY <1>1
    <3> HIDE DEF N, Nth
    <3> QED
      BY <3>1, NthRow
  <2> QED
    BY <2>1, Zenon
<1>5. \A n, m \in 1..Cardinality(K) : Nth(n) = Nth(m) => n = m
  BY <1>4
<1> HIDE DEF Nth
<1>6. /\ DOMAIN r = 1..Cardinality(K)
      /\ \A n \in DOMAIN r : Nth(n) \in 1..N /\ r[n] = results[t][Nth(n)] /\ r[n] \notin ok
  BY <1>1, <1>3, <1>4
<1>7. r \in Seq(File)
  BY <1>1, <1>2, <1>3, <1>6
<1>8. Distinct(r)
  <2>1. \A n, m \in DOMAIN r : r[n] = r[m] => Nth(n) = Nth(m)
    BY <1>1, <1>6 DEF Distinct
  <2> QED
    BY <1>5, <1>6, <2>1 DEF Distinct
<1>9. \A f \in ToSet(r) : f \in ToSet(results[t]) /\ f \notin ok
  BY <1>1, <1>6 DEF ToSet
<1> QED
  BY <1>7, <1>8, <1>9 DEF r

-----------------------------------------------------------------------------
\* The rows of the tabs: each file once, and no more of them loaded than there are.
RowsInv ==
    /\ tabs \subseteq Tab /\ current \in tabs
    /\ results \in [Tab -> Seq(File)] /\ columns \in [Tab -> Seq(File)]
    /\ loaded \in [Tab -> Nat] /\ mode \in [Tab -> View]
    /\ selected \in [Tab -> [View -> SUBSET Nat]]
    /\ chosen \in [Tab -> [View -> SUBSET File]]
    /\ fresh \in [Tab -> SUBSET File] /\ quick \in BOOLEAN
    /\ \A t \in Tab : Distinct(results[t]) /\ loaded[t] <= Len(results[t])

\* The first batch of some results.
LEMMA FirstRows ==
    ASSUME NEW r \in Seq(File)
    PROVE  /\ FirstBatch(r) \in Nat /\ FirstBatch(r) <= Len(r)
           /\ PathRows(r) \in Seq(File) /\ Len(PathRows(r)) = FirstBatch(r)
<1>1. Len(r) \in Nat /\ FirstBatch(r) \in 0..Len(r)
  BY DEF FirstBatch
<1> QED
  BY <1>1 DEF PathRows

\* Tabs that get new results: theirs are new, loaded from the start, nothing selected.
LEMMA NewRows ==
    ASSUME RowsInv, NEW ts \in SUBSET Tab, NEW new, set_results(ts, new),
           \A t \in ts : new[t] \in Seq(File) /\ Distinct(new[t])
    PROVE  /\ results' \in [Tab -> Seq(File)] /\ columns' \in [Tab -> Seq(File)]
           /\ loaded' \in [Tab -> Nat] /\ selected' \in [Tab -> [View -> SUBSET Nat]]
           /\ \A t \in Tab : Distinct(results'[t]) /\ loaded'[t] <= Len(results'[t])
           /\ \A t \in ts : results'[t] = new[t] /\ selected'[t] = NoRows
           /\ \A t \in Tab \ ts : /\ results'[t] = results[t] /\ loaded'[t] = loaded[t]
                                  /\ columns'[t] = columns[t] /\ selected'[t] = selected[t]
<1>1. NoRows \in [View -> SUBSET Nat]
  BY DEF NoRows
<1>2. /\ \A t \in ts : /\ results'[t] = new[t] /\ loaded'[t] = FirstBatch(new[t])
                       /\ columns'[t] = PathRows(new[t]) /\ selected'[t] = NoRows
      /\ \A t \in Tab \ ts : /\ results'[t] = results[t] /\ loaded'[t] = loaded[t]
                             /\ columns'[t] = columns[t] /\ selected'[t] = selected[t]
  BY DEF set_results
<1>3. \A t \in ts : /\ FirstBatch(new[t]) \in Nat /\ FirstBatch(new[t]) <= Len(new[t])
                    /\ PathRows(new[t]) \in Seq(File)
  BY FirstRows
<1>4. results' \in [Tab -> Seq(File)] /\ columns' \in [Tab -> Seq(File)]
  BY <1>3 DEF set_results, RowsInv
<1>5. loaded' \in [Tab -> Nat] /\ selected' \in [Tab -> [View -> SUBSET Nat]]
  BY <1>1, <1>3 DEF set_results, RowsInv
<1>6. \A t \in Tab : Distinct(results'[t]) /\ loaded'[t] <= Len(results'[t])
  BY <1>2, <1>3 DEF RowsInv
<1> QED
  BY <1>2, <1>4, <1>5, <1>6

\* An order of some files lists them, each once.
LEMMA Orders ==
    ASSUME NEW S \in SUBSET File, NEW r \in SetToSeqs(S), Cardinality(S) \in Nat
    PROVE  /\ r \in Seq(File) /\ Distinct(r) /\ Len(r) = Cardinality(S)
           /\ ToSet(r) \subseteq S
  BY DEF SetToSeqs, Distinct, ToSet

\* Rows in another order are as many.
LEMMA SameLength ==
    ASSUME NEW r \in Seq(File), Distinct(r)
    PROVE  /\ IsFiniteSet(ToSet(r)) /\ Cardinality(ToSet(r)) = Len(r)
           /\ ToSet(r) \in SUBSET File
<1>1. r \in Surjection(1..Len(r), ToSet(r)) /\ r \in Injection(1..Len(r), ToSet(r))
  BY DEF Surjection, Injection, IsInjective, Distinct, ToSet
<1>2. Len(r) \in Nat
  OBVIOUS
<1>3. IsFiniteSet(1..Len(r)) /\ Cardinality(1..Len(r)) = Len(r)
  BY <1>2, IntervalSize
<1>4. IsFiniteSet(ToSet(r)) /\ Cardinality(ToSet(r)) = Cardinality(1..Len(r))
  BY <1>1, <1>3, FS_Surjection
<1> QED
  BY <1>3, <1>4 DEF ToSet

\* What a search may find.
LEMMA FoundRows ==
    ASSUME NEW found \in UNION {kSubset(n, File) : n \in 0..MaxRows},
           NEW r \in SetToSeqs(found)
    PROVE  /\ found \in SUBSET File
           /\ r \in Seq(File) /\ Distinct(r) /\ ToSet(r) \subseteq found
<1>1. found \in SUBSET File /\ Cardinality(found) \in Nat
  BY DEF kSubset
<1> QED
  BY <1>1, Orders

\* A sort of a tab's table.
LEMMA SortedRows ==
    ASSUME RowsInv, NEW t \in Tab, NEW r \in SetToSeqs(ToSet(results[t]))
    PROVE  /\ r \in Seq(File) /\ Distinct(r) /\ Len(r) = Len(results[t])
           /\ ToSet(r) \subseteq ToSet(results[t])
<1>1. results[t] \in Seq(File) /\ Distinct(results[t])
  BY DEF RowsInv
<1>2. /\ Cardinality(ToSet(results[t])) = Len(results[t])
      /\ ToSet(results[t]) \in SUBSET File /\ Len(results[t]) \in Nat
  BY <1>1, SameLength
<1> QED
  BY <1>2, Orders

\* What a step leaves alone leaves the rows as they are.
LEMMA RowsStep ==
    ASSUME RowsInv, [Next]_vars
    PROVE  RowsInv'
<1> USE DEF vars, models
<1>1. CASE UNCHANGED <<tabs, current, models, quick>>
  BY <1>1, Zenon DEF RowsInv
<1>2. ASSUME NEW t \in Tab, _on_search_results(t) PROVE RowsInv'
  <2>1. PICK found \in UNION {kSubset(n, File) : n \in 0..MaxRows} :
            \E r \in SetToSeqs(found) :
                set_results({t}, [x \in Tab |-> r]) /\ fresh' = [fresh EXCEPT ![t] = found]
    BY <1>2 DEF _on_search_results
  <2>2. PICK r \in SetToSeqs(found) :
            set_results({t}, [x \in Tab |-> r]) /\ fresh' = [fresh EXCEPT ![t] = found]
    BY <2>1
  <2>3. found \in SUBSET File /\ r \in Seq(File) /\ Distinct(r)
    BY FoundRows
  <2>4. \A x \in {t} : [y \in Tab |-> r][x] \in Seq(File) /\ Distinct([y \in Tab |-> r][x])
    BY <2>3
  <2>5. UNCHANGED <<tabs, current, mode, quick, chosen>>
    BY <1>2 DEF _on_search_results
  <2>6. fresh' \in [Tab -> SUBSET File]
    BY <2>2, <2>3 DEF RowsInv
  <2>7. {t} \in SUBSET Tab
    OBVIOUS
  <2> DEFINE new == [x \in Tab |-> r]
  <2>8. set_results({t}, new) /\ \A x \in {t} : new[x] \in Seq(File) /\ Distinct(new[x])
    BY <2>2, <2>4
  <2> HIDE DEF new
  <2>9. /\ results' \in [Tab -> Seq(File)] /\ columns' \in [Tab -> Seq(File)]
        /\ loaded' \in [Tab -> Nat] /\ selected' \in [Tab -> [View -> SUBSET Nat]]
        /\ \A x \in Tab : Distinct(results'[x]) /\ loaded'[x] <= Len(results'[x])
    BY <2>7, <2>8, NewRows, Zenon
  <2> QED
    BY <2>5, <2>6, <2>9, Zenon DEF RowsInv
<1>3. ASSUME NEW t \in Tab, fetchMore(t) PROVE RowsInv'
  <2>1. loaded' \in [Tab -> Nat] /\ \A x \in Tab : loaded'[x] <= Len(results[x])
    BY <1>3 DEF fetchMore, RowsInv
  <2> QED
    BY <1>3, <2>1, Zenon DEF fetchMore, RowsInv
<1>4. ASSUME NEW t \in Tab, sort(t) PROVE RowsInv'
  <2>1. PICK r \in SetToSeqs(ToSet(results[t])) : results' = [results EXCEPT ![t] = r]
    BY <1>4 DEF sort, Sorted
  <2>2. r \in Seq(File) /\ Distinct(r) /\ Len(r) = Len(results[t])
    BY SortedRows
  <2>3. /\ results' \in [Tab -> Seq(File)]
        /\ \A x \in Tab : Distinct(results'[x]) /\ loaded[x] <= Len(results'[x])
    BY <2>1, <2>2 DEF RowsInv
  <2>4. selected' \in [Tab -> [View -> SUBSET Nat]]
    BY <1>4 DEF sort, RowsInv, View
  <2>5. UNCHANGED <<tabs, current, loaded, columns, mode, chosen, fresh, quick>>
    BY <1>4 DEF sort, Sorted
  <2> QED
    BY <2>3, <2>4, <2>5, Zenon DEF RowsInv
<1>5. ASSUME NEW t \in Tab, _set_view_mode(t) PROVE RowsInv'
  <2>1. mode' \in [Tab -> View]
    BY <1>5 DEF _set_view_mode, RowsInv, View
  <2> QED
    BY <1>5, <2>1, Zenon DEF _set_view_mode, RowsInv
<1>6. ASSUME NEW t \in Tab, _add_new_tab(t) PROVE RowsInv'
  <2>1. \A x \in {t} : [y \in Tab |-> <<>>][x] \in Seq(File)
                       /\ Distinct([y \in Tab |-> <<>>][x])
    BY DEF Distinct
  <2>2. /\ tabs' \subseteq Tab /\ current' \in tabs' /\ quick' = quick
        /\ mode' \in [Tab -> View] /\ fresh' \in [Tab -> SUBSET File]
    BY <1>6 DEF _add_new_tab, RowsInv, View
  <2>3. chosen' \in [Tab -> [View -> SUBSET File]]
    BY <1>6 DEF _add_new_tab, RowsInv, NoRows
  <2>4. {t} \in SUBSET Tab /\ set_results({t}, [x \in Tab |-> <<>>])
    BY <1>6 DEF _add_new_tab
  <2> DEFINE new == [x \in Tab |-> <<>>]
  <2>5. set_results({t}, new) /\ \A x \in {t} : new[x] \in Seq(File) /\ Distinct(new[x])
    BY <2>1, <2>4
  <2> HIDE DEF new
  <2>6. /\ results' \in [Tab -> Seq(File)] /\ columns' \in [Tab -> Seq(File)]
        /\ loaded' \in [Tab -> Nat] /\ selected' \in [Tab -> [View -> SUBSET Nat]]
        /\ \A x \in Tab : Distinct(results'[x]) /\ loaded'[x] <= Len(results'[x])
    BY <2>4, <2>5, NewRows, Zenon
  <2> QED
    BY <2>2, <2>3, <2>6, Zenon DEF RowsInv
<1>7. ASSUME NEW t \in Tab, _on_tab_changed(t) PROVE RowsInv'
  BY <1>7, Zenon DEF _on_tab_changed, RowsInv
<1>8. ASSUME NEW t \in Tab, _close_tab(t) PROVE RowsInv'
  <2>1. tabs' \subseteq Tab /\ current' \in tabs'
    BY <1>8 DEF _close_tab, RowsInv
  <2> QED
    BY <1>8, <2>1, Zenon DEF _close_tab, RowsInv
<1>9. ASSUME NEW t \in Tab, _on_selection_changed(t) PROVE RowsInv'
  <2> DEFINE v == mode[t]
  <2>1. PICK sel \in {{}, Rows(t, v)} \cup {{i} : i \in Rows(t, v)} :
            /\ selected' = [selected EXCEPT ![t][v] = sel]
            /\ chosen' = [chosen EXCEPT ![t][v] = {Row(t, v, i) : i \in sel}]
            /\ Previews(IF sel = {} THEN None ELSE Row(t, v, Min(sel)))
    BY <1>9 DEF _on_selection_changed
  <2>2. v \in View /\ Rows(t, v) \in SUBSET Nat
    BY DEF RowsInv, Rows
  <2>3. \A i \in Rows(t, v) : Row(t, v, i) \in File
    <3>1. results[t] \in Seq(File) /\ columns[t] \in Seq(File) /\ loaded[t] \in Nat
          /\ loaded[t] <= Len(results[t])
      BY DEF RowsInv
    <3> QED
      BY <3>1 DEF Rows, Row
  <2>4. sel \in SUBSET Nat /\ {Row(t, v, i) : i \in sel} \in SUBSET File
    BY <2>1, <2>2, <2>3
  <2>5. selected' \in [Tab -> [View -> SUBSET Nat]]
    BY <2>1, <2>2, <2>4 DEF RowsInv
  <2> DEFINE fs == {Row(t, v, i) : i \in sel}
  <2>6. chosen' = [chosen EXCEPT ![t][v] = fs] /\ fs \in SUBSET File
    BY <2>1, <2>4
  <2> HIDE DEF fs
  <2>7. chosen' \in [Tab -> [View -> SUBSET File]]
    BY <2>2, <2>6 DEF RowsInv
  <2>8. quick' \in BOOLEAN
    BY <2>1, Zenon DEF Previews
  <2> QED
    BY <1>9, <2>5, <2>7, <2>8, Zenon DEF _on_selection_changed, RowsInv
<1>10. ASSUME NEW t \in Tab, _toggle_quick_preview(t) PROVE RowsInv'
  <2>1. quick' \in BOOLEAN
    BY <1>10, Zenon DEF _toggle_quick_preview
  <2> QED
    BY <1>10, <2>1, Zenon DEF _toggle_quick_preview, RowsInv
<1>11. ASSUME _on_delete_completed PROVE RowsInv'
  <2> DEFINE ok == Head(completed)
             ts == {t \in tabs : ToSet(results[t]) \cap ok # {}}
             new == [t \in Tab |-> Removed(t, ok)]
  <2>1. ts \in SUBSET Tab /\ set_results(ts, new)
    BY <1>11 DEF _on_delete_completed, _remove_deleted_result_paths, RowsInv
  <2>2. \A t \in ts : new[t] \in Seq(File) /\ Distinct(new[t])
    <3> TAKE t \in ts
    <3>1. results[t] \in Seq(File) /\ Distinct(results[t]) /\ t \in Tab
      BY <2>1 DEF RowsInv
    <3>2. Removed(t, ok) \in Seq(File) /\ Distinct(Removed(t, ok))
      BY <3>1, RemovedRows, Zenon
    <3> QED
      BY <3>1, <3>2
  <2>3. fresh' \in [Tab -> SUBSET File] /\ UNCHANGED <<tabs, current, mode, quick, chosen>>
    BY <1>11 DEF _on_delete_completed, _remove_deleted_result_paths, RowsInv
  <2> HIDE DEF ts, new
  <2> QED
    BY <2>1, <2>2, <2>3, NewRows, Zenon DEF RowsInv
<1>12. CASE UNCHANGED vars
  BY <1>1, <1>12
<1>13. CASE PaneStep
  BY <1>1, <1>13, Zenon DEF PaneStep
<1>14. ASSUME NEW t \in Tab, _on_delete_requested(t) PROVE RowsInv'
  BY <1>1, <1>14, Zenon DEF _on_delete_requested
<1>15. ASSUME NEW j \in jobs, _delete_to_recycle(j) PROVE RowsInv'
  BY <1>1, <1>15, Zenon DEF _delete_to_recycle
<1> QED
  BY <1>2, <1>3, <1>4, <1>5, <1>6, <1>7, <1>8, <1>9, <1>10, <1>11, <1>12, <1>13, <1>14, <1>15,
     Zenon DEF Next, TabStep

-----------------------------------------------------------------------------
\* The selected rows of a tab that a step leaves alone, or clears, stay the user's.
LEMMA SelectionStep ==
    ASSUME RowsInv, SelectionHeld, [Next]_vars
    PROVE  SelectionHeld'
<1> DEFINE Held(t) == \A v \in View : \A i \in selected[t][v] :
                          i \in Rows(t, v) /\ Row(t, v, i) \in chosen[t][v]
<1>0. SelectionHeld' <=> \A t \in tabs' : Held(t)'
  BY DEF SelectionHeld
<1> USE DEF vars, models
<1>a. \A t \in tabs : Held(t)
  BY DEF SelectionHeld
<1>b. ASSUME NEW t \in tabs, results'[t] = results[t], loaded'[t] = loaded[t],
             columns'[t] = columns[t], selected'[t] = selected[t], chosen'[t] = chosen[t]
      PROVE  Held(t)'
  BY <1>a, <1>b DEF Row, Rows
<1>c. ASSUME NEW t, selected'[t] = NoRows PROVE Held(t)'
  BY <1>c DEF NoRows
<1>1. CASE UNCHANGED <<results, loaded, columns, selected, chosen>> /\ tabs' \subseteq tabs
  BY <1>0, <1>1, <1>b
<1>2. ASSUME NEW t \in Tab, _on_search_results(t) PROVE SelectionHeld'
  <2>1. PICK new : set_results({t}, new) /\ UNCHANGED <<tabs, chosen>>
    BY <1>2, Zenon DEF _on_search_results
  <2>2. \A x \in tabs : \/ selected'[x] = NoRows
                        \/ /\ results'[x] = results[x] /\ loaded'[x] = loaded[x]
                           /\ columns'[x] = columns[x] /\ selected'[x] = selected[x]
    BY <2>1 DEF set_results, RowsInv
  <2> HIDE DEF Held
  <2>3. \A x \in tabs : Held(x)'
    BY <2>1, <2>2, <1>b, <1>c
  <2> QED
    BY <1>0, <2>1, <2>3
<1>3. ASSUME NEW t \in Tab, fetchMore(t) PROVE SelectionHeld'
  <2>1. /\ UNCHANGED <<tabs, results, columns, selected, chosen>>
        /\ \A x \in Tab : loaded'[x] \in Nat /\ loaded[x] <= loaded'[x]
    BY <1>3 DEF fetchMore, RowsInv
  <2>2. ASSUME NEW x \in tabs PROVE Held(x)'
    <3>1. x \in Tab /\ loaded[x] \in Nat /\ loaded'[x] \in Nat /\ loaded[x] <= loaded'[x]
      BY <2>1 DEF RowsInv
    <3>2. \A v \in View : Rows(x, v) \subseteq Rows(x, v)'
      BY <2>1, <3>1 DEF Rows
    <3>3. \A v \in View : \A i : Row(x, v, i)' = Row(x, v, i)
      BY <2>1 DEF Row
    <3> QED
      BY <1>a, <2>1, <3>2, <3>3
  <2> HIDE DEF Held
  <2> QED
    BY <1>0, <2>1, <2>2
<1>4. ASSUME NEW t \in Tab, sort(t) PROVE SelectionHeld'
  <2>1. PICK r : results' = [results EXCEPT ![t] = r]
    BY <1>4 DEF sort, Sorted
  <2>2. /\ UNCHANGED <<tabs, columns, loaded, chosen>>
        /\ selected' = [selected EXCEPT ![t]["table"] = {}]
    BY <1>4 DEF sort, Sorted
  <2>3. ASSUME NEW x \in tabs PROVE Held(x)'
    <3>1. CASE x # t
      BY <1>b, <2>1, <2>2, <3>1 DEF RowsInv
    <3>2. CASE x = t
      <4>1. selected'[t]["table"] = {} /\ selected'[t]["columns"] = selected[t]["columns"]
        BY <2>2 DEF RowsInv, View
      <4>2. \A i : /\ Row(t, "columns", i)' = Row(t, "columns", i)
                   /\ i \in Rows(t, "columns")' <=> i \in Rows(t, "columns")
        BY <2>2 DEF Row, Rows
      <4> QED
        BY <1>a, <2>2, <3>2, <4>1, <4>2 DEF View
    <3> QED
      BY <3>1, <3>2
  <2> HIDE DEF Held
  <2> QED
    BY <1>0, <2>2, <2>3
<1>5. ASSUME NEW t \in Tab, _add_new_tab(t) PROVE SelectionHeld'
  <2>1. /\ set_results({t}, [x \in Tab |-> <<>>]) /\ tabs' = tabs \cup {t}
        /\ \A x \in Tab \ {t} : chosen'[x] = chosen[x]
    BY <1>5 DEF _add_new_tab, RowsInv
  <2>2. \A x \in tabs' : \/ selected'[x] = NoRows
                         \/ /\ x \in tabs /\ chosen'[x] = chosen[x]
                            /\ results'[x] = results[x] /\ loaded'[x] = loaded[x]
                            /\ columns'[x] = columns[x] /\ selected'[x] = selected[x]
    BY <2>1 DEF set_results, RowsInv
  <2> HIDE DEF Held
  <2>3. \A x \in tabs' : Held(x)'
    BY <2>2, <1>b, <1>c
  <2> QED
    BY <1>0, <2>3
<1>6. ASSUME NEW t \in Tab, _on_selection_changed(t) PROVE SelectionHeld'
  <2> DEFINE v == mode[t]
  <2>1. PICK sel \in {{}, Rows(t, v)} \cup {{i} : i \in Rows(t, v)} :
            /\ selected' = [selected EXCEPT ![t][v] = sel]
            /\ chosen' = [chosen EXCEPT ![t][v] = {Row(t, v, i) : i \in sel}]
    BY <1>6, Zenon DEF _on_selection_changed
  <2> DEFINE fs == {Row(t, v, i) : i \in sel}
  <2>2. chosen' = [chosen EXCEPT ![t][v] = fs] /\ \A i \in sel : Row(t, v, i) \in fs
    BY <2>1
  <2> HIDE DEF fs
  <2>3. UNCHANGED <<tabs, results, loaded, columns>> /\ v \in View /\ sel \subseteq Rows(t, v)
    BY <1>6, <2>1 DEF _on_selection_changed, RowsInv
  <2> HIDE DEF v
  <2>4. ASSUME NEW x \in tabs PROVE Held(x)'
    <3>1. \A w \in View : \A i : /\ Row(x, w, i)' = Row(x, w, i)
                                 /\ i \in Rows(x, w)' <=> i \in Rows(x, w)
      BY <2>3 DEF Row, Rows
    <3>2. ASSUME NEW w \in View
          PROVE  IF x = t /\ w = v THEN selected'[x][w] = sel /\ chosen'[x][w] = fs
                 ELSE selected'[x][w] = selected[x][w] /\ chosen'[x][w] = chosen[x][w]
      BY <2>1, <2>2, <2>3 DEF RowsInv
    <3>3. ASSUME NEW w \in View, NEW i \in selected'[x][w]
          PROVE  i \in Rows(x, w) /\ Row(x, w, i) \in chosen'[x][w]
      <4>1. CASE x = t /\ w = v
        BY <2>2, <2>3, <3>2, <3>3, <4>1
      <4>2. CASE ~(x = t /\ w = v)
        BY <1>a, <3>2, <3>3, <4>2
      <4> QED
        BY <4>1, <4>2
    <3> QED
      BY <3>1, <3>3
  <2> HIDE DEF Held
  <2> QED
    BY <1>0, <2>3, <2>4
<1>7. ASSUME _on_delete_completed PROVE SelectionHeld'
  <2>1. PICK ts, new : set_results(ts, new) /\ UNCHANGED <<tabs, chosen>>
    BY <1>7, Zenon DEF _on_delete_completed, _remove_deleted_result_paths
  <2>2. \A x \in tabs : \/ selected'[x] = NoRows
                        \/ /\ results'[x] = results[x] /\ loaded'[x] = loaded[x]
                           /\ columns'[x] = columns[x] /\ selected'[x] = selected[x]
    BY <2>1 DEF set_results, RowsInv
  <2> HIDE DEF Held
  <2>3. \A x \in tabs : Held(x)'
    BY <2>1, <2>2, <1>b, <1>c
  <2> QED
    BY <1>0, <2>1, <2>3
<1>8. ASSUME NEW t \in Tab,
             _set_view_mode(t) \/ _on_tab_changed(t) \/ _close_tab(t)
             \/ _toggle_quick_preview(t) \/ _on_delete_requested(t)
      PROVE  SelectionHeld'
  <2>1. UNCHANGED <<results, loaded, columns, selected, chosen>> /\ tabs' \subseteq tabs
    BY <1>8 DEF _set_view_mode, _on_tab_changed, _close_tab, _toggle_quick_preview,
                _on_delete_requested
  <2> QED
    BY <1>1, <2>1
<1>9. CASE PaneStep \/ (\E j \in jobs : _delete_to_recycle(j)) \/ UNCHANGED vars
  <2>1. UNCHANGED <<results, loaded, columns, selected, chosen, tabs>>
    BY <1>9 DEF PaneStep, _delete_to_recycle
  <2> QED
    BY <1>1, <2>1
<1> QED
  BY <1>2, <1>3, <1>4, <1>5, <1>6, <1>7, <1>8, <1>9, Zenon DEF Next, TabStep

-----------------------------------------------------------------------------
\* A file reported as deleted is in a tab's table only if a search has brought it since.
LEMMA DeletedStep ==
    ASSUME RowsInv, DeletedLeave, [Next]_vars
    PROVE  DeletedLeave'
<1> USE DEF vars, models, deletion
<1>0. DeletedLeave' <=> \A t \in tabs' : ToSet(results'[t]) \cap reported' \subseteq fresh'[t]
  BY DEF DeletedLeave
<1>1. CASE UNCHANGED <<results, reported, fresh>> /\ tabs' \subseteq tabs
  BY <1>0, <1>1 DEF DeletedLeave
<1>2. ASSUME NEW t \in Tab, _on_search_results(t) PROVE DeletedLeave'
  <2>1. PICK found \in UNION {kSubset(n, File) : n \in 0..MaxRows} :
            \E r \in SetToSeqs(found) :
                set_results({t}, [x \in Tab |-> r]) /\ fresh' = [fresh EXCEPT ![t] = found]
    BY <1>2 DEF _on_search_results
  <2>2. PICK r \in SetToSeqs(found) :
            set_results({t}, [x \in Tab |-> r]) /\ fresh' = [fresh EXCEPT ![t] = found]
    BY <2>1
  <2>3. ToSet(r) \subseteq found
    BY FoundRows
  <2>4. UNCHANGED <<tabs, reported>>
    BY <1>2 DEF _on_search_results
  <2>5. \A x \in Tab : IF x = t THEN results'[x] = r /\ fresh'[x] = found
                       ELSE results'[x] = results[x] /\ fresh'[x] = fresh[x]
    BY <2>2 DEF set_results, RowsInv
  <2> QED
    BY <1>0, <2>3, <2>4, <2>5 DEF DeletedLeave, RowsInv
<1>3. ASSUME NEW t \in Tab, sort(t) PROVE DeletedLeave'
  <2>1. PICK r \in SetToSeqs(ToSet(results[t])) : results' = [results EXCEPT ![t] = r]
    BY <1>3 DEF sort, Sorted
  <2>2. ToSet(r) \subseteq ToSet(results[t])
    BY SortedRows
  <2>3. UNCHANGED <<tabs, fresh, reported>>
    BY <1>3 DEF sort, Sorted
  <2>4. \A x \in Tab : ToSet(results'[x]) \subseteq ToSet(results[x])
    BY <2>1, <2>2 DEF RowsInv
  <2> QED
    BY <1>0, <2>3, <2>4 DEF DeletedLeave, RowsInv
<1>4. ASSUME NEW t \in Tab, _add_new_tab(t) PROVE DeletedLeave'
  <2>1. /\ set_results({t}, [x \in Tab |-> <<>>]) /\ tabs' = tabs \cup {t}
        /\ fresh' = [fresh EXCEPT ![t] = {}] /\ reported' = reported
    BY <1>4 DEF _add_new_tab
  <2>2. \A x \in Tab : IF x = t THEN results'[x] = <<>>
                       ELSE results'[x] = results[x] /\ fresh'[x] = fresh[x]
    BY <2>1 DEF set_results, RowsInv
  <2>3. ToSet(<<>>) = {}
    BY DEF ToSet
  <2>4. \A x \in tabs' : x \in Tab /\ (x = t \/ x \in tabs)
    BY <2>1 DEF RowsInv
  <2> QED
    BY <1>0, <2>1, <2>2, <2>3, <2>4 DEF DeletedLeave
<1>5. ASSUME _on_delete_completed PROVE DeletedLeave'
  <2> DEFINE ok == Head(completed)
             ts == {t \in tabs : ToSet(results[t]) \cap ok # {}}
             new == [t \in Tab |-> Removed(t, ok)]
  <2>1. set_results(ts, new)
    BY <1>5 DEF _on_delete_completed, _remove_deleted_result_paths
  <2>2. tabs' = tabs /\ reported' = reported \cup ok /\ fresh' = [t \in Tab |-> fresh[t] \ ok]
    BY <1>5 DEF _on_delete_completed, _remove_deleted_result_paths
  <2>3. ASSUME NEW t \in tabs
        PROVE  ToSet(results'[t]) \subseteq ToSet(results[t]) \ ok
    <3>1. t \in Tab /\ results[t] \in Seq(File) /\ Distinct(results[t])
      BY DEF RowsInv
    <3>2. CASE t \in ts
      <4>1. results'[t] = Removed(t, ok)
        BY <2>1, <3>1, <3>2 DEF set_results
      <4>2. \A f \in ToSet(Removed(t, ok)) : f \in ToSet(results[t]) /\ f \notin ok
        BY <3>1, RemovedRows, Zenon
      <4> QED
        BY <4>1, <4>2
    <3>3. CASE t \notin ts
      <4>1. results'[t] = results[t]
        BY <2>1, <3>1, <3>3 DEF set_results
      <4> QED
        BY <3>3, <4>1
    <3> QED
      BY <3>2, <3>3
  <2> HIDE DEF ok, ts, new
  <2>4. ASSUME NEW t \in tabs
        PROVE  ToSet(results'[t]) \cap reported' \subseteq fresh'[t]
    <3>1. ToSet(results[t]) \cap reported \subseteq fresh[t] /\ t \in Tab
      BY DEF DeletedLeave, RowsInv
    <3>2. fresh'[t] = fresh[t] \ ok
      BY <2>2, <3>1
    <3> QED
      BY <2>2, <2>3, <3>1, <3>2
  <2> QED
    BY <1>0, <2>2, <2>4
<1>6. ASSUME NEW t \in Tab,
             fetchMore(t) \/ _set_view_mode(t) \/ _on_tab_changed(t) \/ _close_tab(t)
             \/ _on_selection_changed(t) \/ _toggle_quick_preview(t) \/ _on_delete_requested(t)
      PROVE  DeletedLeave'
  <2>1. UNCHANGED <<results, reported, fresh>> /\ tabs' \subseteq tabs
    BY <1>6 DEF fetchMore, _set_view_mode, _on_tab_changed, _close_tab,
                _on_selection_changed, _toggle_quick_preview, _on_delete_requested
  <2> QED
    BY <1>1, <2>1
<1>7. CASE PaneStep \/ (\E j \in jobs : _delete_to_recycle(j)) \/ UNCHANGED vars
  <2>1. UNCHANGED <<results, reported, fresh, tabs>>
    BY <1>7 DEF PaneStep, _delete_to_recycle
  <2> QED
    BY <1>1, <2>1
<1> QED
  BY <1>2, <1>3, <1>4, <1>5, <1>6, <1>7, Zenon DEF Next, TabStep

\* The count shown follows the current tab and its results.
LEMMA CountStep ==
    ASSUME RowsInv, CountShown, [Next]_vars
    PROVE  CountShown'
<1> USE DEF vars, models, deletion, CountShown
<1>0. current \in Tab
  BY DEF RowsInv
<1>1. CASE UNCHANGED <<results, current, label>>
  BY <1>1
<1>2. ASSUME NEW t \in Tab, _on_search_results(t) PROVE CountShown'
  <2>1. PICK r : /\ set_results({t}, [x \in Tab |-> r])
                 /\ label' = IF t = current THEN Len(r) ELSE label
    BY <1>2, Zenon DEF _on_search_results
  <2>2. current' = current
    BY <1>2 DEF _on_search_results
  <2>3. results'[current] = IF t = current THEN r ELSE results[current]
    BY <1>0, <2>1 DEF set_results
  <2> QED
    BY <2>1, <2>2, <2>3
<1>3. ASSUME NEW t \in Tab, sort(t) PROVE CountShown'
  <2>1. PICK r \in SetToSeqs(ToSet(results[t])) : results' = [results EXCEPT ![t] = r]
    BY <1>3 DEF sort, Sorted
  <2>2. Len(r) = Len(results[t])
    BY SortedRows
  <2>3. UNCHANGED <<current, label>>
    BY <1>3 DEF sort, Sorted
  <2> QED
    BY <1>0, <2>1, <2>2, <2>3 DEF RowsInv
<1>4. ASSUME NEW t \in Tab, _add_new_tab(t) PROVE CountShown'
  BY <1>4 DEF _add_new_tab, set_results
<1>5. ASSUME NEW t \in Tab, _on_tab_changed(t) PROVE CountShown'
  BY <1>5 DEF _on_tab_changed
<1>6. ASSUME NEW t \in Tab, _close_tab(t) PROVE CountShown'
  BY <1>6 DEF _close_tab
<1>7. ASSUME _on_delete_completed PROVE CountShown'
  <2>1. PICK ts, new :
            /\ set_results(ts, new) /\ current' = current
            /\ label' = IF current \in ts THEN Len(results'[current]) ELSE label
    BY <1>7, Zenon DEF _on_delete_completed, _remove_deleted_result_paths,
                       _refresh_tab_result_count
  <2>2. current \notin ts => results'[current] = results[current]
    BY <1>0, <2>1 DEF set_results
  <2> QED
    BY <2>1, <2>2
<1>8. ASSUME NEW t \in Tab,
             fetchMore(t) \/ _set_view_mode(t)
             \/ _on_selection_changed(t) \/ _toggle_quick_preview(t) \/ _on_delete_requested(t)
      PROVE  CountShown'
  <2>1. UNCHANGED <<results, current, label>>
    BY <1>8 DEF fetchMore, _set_view_mode,
                _on_selection_changed, _toggle_quick_preview, _on_delete_requested
  <2> QED
    BY <1>1, <2>1
<1>9. CASE PaneStep \/ (\E j \in jobs : _delete_to_recycle(j)) \/ UNCHANGED vars
  <2>1. UNCHANGED <<results, current, label>>
    BY <1>9 DEF PaneStep, _delete_to_recycle
  <2> QED
    BY <1>1, <2>1
<1> QED
  BY <1>2, <1>3, <1>4, <1>5, <1>6, <1>7, <1>8, <1>9, Zenon DEF Next, TabStep

-----------------------------------------------------------------------------
PanesInv ==
    /\ panes \in [Pane -> PaneState]
    /\ \A p \in Pane : PaneInv(panes[p]) /\ PaneCurrent(panes[p])

\* One pane changes to a pane that keeps its promises.
LEMMA OnePane ==
    ASSUME PanesInv, NEW p \in Pane, NEW c, PaneInv(c), PaneCurrent(c),
           panes' = [panes EXCEPT ![p] = c]
    PROVE  PanesInv'
<1>1. c \in PaneState
  BY DEF PaneInv
<1>2. panes' \in [Pane -> PaneState]
  BY <1>1 DEF PanesInv
<1>3. \A q \in Pane : panes'[q] = IF q = p THEN c ELSE panes[q]
  BY DEF PanesInv
<1>4. \A q \in Pane : PaneInv(panes'[q]) /\ PaneCurrent(panes'[q])
  BY <1>3 DEF PanesInv
<1> QED
  BY <1>2, <1>4, Zenon DEF PanesInv

\* A thread's step and the delivery of a signal.
LEMMA PreviewStepKeeps ==
    ASSUME PanesInv, PreviewStep
    PROVE  PanesInv'
<1>1. PICK p \in Pane : Deliver(p) \/ \E l \in panes[p].threads : Load(p, l) \/ End(p, l)
  BY DEF PreviewStep
<1>2. PaneInv(panes[p]) /\ PaneCurrent(panes[p])
  BY DEF PanesInv
<1>3. CASE Deliver(p)
  <2> DEFINE m == Head(panes[p].posted)
             d == [panes[p] EXCEPT !.posted = Tail(@)]
             c == CASE m.kind = "loaded" /\ m.of \in Text -> _on_text_loaded(d, m)
                    [] m.kind = "loaded" /\ m.of \in Image -> _on_image_loaded(d, m)
                    [] m.kind = "error" -> _on_preview_error(d, m)
                    [] OTHER -> _discard_pending_loader(d, m)
  <2>1. panes[p].posted # <<>> /\ panes' = [panes EXCEPT ![p] = c]
    BY <1>3, Zenon DEF Deliver
  <2>2. PaneInv(c) /\ PaneCurrent(c)
    BY <1>2, <2>1, DeliveredPane, Zenon
  <2> HIDE DEF c
  <2> QED
    BY <2>1, <2>2, OnePane
<1>4. ASSUME NEW l \in panes[p].threads, Load(p, l) PROVE PanesInv'
  <2>1. PICK x \in Signals(l) :
            panes' = [panes EXCEPT
                ![p].threads = (@ \ {l}) \cup {[l EXCEPT !.pc = "end"]},
                ![p].posted = @ \o x]
    BY <1>4 DEF Load
  <2> DEFINE c == [panes[p] EXCEPT !.threads = (@ \ {l}) \cup {[l EXCEPT !.pc = "end"]},
                                   !.posted = @ \o x]
  <2>2. panes' = [panes EXCEPT ![p] = c]
    BY <2>1 DEF PanesInv, PaneState
  <2>3. PaneInv(c) /\ PaneCurrent(c)
    BY <1>2, <1>4, LoadedPane, Zenon DEF Load
  <2> HIDE DEF c
  <2> QED
    BY <2>2, <2>3, OnePane
<1>5. ASSUME NEW l \in panes[p].threads, End(p, l) PROVE PanesInv'
  <2> DEFINE c == [panes[p] EXCEPT
                      !.threads = @ \ {l},
                      !.posted = IF l.parked
                                 THEN Append(@, [kind |-> "finished", of |-> l.id])
                                 ELSE @]
  <2>2. panes' = [panes EXCEPT ![p] = c]
    BY <1>5 DEF End, PanesInv, PaneState
  <2>3. PaneInv(c) /\ PaneCurrent(c)
    BY <1>2, EndedPane, Zenon
  <2> HIDE DEF c
  <2> QED
    BY <2>2, <2>3, OnePane
<1> QED
  BY <1>1, <1>3, <1>4, <1>5

\* The panes after a selection.
LEMMA PreviewsKeep ==
    ASSUME PanesInv, NEW f \in File \cup {None}, Previews(f)
    PROVE  PanesInv'
<1>1. PICK side \in Finds(panes["side"]), pop \in Finds(panes["quick"]) :
          panes' = [side |-> preview_entry(panes["side"], f, side),
                    quick |-> IF ~quick THEN panes["quick"]
                              ELSE IF f = None THEN hideEvent(panes["quick"])
                              ELSE preview_entry(panes["quick"], f, pop)]
  BY DEF Previews
<1> DEFINE a == preview_entry(panes["side"], f, side)
           b == IF ~quick THEN panes["quick"]
                ELSE IF f = None THEN hideEvent(panes["quick"])
                ELSE preview_entry(panes["quick"], f, pop)
<1>2. \A p \in Pane : PaneInv(panes[p]) /\ PaneCurrent(panes[p])
  BY DEF PanesInv
<1>3. "side" \in Pane /\ "quick" \in Pane
  BY DEF Pane
<1>4. PaneInv(a) /\ PaneCurrent(a)
  BY <1>2, <1>3, EntryPane
<1>5. PaneInv(b) /\ PaneCurrent(b)
  BY <1>2, <1>3, EntryPane, ClearedPane
<1>6. panes' = [side |-> a, quick |-> b]
  BY <1>1
<1> HIDE DEF a, b
<1>7. a \in PaneState /\ b \in PaneState
  BY <1>4, <1>5, Zenon DEF PaneInv
<1>8. panes' \in [Pane -> PaneState] /\ panes'["side"] = a /\ panes'["quick"] = b
  BY <1>6, <1>7 DEF Pane
<1>9. \A p \in Pane : PaneInv(panes'[p]) /\ PaneCurrent(panes'[p])
  BY <1>4, <1>5, <1>8 DEF Pane
<1> QED
  BY <1>8, <1>9, Zenon DEF PanesInv

\* The file in a row that a view shows is a file.
LEMMA RowIsFile ==
    ASSUME RowsInv, NEW t \in Tab, NEW sel \in SUBSET Rows(t, mode[t]), sel # {}
    PROVE  Row(t, mode[t], Min(sel)) \in File
<1>1. results[t] \in Seq(File) /\ columns[t] \in Seq(File) /\ loaded[t] \in Nat
      /\ loaded[t] <= Len(results[t])
  BY DEF RowsInv
<1>2. \A i \in Rows(t, mode[t]) : i \in Nat /\ Row(t, mode[t], i) \in File
  BY <1>1 DEF Rows, Row
<1>3. Min(sel) \in sel
  BY <1>2, LeastOf
<1> QED
  BY <1>2, <1>3

\* Every step keeps the panes' promises.
LEMMA PanesStep ==
    ASSUME RowsInv, SelectionHeld, PanesInv, [Next]_vars
    PROVE  PanesInv'
<1> USE DEF vars
<1>1. CASE UNCHANGED panes
  BY <1>1, Zenon DEF PanesInv
<1>2. CASE PaneStep
  BY <1>2, PreviewStepKeeps, Zenon DEF PaneStep
<1>3. ASSUME NEW t \in Tab, _on_selection_changed(t) PROVE PanesInv'
  <2>1. PICK sel \in {{}, Rows(t, mode[t])} \cup {{i} : i \in Rows(t, mode[t])} :
            Previews(IF sel = {} THEN None ELSE Row(t, mode[t], Min(sel)))
    BY <1>3, Zenon DEF _on_selection_changed
  <2>2. sel \in SUBSET Rows(t, mode[t])
    BY <2>1
  <2>3. sel # {} => Row(t, mode[t], Min(sel)) \in File
    BY <2>2, RowIsFile
  <2> DEFINE f == IF sel = {} THEN None ELSE Row(t, mode[t], Min(sel))
  <2>4. f \in File \cup {None}
    BY <2>3
  <2>5. Previews(f)
    BY <2>1, Zenon
  <2> HIDE DEF f
  <2> QED
    BY <2>4, <2>5, PreviewsKeep
<1>4. ASSUME NEW t \in Tab, _toggle_quick_preview(t) PROVE PanesInv'
  <2>1. "quick" \in Pane /\ PaneInv(panes["quick"])
    BY DEF Pane, PanesInv
  <2>2. CASE panes' = [panes EXCEPT !["quick"] = hideEvent(@)]
    BY <2>1, <2>2, ClearedPane, OnePane
  <2>3. CASE /\ Selected(t) # {}
             /\ \E how \in Finds(panes["quick"]) :
                   panes' = [panes EXCEPT !["quick"] =
                                 preview_entry(@, Row(t, mode[t], Min(Selected(t))), how)]
    <3> DEFINE f == Row(t, mode[t], Min(Selected(t)))
    <3>1. t \in tabs /\ mode[t] \in View
      BY <1>4 DEF _toggle_quick_preview, RowsInv
    <3>2. Selected(t) \in SUBSET Rows(t, mode[t])
      BY <3>1 DEF SelectionHeld, Selected
    <3>3. f \in File \cup {None}
      BY <2>3, <3>2, RowIsFile
    <3>4. PICK how \in Finds(panes["quick"]) :
              panes' = [panes EXCEPT !["quick"] = preview_entry(panes["quick"], f, how)]
      BY <2>3
    <3> HIDE DEF f
    <3>5. /\ PaneInv(preview_entry(panes["quick"], f, how))
          /\ PaneCurrent(preview_entry(panes["quick"], f, how))
      BY <2>1, <3>3, EntryPane
    <3> QED
      BY <2>1, <3>4, <3>5, OnePane
  <2> QED
    BY <1>4, <2>2, <2>3 DEF _toggle_quick_preview
<1>5. ASSUME NEW t \in Tab,
             _on_search_results(t) \/ fetchMore(t) \/ sort(t) \/ _set_view_mode(t)
             \/ _add_new_tab(t) \/ _on_tab_changed(t) \/ _close_tab(t)
             \/ _on_delete_requested(t)
      PROVE  PanesInv'
  <2>1. UNCHANGED panes
    BY <1>5, Zenon DEF _on_search_results, fetchMore, sort, Sorted, _set_view_mode,
        _add_new_tab, _on_tab_changed, _close_tab, _on_delete_requested
  <2> QED
    BY <1>1, <2>1
<1>6. CASE _on_delete_completed \/ (\E j \in jobs : _delete_to_recycle(j)) \/ UNCHANGED vars
  <2>1. UNCHANGED panes
    BY <1>6, Zenon DEF _delete_to_recycle, _on_delete_completed, _remove_deleted_result_paths
  <2> QED
    BY <1>1, <2>1
<1> QED
  BY <1>2, <1>3, <1>4, <1>5, <1>6, Zenon DEF Next, TabStep

-----------------------------------------------------------------------------
ResultsInv == RowsInv /\ SelectionHeld /\ DeletedLeave /\ CountShown /\ PanesInv

\* Nothing is selected, shown or running at the start.
LEMMA ResultsStart == Init => ResultsInv
<1> SUFFICES ASSUME Init PROVE ResultsInv
  OBVIOUS
<1> USE DEF Init
<1>1. RowsInv
  <2>1. NoRows \in [View -> SUBSET Nat] /\ NoRows \in [View -> SUBSET File]
    BY DEF NoRows
  <2>2. results \in [Tab -> Seq(File)] /\ columns \in [Tab -> Seq(File)]
    OBVIOUS
  <2>3. loaded \in [Tab -> Nat] /\ mode \in [Tab -> View] /\ quick \in BOOLEAN
    BY DEF View
  <2>4. /\ selected \in [Tab -> [View -> SUBSET Nat]]
        /\ chosen \in [Tab -> [View -> SUBSET File]] /\ fresh \in [Tab -> SUBSET File]
    BY <2>1
  <2>5. \A t \in Tab : Distinct(results[t]) /\ loaded[t] <= Len(results[t])
    BY DEF Distinct
  <2>6. tabs \subseteq Tab /\ current \in tabs
    OBVIOUS
  <2> QED
    BY <2>2, <2>3, <2>4, <2>5, <2>6, Zenon DEF RowsInv
<1>2. SelectionHeld
  BY DEF SelectionHeld, NoRows
<1>3. DeletedLeave /\ CountShown
  BY DEF DeletedLeave, CountShown
<1>4. PanesInv
  <2>1. /\ Nothing \in PaneState /\ Nothing.threads = {} /\ Nothing.pending = {}
        /\ Nothing.posted = <<>> /\ Nothing.path = None
    BY DEF Nothing, PaneState
  <2>2. Finished(Nothing) = {}
    BY <2>1 DEF Finished
  <2>3. PaneInv(Nothing)
    BY <2>1, <2>2, FS_EmptySet DEF PaneInv
  <2>4. PaneCurrent(Nothing)
    BY <2>1 DEF PaneCurrent
  <2> QED
    BY <2>1, <2>3, <2>4 DEF PanesInv
<1> QED
  BY <1>1, <1>2, <1>3, <1>4 DEF ResultsInv

\* The invariant is inductive.
LEMMA ResultsKept == Spec => []ResultsInv
<1>1. ResultsInv /\ [Next]_vars => ResultsInv'
  BY RowsStep, SelectionStep, DeletedStep, CountStep, PanesStep, Zenon DEF ResultsInv
<1> QED
  BY <1>1, ResultsStart, PTL DEF Spec

\* Whatever is selected, previewed, sorted and deleted while loaders end late or after
\* the pane has gone on, no loader thread runs without the reference that Qt needs.
THEOREM LoadersAreReferenced == Spec => []RunningReferenced
<1>1. ResultsInv => RunningReferenced
  BY DEF ResultsInv, PanesInv, PaneInv, RunningReferenced
<1> QED
  BY <1>1, ResultsKept, PTL

\* A pane with a file shows that file or nothing yet.
THEOREM PanesShowTheirFile == Spec => []PreviewCurrent
<1>1. ResultsInv => PreviewCurrent
  BY DEF ResultsInv, PanesInv, PaneCurrent, PreviewCurrent
<1> QED
  BY <1>1, ResultsKept, PTL

\* The files of the selected rows, which Delete, Enter and the context menu take, are
\* those the user selected.
THEOREM SelectionIsTheUsers == Spec => []SelectionHeld
<1>1. ResultsInv => SelectionHeld
  BY DEF ResultsInv
<1> QED
  BY <1>1, ResultsKept, PTL

\* Deleted files leave every tab, and the count shown is that of the current tab.
THEOREM DeletedFilesLeave == Spec => []ResultsShown
<1>1. ResultsInv => ResultsShown
  BY DEF ResultsInv, ResultsShown
<1> QED
  BY <1>1, ResultsKept, PTL
=============================================================================

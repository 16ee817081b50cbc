---------------------------- MODULE UsnSyncProofs ----------------------------
(***************************************************************************)
(* Proofs about UsnSync for any files, bounds and buffer size.  In either  *)
(* order of events: the types, and that the rows are the entries whenever  *)
(* no batch is in flight and none has failed, though IndexWorker and the   *)
(* event loop may apply batches at the same time.  In the service's order  *)
(* (Concurrent = FALSE) and in the GUI's first run: no change record is    *)
(* dropped, and the checkpoint passes no change the rows lack but for the  *)
(* causes gap records.  In the service's order the checkpoint never goes   *)
(* back within a journal.                                                  *)
(***************************************************************************)
EXTENDS UsnSync, TLAPS, WellFoundedInduction, SequenceTheorems

\* A nonempty set of integers that ends at hi has a maximum.
LEMMA MaxOfInterval ==
    ASSUME NEW lo \in Int, NEW hi \in Int, NEW S \in SUBSET (lo..hi), S # {}
    PROVE  Max(S) \in S /\ \A y \in S : Max(S) >= y
<1> DEFINE T == {hi - x : x \in S}
<1>1. PICK s \in S : TRUE
  OBVIOUS
<1>2. \A x \in S : x \in Int /\ x <= hi
  OBVIOUS
<1>3. T \in SUBSET Nat
  BY <1>2
<1>4. T # {}
  BY <1>1
<1> HIDE DEF T
<1>5. PICK m \in T : \A y \in T : m <= y
  <2> DEFINE Less == OpToRel(<, Nat)
  <2>1. IsWellFoundedOn(Less, Nat)
    BY NatLessThanWellFounded, Zenon DEF Less
  <2>2. ASSUME NEW a \in Nat, NEW b \in Nat, a < b
        PROVE  <<a, b>> \in Less
    <3>1. <<a, b>> \in Nat \X Nat /\ <<a, b>>[1] < <<a, b>>[2]
      BY <2>2
    <3> QED
      BY <3>1, Zenon DEF Less, OpToRel
  <2> HIDE DEF Less
  <2>3. PICK m \in T : \A y \in T : ~(<<y, m>> \in Less)
    BY <1>3, <1>4, <2>1, WFMin, Zenon
  <2>4. \A y \in T : m <= y
    <3> TAKE y \in T
    <3>1. y \in Nat /\ m \in Nat
      BY <1>3
    <3>2. ~(y < m)
      BY <2>2, <2>3, <3>1, Zenon
    <3> QED
      BY <3>1, <3>2
  <2> QED
    BY <2>4
<1>6. PICK x \in S : m = hi - x
  BY <1>5 DEF T
<1>7. \A y \in S : x >= y
  <2> TAKE y \in S
  <2>1. hi - y \in T
    BY DEF T
  <2> QED
    BY <1>2, <1>5, <1>6, <2>1
<1> QED
  BY <1>7 DEF Max

\* A pair of integers has a minimum.
LEMMA MinOfPair ==
    ASSUME NEW a \in Int, NEW b \in Int
    PROVE  /\ Min({a, b}) \in {a, b}
           /\ Min({a, b}) <= a
           /\ Min({a, b}) <= b
<1>1. \E x \in {a, b} : \A y \in {a, b} : x =< y
  OBVIOUS
<1> QED
  BY <1>1 DEF Min

\* The latest record of a file is in the journal and none of its records is later.
LEMMA LatestBounds ==
    ASSUME log \in Seq(File \cup {Noise}), NEW f \in File
    PROVE  /\ Latest(f) \in 0..Len(log)
           /\ \A i \in 1..Len(log) : log[i] = f => i <= Latest(f)
<1> DEFINE S == {0} \cup Touches(f, 1, Len(log))
<1>1. S \in SUBSET (0..Len(log)) /\ S # {}
  BY DEF Touches
<1>2. Max(S) \in S /\ \A y \in S : Max(S) >= y
  <2>1. 0 \in Int /\ Len(log) \in Int
    OBVIOUS
  <2> HIDE DEF S
  <2> QED
    BY <1>1, <2>1, MaxOfInterval, Zenon
<1>3. \A i \in 1..Len(log) : log[i] = f => i \in S
  BY DEF Touches
<1> QED
  BY <1>1, <1>2, <1>3 DEF Latest

\* Applying the records lo..hi moves a file to its last record among them, and
\* leaves a file without one alone.
LEMMA ReplayBounds ==
    ASSUME NEW v \in Image, NEW lo \in Nat, NEW hi \in Nat
    PROVE  /\ Replay(v, lo, hi) \in Image
           /\ \A f \in File : Replay(v, lo, hi)[f] = v[f] \/ Replay(v, lo, hi)[f] >= lo
           /\ \A i \in lo..hi : log[i] \in File => Replay(v, lo, hi)[log[i]] >= i
<1>1. ASSUME NEW f \in File, Touches(f, lo, hi) # {}
      PROVE  /\ Max(Touches(f, lo, hi)) \in lo..hi
             /\ \A i \in Touches(f, lo, hi) : Max(Touches(f, lo, hi)) >= i
  <2>1. Touches(f, lo, hi) \in SUBSET (lo..hi)
    BY DEF Touches
  <2>2. lo \in Int /\ hi \in Int
    OBVIOUS
  <2>3. /\ Max(Touches(f, lo, hi)) \in Touches(f, lo, hi)
        /\ \A i \in Touches(f, lo, hi) : Max(Touches(f, lo, hi)) >= i
    BY <1>1, <2>1, <2>2, MaxOfInterval, Zenon
  <2> QED
    BY <2>1, <2>3
<1>2. \A f \in File : Replay(v, lo, hi)[f] = IF Touches(f, lo, hi) = {}
                                            THEN v[f]
                                            ELSE Max(Touches(f, lo, hi))
  BY DEF Replay
<1>3. \A f \in File : v[f] \in Nat
  BY DEF Image
<1>4. \A f \in File : Replay(v, lo, hi)[f] \in Nat
  BY <1>1, <1>2, <1>3
<1>5. Replay(v, lo, hi) \in Image
  BY <1>4 DEF Image, Replay
<1>6. \A f \in File : Replay(v, lo, hi)[f] = v[f] \/ Replay(v, lo, hi)[f] >= lo
  BY <1>1, <1>2
<1>7. \A i \in lo..hi : log[i] \in File => i \in Touches(log[i], lo, hi)
  BY DEF Touches
<1>8. \A i \in lo..hi : log[i] \in File => Replay(v, lo, hi)[log[i]] >= i
  BY <1>1, <1>2, <1>7
<1> QED
  BY <1>5, <1>6, <1>8

\* A read that returns records returns some from its position on, none beyond
\* the end of the journal.
LEMMA ReadSpanBounds ==
    ASSUME log \in Seq(File \cup {Noise}), NEW n \in Nat, n < NextUsn
    PROVE  /\ ReadSpan(n) \in Span
           /\ ReadSpan(n).lo = n
           /\ n <= ReadSpan(n).hi /\ ReadSpan(n).hi <= Len(log)
<1>1. Len(log) \in Nat /\ n <= Len(log)
  BY DEF NextUsn
<1>2. Buf \in Nat \ {0}
  BY UsnSyncAssumption
<1>3. n + Buf - 1 \in Nat /\ n <= n + Buf - 1
  BY <1>2
<1>4. Len(log) \in Int /\ n + Buf - 1 \in Int
  BY <1>1, <1>3
<1> DEFINE m == Min({Len(log), n + Buf - 1})
<1>5. m \in {Len(log), n + Buf - 1} /\ m <= Len(log)
  BY <1>4, MinOfPair, Zenon
<1>6. ReadSpan(n) = [lo |-> n, hi |-> m]
  BY DEF ReadSpan
<1> HIDE DEF m
<1> QED
  BY <1>1, <1>3, <1>5, <1>6 DEF Span

-----------------------------------------------------------------------------
\* The three steps of the volume, and what they leave alone.
LEMMA VolumeStep ==
    ASSUME TypeOK, Volume
    PROVE  /\ DiskOK'
           /\ jid' >= jid /\ Len(log') >= Len(log) /\ NextUsn' >= NextUsn
           /\ \A i \in 1..Len(log) : log'[i] = log[i]
           /\ UNCHANGED <<store, scanner, vol, mem, queue, mon, worker, stage,
                          batch, saved, runs, start, lost, behind>>
<1> USE DEF TypeOK, DiskOK, NextUsn
<1>1. ASSUME NEW r \in File \cup {Noise}, ChangeFile(r) PROVE DiskOK'
  BY <1>1 DEF ChangeFile
<1>2. CASE PurgeJournal
  BY <1>2 DEF PurgeJournal
<1>3. CASE RecreateJournal
  BY <1>3 DEF RecreateJournal
<1>4. ASSUME NEW r \in File \cup {Noise}, ChangeFile(r)
      PROVE  /\ jid' >= jid /\ Len(log') >= Len(log) /\ NextUsn' >= NextUsn
             /\ \A i \in 1..Len(log) : log'[i] = log[i]
  BY <1>4 DEF ChangeFile
<1>5. ASSUME NEW r \in File \cup {Noise}, ChangeFile(r)
      PROVE  UNCHANGED <<store, scanner, vol, mem, queue, mon, worker, stage,
                         batch, saved, runs, start, lost, behind>>
  BY <1>5 DEF ChangeFile
<1> QED
  BY <1>1, <1>2, <1>3, <1>4, <1>5 DEF Volume, PurgeJournal, RecreateJournal

\* Every step that is not the volume's leaves the disk alone.
LEMMA DiskFrame == Next => Volume \/ UNCHANGED <<log, first, jid>>
BY DEF Next, Indexing, Applying, Monitoring, disk, LoadFromCache,
   IndexAllDrives, OpenVolume, QueryJournal, CatchupRead, CatchupReadEnds,
   ScanFile, InstallReindex, FullScanEnds, InstallFullIndex, ApplyCatchup,
   SaveAfterIndexing, ApplyQueued, db_batch_apply, _persist_usn_checkpoints,
   start_monitoring, MonitorRead, MonitorReadEnds, MonitorEmit, MonitorRequery,
   SaveOnRequest, Quit, Crash

\* No step breaks the journal: positions only grow and FirstUsn stays within it.
LEMMA DiskStep == TypeOK /\ Next => DiskOK'
BY DiskFrame, VolumeStep DEF TypeOK, DiskOK, NextUsn

\* No open, query or read moves the cursor past the end of the journal.
LEMMA VolStep == TypeOK /\ Next => VolOK'
<1> SUFFICES ASSUME TypeOK, Next PROVE VolOK'
  OBVIOUS
<1> USE DEF TypeOK, DiskOK, disk, store, scanner, VolOK, EndPositions, NextUsn
<1>1. Volume \/ OpenVolume \/ QueryJournal \/ CatchupRead \/
             CatchupReadEnds \/ FullScanEnds \/ MonitorReadEnds \/
             MonitorRequery \/ Quit \/ Crash \/ UNCHANGED <<log,
             first, jid, vol>>
  BY DEF Next, Indexing, Applying, Monitoring, disk, store, scanner,
     LoadFromCache, IndexAllDrives, ScanFile, InstallReindex,
     InstallFullIndex, ApplyCatchup, SaveAfterIndexing, ApplyQueued,
     db_batch_apply, _persist_usn_checkpoints, start_monitoring, MonitorRead,
     MonitorEmit, SaveOnRequest
<1>a. Len(log) \in Nat /\ jid \in Nat /\ jid > 0
  OBVIOUS
<1>b. ASSUME NEW n \in 0..jid, NEW m \in 0..(Len(log) + 1),
             vol' = [open |-> TRUE, id |-> n, cursor |-> m],
             UNCHANGED <<log, first, jid>>
      PROVE  VolOK'
  BY <1>b
<1>2. CASE Volume
  BY <1>2, VolumeStep DEF store, scanner
<1>3. CASE OpenVolume
  <2>1. vol' = vol \/ vol' = [open |-> TRUE, id |-> 0, cursor |-> 0]
    BY <1>3 DEF OpenVolume
  <2>2. UNCHANGED <<log, first, jid>>
    BY <1>3 DEF OpenVolume
  <2>3. 0 \in 0..jid /\ 0 \in 0..(Len(log) + 1)
    BY <1>a
  <2> QED
    BY <1>b, <2>1, <2>2, <2>3
<1>4. CASE QueryJournal
  <2>1. vol' = vol \/ vol' = [open |-> TRUE, id |-> jid, cursor |-> NextUsn]
    BY <1>4 DEF QueryJournal, Queried
  <2>2. UNCHANGED <<log, first, jid>>
    BY <1>4 DEF QueryJournal
  <2>3. /\ 0 \in 0..jid /\ 0 \in 0..(Len(log) + 1)
        /\ jid \in 0..jid /\ Len(log) + 1 \in 0..(Len(log) + 1)
    BY <1>a
  <2> QED
    BY <1>b, <2>1, <2>2, <2>3
<1>5. CASE CatchupRead
  BY <1>5 DEF CatchupRead, CursorAt, ResumePoint, PositionsOK, Position
<1>6. CASE CatchupReadEnds
  BY <1>6 DEF CatchupReadEnds, CursorAt, Continuation, TransitOK, Span, Thread
<1>7. CASE FullScanEnds
  <2>1. \/ vol' = [open |-> TRUE, id |-> 0, cursor |-> 0]
        \/ vol' = [open |-> TRUE, id |-> jid, cursor |-> NextUsn]
    BY <1>7 DEF FullScanEnds, Queried
  <2>2. UNCHANGED <<log, first, jid>>
    BY <1>7 DEF FullScanEnds
  <2>3. /\ 0 \in 0..jid /\ 0 \in 0..(Len(log) + 1)
        /\ jid \in 0..jid /\ Len(log) + 1 \in 0..(Len(log) + 1)
    BY <1>a
  <2> QED
    BY <1>b, <2>1, <2>2, <2>3
<1>8. CASE MonitorReadEnds
  BY <1>8 DEF MonitorReadEnds, CursorAt, Continuation, TransitOK, Span
<1>9. CASE MonitorRequery
  <2>1. vol' = vol \/ vol' = [open |-> TRUE, id |-> jid, cursor |-> NextUsn]
    BY <1>9 DEF MonitorRequery, Queried
  <2>2. UNCHANGED <<log, first, jid>>
    BY <1>9 DEF MonitorRequery
  <2>3. /\ 0 \in 0..jid /\ 0 \in 0..(Len(log) + 1)
        /\ jid \in 0..jid /\ Len(log) + 1 \in 0..(Len(log) + 1)
    BY <1>a
  <2> QED
    BY <1>b, <2>1, <2>2, <2>3
<1>10. CASE Quit
  BY <1>10 DEF Quit, Vanish, Closed
<1>11. CASE Crash
  BY <1>11 DEF Crash, Vanish, Closed
<1>12. CASE UNCHANGED <<log, first, jid, vol>>
  BY <1>12
<1> QED
  BY <1>1, <1>2, <1>3, <1>4, <1>5, <1>6, <1>7, <1>8, <1>9, <1>10, <1>11, <1>12

\* Every load, replay, scan, install and save leaves well-formed index images.
LEMMA ImagesStep == TypeOK /\ Next => ImagesOK'
<1> SUFFICES ASSUME TypeOK, Next PROVE ImagesOK'
  OBVIOUS
<1> USE DEF TypeOK, DiskOK, disk, store, scanner, ImagesOK, Image, Blank,
   SaveRows, Vanish
<1>1. Volume \/ LoadFromCache \/ IndexAllDrives \/ QueryJournal \/
             CatchupRead \/ (\E f \in File : ScanFile(f)) \/
             InstallReindex \/ InstallFullIndex \/ ApplyCatchup \/
             SaveAfterIndexing \/ ApplyQueued \/ (\E t \in Thread
             : db_batch_apply(t)) \/ SaveOnRequest \/ Quit \/
             Crash \/ UNCHANGED <<log, first, jid, mem, db, scan>>
  BY DEF Next, Indexing, Applying, Monitoring, disk, store, scanner,
     OpenVolume, CatchupReadEnds, FullScanEnds, _persist_usn_checkpoints,
     start_monitoring, MonitorRead, MonitorReadEnds, MonitorEmit,
     MonitorRequery
<1>2. CASE Volume
  BY <1>2, VolumeStep DEF store, scanner
<1>3. CASE LoadFromCache
  BY <1>3 DEF LoadFromCache
<1>4. CASE IndexAllDrives
  BY <1>4 DEF IndexAllDrives
<1>5. CASE QueryJournal
  BY <1>5 DEF QueryJournal
<1>6. CASE CatchupRead
  BY <1>6 DEF CatchupRead
<1>7. ASSUME NEW f \in File, ScanFile(f) PROVE ImagesOK'
  BY <1>7, LatestBounds DEF ScanFile
<1>8. CASE InstallReindex
  BY <1>8 DEF InstallReindex
<1>9. CASE InstallFullIndex
  BY <1>9 DEF InstallFullIndex
<1>10. CASE ApplyCatchup
  BY <1>10, ReplayBounds DEF ApplyCatchup, TransitOK, Span, Thread
<1>11. CASE SaveAfterIndexing
  BY <1>11 DEF SaveAfterIndexing
<1>12. CASE ApplyQueued
  <2>1. Head(queue) \in Span
    BY <1>12, HeadTailProperties DEF ApplyQueued, TransitOK
  <2>2. mem' \in Image
    BY <1>12, <2>1, ReplayBounds, Zenon DEF ApplyQueued, Span
  <2> QED
    BY <1>12, <2>2 DEF ApplyQueued
<1>13. ASSUME NEW t \in Thread, db_batch_apply(t) PROVE ImagesOK'
  BY <1>13 DEF db_batch_apply
<1>14. CASE SaveOnRequest
  BY <1>14 DEF SaveOnRequest
<1>15. CASE Quit
  BY <1>15 DEF Quit
<1>16. CASE Crash
  BY <1>16 DEF Crash
<1>17. CASE UNCHANGED <<log, first, jid, mem, db, scan>>
  BY <1>17
<1> QED
  BY <1>1, <1>2, <1>3, <1>4, <1>5, <1>6, <1>7, <1>8, <1>9, <1>10, <1>11,
     <1>12, <1>13, <1>14, <1>15, <1>16, <1>17

\* Every batch read, queued or being applied lies within the journal.
LEMMA TransitStep == TypeOK /\ Next => TransitOK'
<1> SUFFICES ASSUME TypeOK, Next PROVE TransitOK'
  OBVIOUS
<1> USE DEF TypeOK, DiskOK, disk, store, scanner, TransitOK, NoSpan, Span,
   Thread, Vanish, VolOK
<1>1. Volume \/ CatchupRead \/ ApplyQueued \/ start_monitoring \/
             MonitorRead \/ MonitorReadEnds \/ MonitorEmit \/ MonitorRequery \/ Quit
             \/ Crash \/ UNCHANGED <<log, first, jid, queue, mon,
             batch>>
  BY DEF Next, Indexing, Applying, Monitoring, disk, store, scanner,
     LoadFromCache, IndexAllDrives, OpenVolume, QueryJournal,
     CatchupReadEnds, ScanFile, InstallReindex, FullScanEnds,
     InstallFullIndex, ApplyCatchup, SaveAfterIndexing, db_batch_apply,
     _persist_usn_checkpoints, SaveOnRequest
<1>2. CASE Volume
  BY <1>2, VolumeStep DEF store, scanner
<1>3. CASE CatchupRead
  BY <1>3, ReadSpanBounds, SMTT(30) DEF CatchupRead, Readable, ResumePoint,
     PositionsOK, Position, EndPositions, NextUsn
<1>4. CASE ApplyQueued
  BY <1>4, HeadTailProperties DEF ApplyQueued
<1>5. CASE start_monitoring
  BY <1>5 DEF start_monitoring
<1>6. CASE MonitorRead
  BY <1>6, ReadSpanBounds DEF MonitorRead, Readable, EndPositions, NextUsn
<1>7. CASE MonitorEmit
  <2>0. ASSUME NEW S, NEW q \in Seq(S), NEW x \in S PROVE Append(q, x) \in Seq(S)
    OBVIOUS
  <2>1. queue' \in Seq(Span)
    <3>1. mon.span \in Span /\ queue \in Seq(Span)
      OBVIOUS
    <3>2. queue' = queue \/ queue' = Append(queue, mon.span)
      BY <1>7 DEF MonitorEmit
    <3>3. Append(queue, mon.span) \in Seq(Span)
      BY <2>0, <3>1, Zenon
    <3> QED
      BY <3>1, <3>2, <3>3, Zenon
  <2> QED
    BY <1>7, <2>1 DEF MonitorEmit
<1>12. CASE MonitorReadEnds
  BY <1>12 DEF MonitorReadEnds
<1>8. CASE MonitorRequery
  BY <1>8 DEF MonitorRequery
<1>9. CASE Quit
  BY <1>9 DEF Quit
<1>10. CASE Crash
  BY <1>10 DEF Crash
<1>11. CASE UNCHANGED <<log, first, jid, queue, mon, batch>>
  BY <1>11
<1> QED
  BY <1>1, <1>2, <1>3, <1>4, <1>5, <1>6, <1>7, <1>8, <1>9, <1>10, <1>11, <1>12

\* No saved or stored position passes the end of the journal.
LEMMA PositionsStep == TypeOK /\ Next => PositionsOK'
<1> SUFFICES ASSUME TypeOK, Next PROVE PositionsOK'
  OBVIOUS
<1> USE DEF TypeOK, DiskOK, disk, store, scanner, PositionsOK, EndPositions,
   NextUsn, Position, NoPosition, SaveRows, VolPosition, Vanish, VolOK
<1>1. Volume \/ LoadFromCache \/ CatchupRead \/ InstallReindex \/
             FullScanEnds \/ MonitorRequery \/ SaveAfterIndexing
             \/ (\E t \in Thread : _persist_usn_checkpoints(t)) \/
             SaveOnRequest \/ Quit \/ Crash \/ UNCHANGED <<log,
             first, jid, saved, ckpt, start>>
  BY DEF Next, Indexing, Applying, Monitoring, disk, store, scanner,
     IndexAllDrives, OpenVolume, QueryJournal, CatchupReadEnds, ScanFile,
     InstallFullIndex, ApplyCatchup, ApplyQueued, db_batch_apply,
     start_monitoring, MonitorRead, MonitorReadEnds, MonitorEmit
<1>2. CASE Volume
  BY <1>2, VolumeStep DEF store, scanner
<1>3. CASE LoadFromCache
  BY <1>3 DEF LoadFromCache
<1>4. CASE CatchupRead
  BY <1>4 DEF CatchupRead
<1>5. CASE InstallReindex
  BY <1>5 DEF InstallReindex
<1>6. CASE FullScanEnds
  BY <1>6 DEF FullScanEnds
<1>7. CASE MonitorRequery
  BY <1>7 DEF MonitorRequery
<1>8. CASE SaveAfterIndexing
  BY <1>8 DEF SaveAfterIndexing
<1>9. ASSUME NEW t \in Thread, _persist_usn_checkpoints(t) PROVE PositionsOK'
  BY <1>9 DEF _persist_usn_checkpoints
<1>10. CASE SaveOnRequest
  BY <1>10 DEF SaveOnRequest
<1>11. CASE Quit
  BY <1>11 DEF Quit
<1>12. CASE Crash
  BY <1>12 DEF Crash
<1>13. CASE UNCHANGED <<log, first, jid, saved, ckpt, start>>
  BY <1>13
<1> QED
  BY <1>1, <1>2, <1>3, <1>4, <1>5, <1>6, <1>7, <1>8, <1>9, <1>10, <1>11,
     <1>12, <1>13

\* The threads stay within their control states.
LEMMA ControlStep == TypeOK /\ Next => ControlOK'
<1> SUFFICES ASSUME TypeOK, Next PROVE ControlOK'
  OBVIOUS
<1> USE DEF TypeOK, ControlOK, Next, Indexing, Applying, Monitoring, scanner,
            Vanish, Thread
<1>1. worker' \in {"off", "open", "query", "read", "got", "apply", "scan",
                   "fullscan", "install", "done", "finished"}
  BY VolumeStep DEF LoadFromCache, IndexAllDrives, OpenVolume, QueryJournal,
     CatchupRead, CatchupReadEnds, ScanFile, InstallReindex, FullScanEnds,
     InstallFullIndex, ApplyCatchup, SaveAfterIndexing, ApplyQueued,
     db_batch_apply, _persist_usn_checkpoints, start_monitoring, MonitorRead,
     MonitorReadEnds, MonitorEmit, MonitorRequery, SaveOnRequest, Quit, Crash
<1>2. stage' \in [Thread -> {"idle", "rows", "checkpoint"}]
  BY VolumeStep DEF LoadFromCache, IndexAllDrives, OpenVolume, QueryJournal,
     CatchupRead, CatchupReadEnds, ScanFile, InstallReindex, FullScanEnds,
     InstallFullIndex, ApplyCatchup, SaveAfterIndexing, ApplyQueued,
     db_batch_apply, _persist_usn_checkpoints, start_monitoring, MonitorRead,
     MonitorReadEnds, MonitorEmit, MonitorRequery, SaveOnRequest, Quit, Crash
<1>3. todo' \subseteq File
  BY VolumeStep DEF LoadFromCache, IndexAllDrives, OpenVolume, QueryJournal,
     CatchupRead, CatchupReadEnds, ScanFile, InstallReindex, FullScanEnds,
     InstallFullIndex, ApplyCatchup, SaveAfterIndexing, ApplyQueued,
     db_batch_apply, _persist_usn_checkpoints, start_monitoring, MonitorRead,
     MonitorReadEnds, MonitorEmit, MonitorRequery, SaveOnRequest, Quit, Crash
<1>4. runs' = runs \/ runs' = runs + 1
  BY VolumeStep DEF LoadFromCache, IndexAllDrives, OpenVolume, QueryJournal,
     CatchupRead, CatchupReadEnds, ScanFile, InstallReindex, FullScanEnds,
     InstallFullIndex, ApplyCatchup, SaveAfterIndexing, ApplyQueued,
     db_batch_apply, _persist_usn_checkpoints, start_monitoring, MonitorRead,
     MonitorReadEnds, MonitorEmit, MonitorRequery, SaveOnRequest, Quit, Crash
<1> QED
  BY <1>1, <1>2, <1>3, <1>4

\* The stored row's presence and the history flags stay Boolean.
LEMMA FlagsStep == TypeOK /\ Next => FlagsOK'
BY VolumeStep DEF TypeOK, FlagsOK, Next, Indexing, Applying, Monitoring, store,
   SaveRows, Indexed, Vanish, LoadFromCache, IndexAllDrives, OpenVolume,
   QueryJournal, CatchupRead, CatchupReadEnds, ScanFile, InstallReindex,
   FullScanEnds, InstallFullIndex, ApplyCatchup, SaveAfterIndexing,
   ApplyQueued, db_batch_apply, _persist_usn_checkpoints, start_monitoring,
   MonitorRead, MonitorReadEnds, MonitorEmit, MonitorRequery, SaveOnRequest,
   Quit, Crash

\* The program starts, and a volume starts, well typed.
LEMMA TypeInit == Init => TypeOK
<1> SUFFICES ASSUME Init PROVE TypeOK
  OBVIOUS
<1> USE DEF Init, Down, NextUsn, EndPositions, NoSpan, NoPosition, Span,
   Position, Thread
<1>1. log \in Seq(File \cup {Noise}) /\ Len(log) = 0
  OBVIOUS
<1>2. DiskOK /\ VolOK
  BY <1>1 DEF DiskOK, VolOK, Closed
<1>3. ImagesOK
  BY DEF ImagesOK, Blank, Image
<1>4. TransitOK
  <2>1. queue \in Seq(Span)
    OBVIOUS
  <2>2. mon \in [pc : {"off", "poll", "got", "wrapped"}, span : Span]
    OBVIOUS
  <2>3. batch \in [Thread -> Span]
    OBVIOUS
  <2> QED
    BY <1>1, <2>1, <2>2, <2>3 DEF TransitOK
<1>5. ControlOK
  BY DEF ControlOK
<1>6. PositionsOK
  <2>1. EndPositions = 0..1
    BY <1>1
  <2>2. saved = [id |-> 0, usn |-> 0] /\ ckpt = [id |-> 0, usn |-> 0] /\ start = 1
    OBVIOUS
  <2> QED
    BY <2>1, <2>2 DEF PositionsOK
<1>7. FlagsOK
  BY DEF FlagsOK
<1> QED
  BY <1>2, <1>3, <1>4, <1>5, <1>6, <1>7 DEF TypeOK

\* Every step of the volume and of the program's threads keeps the types.
LEMMA TypeStep == TypeOK /\ [Next]_vars => TypeOK'
<1>1. CASE Next
  BY <1>1, DiskStep, VolStep, ImagesStep, TransitStep, ControlStep,
     PositionsStep, FlagsStep DEF TypeOK
<1>2. CASE UNCHANGED vars
  BY <1>2 DEF vars, disk, store, scanner, TypeOK, DiskOK, VolOK, ImagesOK,
     TransitOK, ControlOK, PositionsOK, FlagsOK, EndPositions, NextUsn
<1> QED
  BY <1>1, <1>2

\* In every behaviour no cursor, checkpoint or saved position passes the end of
\* the journal, and every image and batch is well formed.
THEOREM TypeCorrect == Spec => []TypeOK
BY TypeInit, TypeStep, PTL DEF Spec

-----------------------------------------------------------------------------
(* Rows and entries *)

\* What threads hold of the journal has been written.
InLog(span) == 1 <= span.lo /\ span.hi <= Len(log)
SpansInLog == /\ InLog(mon.span)
              /\ \A t \in Thread : InLog(batch[t])
              /\ \A k \in DOMAIN queue : InLog(queue[k])

\* The worker's thread has its one batch after it is done, not before.
WorkerIdle == worker \notin {"done", "finished"} => stage["worker"] = "idle"

\* A row differs from its entry only while a batch with a record of the file is
\* between memory and rows.
InFlight(f) == \E t \in Thread : /\ stage[t] = "rows"
                                 /\ Touches(f, batch[t].lo, batch[t].hi) # {}
RowsFollow == worker # "off" /\ ~behind => \A f \in File : db[f] = mem[f] \/ InFlight(f)

RowsInv == SpansInLog /\ WorkerIdle /\ RowsFollow

\* RowsInv holds when the program has not been started.
LEMMA RowsInit == Init => RowsInv
BY DEF Init, Down, RowsInv, SpansInLog, InLog, WorkerIdle, RowsFollow, NoSpan, Thread

\* Spans are read from the journal, which only grows.
LEMMA SpansStep ==
    ASSUME TypeOK, SpansInLog, Next
    PROVE  SpansInLog'
<1> USE DEF SpansInLog, InLog
<1>1. Len(log) \in Nat /\ queue \in Seq(Span) /\ mon.span \in Span
  BY DEF TypeOK, DiskOK, TransitOK
<1>2. CASE Volume
  <2>1. Len(log') >= Len(log) /\ Len(log') \in Nat
    BY <1>2, VolumeStep DEF DiskOK
  <2>2. UNCHANGED <<mon, batch, queue>>
    BY <1>2, VolumeStep
  <2>3. /\ mon.span.hi \in Nat
        /\ \A t \in Thread : batch[t].hi \in Nat
    BY <1>1 DEF TypeOK, TransitOK, Span, Thread
  <2>4. \A k \in DOMAIN queue : queue[k] \in Span
    BY <1>1
  <2>5. \A k \in DOMAIN queue : queue[k].hi \in Nat
    BY <2>4 DEF Span
  <2> QED
    BY <1>1, <2>1, <2>2, <2>3, <2>5
<1>3. CASE CatchupRead
  BY <1>1, <1>3, ReadSpanBounds
     DEF CatchupRead, Readable, TypeOK, DiskOK, PositionsOK, EndPositions, NextUsn, ResumePoint,
         TransitOK, Thread, scanner, store, disk
<1>4. CASE MonitorRead
  BY <1>1, <1>4, ReadSpanBounds
     DEF MonitorRead, Readable, TypeOK, DiskOK, VolOK, EndPositions, NextUsn, NoSpan, TransitOK,
         disk, store, scanner
<1>5. CASE MonitorEmit
  <2>1. queue' = Append(queue, mon.span) /\ mon'.span = NoSpan /\ UNCHANGED <<log, batch>>
    BY <1>5 DEF MonitorEmit, disk
  <2>2. \A k \in DOMAIN queue' : \/ queue'[k] = mon.span
                                 \/ k \in DOMAIN queue /\ queue'[k] = queue[k]
    BY <1>1, <2>1
  <2> QED
    BY <1>1, <2>1, <2>2 DEF NoSpan
<1>6. CASE ApplyQueued
  <2>1. queue # <<>> /\ queue' = Tail(queue) /\ UNCHANGED <<log, mon>>
    BY <1>6 DEF ApplyQueued, disk
  <2>2. batch' = [batch EXCEPT !["main"] = Head(queue)]
    BY <1>6 DEF ApplyQueued
  <2>3. Head(queue) = queue[1] /\ 1 \in DOMAIN queue
    BY <1>1, <2>1
  <2>4. \A k \in DOMAIN queue' : k + 1 \in DOMAIN queue /\ queue'[k] = queue[k + 1]
    BY <1>1, <2>1
  <2> QED
    BY <2>1, <2>2, <2>3, <2>4 DEF TypeOK, TransitOK, Thread
<1>7. CASE Quit \/ Crash
  BY <1>1, <1>7 DEF Quit, Crash, Vanish, NoSpan, disk, Thread
<1>8. CASE start_monitoring \/ MonitorReadEnds \/ MonitorRequery
  BY <1>1, <1>8 DEF start_monitoring, MonitorReadEnds, MonitorRequery, NoSpan, disk
<1>9. CASE UNCHANGED <<log, mon, batch, queue>>
  BY <1>9
<1>10. \/ Volume \/ CatchupRead \/ MonitorRead \/ MonitorEmit \/ ApplyQueued \/ Quit \/ Crash
       \/ start_monitoring \/ MonitorReadEnds \/ MonitorRequery
       \/ UNCHANGED <<log, mon, batch, queue>>
  BY DEF Next, Indexing, Applying, Monitoring, disk, store, scanner,
     LoadFromCache, IndexAllDrives, OpenVolume, QueryJournal,
     CatchupReadEnds, ScanFile, InstallReindex, FullScanEnds,
     InstallFullIndex, ApplyCatchup, SaveAfterIndexing, db_batch_apply,
     _persist_usn_checkpoints, SaveOnRequest
<1> QED
  BY <1>2, <1>3, <1>4, <1>5, <1>6, <1>7, <1>8, <1>9, <1>10

\* The worker does not begin anything new after its batch.
LEMMA WorkerIdleStep ==
    ASSUME TypeOK, WorkerIdle, Next
    PROVE  WorkerIdle'
<1> USE DEF WorkerIdle
<1>1. stage \in [Thread -> {"idle", "rows", "checkpoint"}]
  BY DEF TypeOK, ControlOK
<1>2. CASE Volume
  BY <1>2, VolumeStep
<1>3. CASE ApplyQueued
  BY <1>1, <1>3 DEF ApplyQueued, Thread
<1>4. ASSUME NEW t \in Thread, db_batch_apply(t) \/ _persist_usn_checkpoints(t)
      PROVE  WorkerIdle'
  BY <1>1, <1>4 DEF db_batch_apply, _persist_usn_checkpoints, Thread
<1>5. CASE ApplyCatchup
  BY <1>5 DEF ApplyCatchup
<1>6. CASE Quit \/ Crash
  BY <1>6 DEF Quit, Crash, Vanish, Thread
<1>7. CASE LoadFromCache \/ IndexAllDrives \/ OpenVolume \/ QueryJournal \/ CatchupRead
           \/ CatchupReadEnds \/ InstallReindex \/ FullScanEnds \/ InstallFullIndex
           \/ SaveAfterIndexing
  BY <1>7 DEF LoadFromCache, IndexAllDrives, OpenVolume, QueryJournal, CatchupRead,
     CatchupReadEnds, InstallReindex, FullScanEnds, InstallFullIndex, SaveAfterIndexing
<1>8. CASE UNCHANGED <<worker, stage>>
  BY <1>8
<1>9. \/ Volume \/ ApplyQueued \/ ApplyCatchup \/ Quit \/ Crash
      \/ LoadFromCache \/ IndexAllDrives \/ OpenVolume \/ QueryJournal \/ CatchupRead
      \/ CatchupReadEnds \/ InstallReindex \/ FullScanEnds \/ InstallFullIndex
      \/ SaveAfterIndexing \/ UNCHANGED <<worker, stage>>
      \/ \E t \in Thread : db_batch_apply(t) \/ _persist_usn_checkpoints(t)
  BY DEF Next, Indexing, Applying, Monitoring, store, scanner, ScanFile,
     start_monitoring, MonitorRead, MonitorReadEnds, MonitorEmit, MonitorRequery, SaveOnRequest
<1> QED
  BY <1>2, <1>3, <1>4, <1>5, <1>6, <1>7, <1>8, <1>9

\* Rows change with a batch that memory has, or are replaced by memory.
LEMMA RowsFollowStep ==
    ASSUME TypeOK, RowsInv, Next
    PROVE  RowsFollow'
<1>1. /\ stage \in [Thread -> {"idle", "rows", "checkpoint"}] /\ batch \in [Thread -> Span]
      /\ queue \in Seq(Span) /\ Len(log) \in Nat
      /\ mem \in [File -> Nat] /\ db \in [File -> Nat]
  BY DEF TypeOK, ControlOK, TransitOK, DiskOK, ImagesOK, Image
<1>2. CASE Volume
  <2>1. UNCHANGED <<worker, behind, db, mem, stage, batch>>
    BY <1>2, VolumeStep DEF store
  <2>2. \A i \in 1..Len(log) : log'[i] = log[i]
    BY <1>2, VolumeStep
  <2>3. ASSUME NEW f \in File, NEW t \in Thread,
               NEW i \in batch[t].lo..batch[t].hi, log[i] = f
        PROVE  log'[i] = f
    <3>1. i \in 1..Len(log)
      BY <1>1 DEF RowsInv, SpansInLog, InLog, Span
    <3> QED
      BY <2>2, <2>3, <3>1
  <2>4. \A f \in File : InFlight(f) => InFlight(f)'
    BY <2>1, <2>3 DEF InFlight, Touches
  <2> QED
    BY <2>1, <2>4 DEF RowsInv, RowsFollow
<1>3. CASE ApplyQueued
  <2> DEFINE span == Head(queue)
  <2>1. /\ stage["main"] = "idle" /\ UNCHANGED <<log, db, worker, behind>>
        /\ mem' = Replay(mem, span.lo, span.hi)
        /\ batch' = [batch EXCEPT !["main"] = span]
        /\ stage' = [stage EXCEPT !["main"] = "rows"]
    BY <1>3 DEF ApplyQueued, disk, store
  <2> HIDE DEF span
  <2>2. \A f \in File : Touches(f, span.lo, span.hi) = {} => mem'[f] = mem[f]
    BY <2>1 DEF Replay
  <2>3. \A f \in File : Touches(f, span.lo, span.hi) # {} => InFlight(f)'
    BY <1>1, <2>1 DEF InFlight, Touches, Thread
  <2>4. \A f \in File : InFlight(f) => InFlight(f)'
    BY <1>1, <2>1 DEF InFlight, Touches, Thread
  <2> QED
    BY <2>1, <2>2, <2>3, <2>4 DEF RowsInv, RowsFollow
<1>4. CASE ApplyCatchup
  <2> DEFINE span == batch["worker"]
  <2>1. /\ worker = "apply" /\ UNCHANGED <<log, db, batch, behind>>
        /\ mem' = Replay(mem, span.lo, span.hi)
        /\ stage' = [stage EXCEPT !["worker"] = "rows"]
    BY <1>4 DEF ApplyCatchup, disk, store
  <2>2. \A f \in File : Touches(f, span.lo, span.hi) = {} => mem'[f] = mem[f]
    BY <2>1 DEF Replay
  <2>3. \A f \in File : Touches(f, span.lo, span.hi) # {} => InFlight(f)'
    BY <1>1, <2>1 DEF InFlight, Touches, Thread
  <2>4. \A f \in File : InFlight(f) => InFlight(f)'
    BY <1>1, <2>1 DEF InFlight, Touches, Thread
  <2> QED
    BY <2>1, <2>2, <2>3, <2>4 DEF RowsInv, RowsFollow
<1>5. ASSUME NEW t \in Thread, db_batch_apply(t), ~behind', worker' # "off"
      PROVE  \A f \in File : db'[f] = mem'[f] \/ InFlight(f)'
  <2>1. /\ stage' \in {[stage EXCEPT ![t] = "checkpoint"], [stage EXCEPT ![t] = "idle"]}
        /\ UNCHANGED <<log, mem, batch, worker, behind>>
        /\ db' = [f \in File |-> IF Touches(f, batch[t].lo, batch[t].hi) = {}
                                 THEN db[f] ELSE mem[f]]
    BY <1>5 DEF db_batch_apply, disk
  <2> TAKE f \in File
  <2>2. CASE Touches(f, batch[t].lo, batch[t].hi) # {}
    BY <2>1, <2>2
  <2>3. CASE Touches(f, batch[t].lo, batch[t].hi) = {} /\ db[f] = mem[f]
    BY <2>1, <2>3
  <2>4. ASSUME NEW u \in Thread, u # t, stage[u] = "rows",
               Touches(f, batch[u].lo, batch[u].hi) # {}
        PROVE  InFlight(f)'
    BY <1>1, <2>1, <2>4 DEF InFlight, Touches
  <2> QED
    BY <1>5, <2>1, <2>2, <2>3, <2>4 DEF RowsInv, RowsFollow, InFlight
<1>6. ASSUME NEW t \in Thread, _persist_usn_checkpoints(t)
      PROVE  RowsFollow'
  <2>1. /\ stage[t] = "checkpoint" /\ stage' = [stage EXCEPT ![t] = "idle"]
        /\ UNCHANGED <<log, db, mem, batch, worker, behind>>
    BY <1>6 DEF _persist_usn_checkpoints, disk
  <2>2. \A f \in File : InFlight(f) => InFlight(f)'
    BY <1>1, <2>1 DEF InFlight, Touches
  <2> QED
    BY <2>1, <2>2 DEF RowsInv, RowsFollow
<1>7. CASE SaveAfterIndexing \/ SaveOnRequest
  <2>1. CASE db' = mem /\ UNCHANGED mem
    BY <2>1 DEF RowsFollow
  <2>2. CASE UNCHANGED <<log, db, mem, batch, stage, behind>> /\ worker # "off"
    BY <2>2 DEF RowsInv, RowsFollow, InFlight, Touches
  <2> QED
    BY <1>7, <2>1, <2>2 DEF SaveAfterIndexing, SaveOnRequest, SaveRows, disk, store
<1>8. CASE Quit \/ Crash
  BY <1>8 DEF Quit, Crash, Vanish, RowsFollow
<1>9. CASE LoadFromCache
  BY <1>9 DEF LoadFromCache, RowsFollow, store
<1>10. CASE IndexAllDrives \/ InstallReindex \/ InstallFullIndex
  BY <1>10 DEF IndexAllDrives, InstallReindex, InstallFullIndex, RowsFollow
<1>11. CASE CatchupRead
  <2>1. stage["worker"] = "idle" /\ worker # "off"
    BY <1>11 DEF CatchupRead, RowsInv, WorkerIdle
  <2>2. UNCHANGED <<log, db, mem, stage, behind>> /\ batch'["main"] = batch["main"]
    BY <1>1, <1>11 DEF CatchupRead, disk, store, Thread
  <2>3. \A f \in File : InFlight(f) => InFlight(f)'
    BY <2>1, <2>2 DEF InFlight, Touches, Thread
  <2> QED
    BY <2>1, <2>2, <2>3 DEF RowsInv, RowsFollow
<1>12. CASE worker # "off" /\ UNCHANGED <<log, db, mem, stage, batch, behind>>
  BY <1>12 DEF RowsInv, RowsFollow, InFlight, Touches
<1>13. CASE UNCHANGED <<log, db, mem, stage, batch, behind, worker>>
  BY <1>13 DEF RowsInv, RowsFollow, InFlight, Touches
<1>14. \/ Volume \/ ApplyQueued \/ ApplyCatchup \/ SaveAfterIndexing \/ SaveOnRequest
       \/ Quit \/ Crash \/ LoadFromCache
       \/ IndexAllDrives \/ InstallReindex \/ InstallFullIndex \/ CatchupRead
       \/ worker # "off" /\ UNCHANGED <<log, db, mem, stage, batch, behind>>
       \/ UNCHANGED <<log, db, mem, stage, batch, behind, worker>>
       \/ \E t \in Thread : db_batch_apply(t) \/ _persist_usn_checkpoints(t)
  BY DEF Next, Indexing, Applying, Monitoring, disk, store, scanner, OpenVolume, QueryJournal,
     CatchupReadEnds, ScanFile, FullScanEnds, start_monitoring, MonitorRead,
     MonitorReadEnds, MonitorEmit, MonitorRequery
<1> QED
  BY <1>2, <1>3, <1>4, <1>5, <1>6, <1>7, <1>8, <1>9, <1>10, <1>11, <1>12, <1>13, <1>14
     DEF RowsFollow

\* RowsInv is kept when nothing happens.
LEMMA RowsStutter ==
    ASSUME RowsInv, UNCHANGED vars
    PROVE  RowsInv'
BY DEF RowsInv, SpansInLog, InLog, WorkerIdle, RowsFollow, InFlight, Touches, vars, disk, store

\* With no batch in flight and none failed since the last save, the stored rows are the
\* entries in memory, whichever threads apply batches.
THEOREM RowsAreEntries == Spec => []RowsMirrorMemory
<1>1. TypeOK /\ RowsInv /\ [Next]_vars => RowsInv'
  BY SpansStep, WorkerIdleStep, RowsFollowStep, RowsStutter DEF RowsInv
<1>2. TypeOK /\ RowsInv => RowsMirrorMemory
  <2> SUFFICES ASSUME TypeOK, RowsInv, worker # "off", ~behind,
                      \A t \in Thread : stage[t] = "idle"
               PROVE  db = mem
    BY DEF RowsMirrorMemory
  <2>1. \A f \in File : db[f] = mem[f]
    BY DEF RowsInv, RowsFollow, InFlight
  <2> QED
    BY <2>1 DEF TypeOK, ImagesOK, Image
<1> QED
  BY <1>1, <1>2, RowsInit, TypeCorrect, PTL DEF Spec

-----------------------------------------------------------------------------
(* Reading that follows loading: no record is dropped *)

Resuming == {"open", "query", "read", "got", "apply"}

\* The program's first run indexes the drive: there is nothing to catch up with.
FirstRun == /\ runs = 0 => worker = "off" /\ ~cached
            /\ worker \notin Resuming \cup {"scan"} /\ stage["worker"] = "idle"

\* Reading the journal follows loading: always in the service, and in the GUI's first run.
InOrder == ~Concurrent \/ FirstRun

\* OrderInv holds when the program has not been started.
LEMMA OrderInit == Init => OrderInv
BY DEF Init, Down, Closed, OrderInv, OneReader, BatchAtCursor, PendingOrdered,
       ScanCovers, DeliveredInOrder, Synced, Pending

\* The journal is read by one thread at a time.
LEMMA OneReaderStep ==
    ASSUME InOrder, TypeOK, OrderInv, Next
    PROVE  OneReader'
<1> USE DEF OrderInv, OneReader, Synced, Vanish
<1>1. Volume \/ LoadFromCache \/ IndexAllDrives \/ OpenVolume \/ QueryJournal
    \/ CatchupRead \/ CatchupReadEnds \/ InstallReindex \/ FullScanEnds \/
    InstallFullIndex \/ ApplyCatchup \/ SaveAfterIndexing \/ ApplyQueued \/
    start_monitoring \/ MonitorRead \/ MonitorReadEnds \/ MonitorEmit \/
    MonitorRequery \/ Quit \/ Crash \/ UNCHANGED <<mon, queue, worker>>
  BY DEF Next, Indexing, Applying, Monitoring, disk, store, scanner, ScanFile,
      db_batch_apply, _persist_usn_checkpoints, SaveOnRequest
<1>2. CASE Volume
  BY <1>2, VolumeStep DEF store, scanner
<1>3. CASE LoadFromCache
  BY <1>3 DEF LoadFromCache
<1>4. CASE IndexAllDrives
  BY <1>4 DEF IndexAllDrives
<1>5. CASE OpenVolume
  BY <1>5 DEF OpenVolume
<1>6. CASE QueryJournal
  BY <1>6 DEF QueryJournal
<1>7. CASE CatchupRead
  BY <1>7 DEF CatchupRead
<1>8. CASE CatchupReadEnds
  BY <1>8 DEF CatchupReadEnds
<1>9. CASE InstallReindex
  BY <1>9 DEF InstallReindex
<1>10. CASE FullScanEnds
  BY <1>10 DEF FullScanEnds
<1>11. CASE InstallFullIndex
  BY <1>11 DEF InstallFullIndex
<1>12. CASE ApplyCatchup
  BY <1>12 DEF ApplyCatchup
<1>13. CASE SaveAfterIndexing
  BY <1>13 DEF SaveAfterIndexing
<1>14. CASE ApplyQueued
  BY <1>14 DEF ApplyQueued
<1>15. CASE start_monitoring
  BY <1>15 DEF start_monitoring, InOrder, FirstRun, Resuming, TypeOK, ControlOK
<1>16. CASE MonitorRead
  BY <1>16 DEF MonitorRead
<1>17. CASE MonitorReadEnds
  BY <1>17 DEF MonitorReadEnds
<1>18. CASE MonitorEmit
  BY <1>18 DEF MonitorEmit
<1>19. CASE MonitorRequery
  BY <1>19 DEF MonitorRequery
<1>20. CASE Quit
  BY <1>20 DEF Quit
<1>21. CASE Crash
  BY <1>21 DEF Crash
<1>22. CASE UNCHANGED <<mon, queue, worker>>
  BY <1>22
<1> QED
  BY <1>1, <1>2, <1>3, <1>4, <1>5, <1>6, <1>7, <1>8, <1>9, <1>10, <1>11, <1>12,
      <1>13, <1>14, <1>15, <1>16, <1>17, <1>18, <1>19, <1>20, <1>21, <1>22

\* A batch starts at the cursor it was read from.
LEMMA BatchAtCursorStep ==
    ASSUME InOrder, TypeOK, OrderInv, Next
    PROVE  BatchAtCursor'
<1> USE DEF OrderInv, OneReader, Synced, BatchAtCursor, Vanish, CursorAt, Queried,
    Continuation, NextUsn, TypeOK, DiskOK, NoSpan
<1>1. Volume \/ LoadFromCache \/ IndexAllDrives \/ OpenVolume \/ QueryJournal
    \/ CatchupRead \/ CatchupReadEnds \/ InstallReindex \/ FullScanEnds \/
    InstallFullIndex \/ ApplyCatchup \/ SaveAfterIndexing \/ ApplyQueued \/
    start_monitoring \/ MonitorRead \/ MonitorReadEnds \/ MonitorEmit \/
    MonitorRequery \/ Quit \/ Crash \/ UNCHANGED <<mon, vol, worker, saved,
    batch, start>>
  BY DEF Next, Indexing, Applying, Monitoring, disk, store, scanner, ScanFile,
      db_batch_apply, _persist_usn_checkpoints, SaveOnRequest
<1>2. CASE Volume
  BY <1>2, VolumeStep DEF store, scanner
<1>3. CASE LoadFromCache
  BY <1>3 DEF LoadFromCache
<1>4. CASE IndexAllDrives
  BY <1>4 DEF IndexAllDrives
<1>5. CASE OpenVolume
  BY <1>5 DEF OpenVolume
<1>6. CASE QueryJournal
  BY <1>6 DEF QueryJournal, _usn_resume_decision, PositionsOK, Position
<1>7. CASE CatchupRead
  BY <1>7, ReadSpanBounds DEF CatchupRead, ResumePoint, Readable,
     PositionsOK, EndPositions, TransitOK, Thread
<1>8. CASE CatchupReadEnds
  BY <1>8 DEF CatchupReadEnds
<1>9. CASE InstallReindex
  BY <1>9 DEF InstallReindex
<1>10. CASE FullScanEnds
  BY <1>10 DEF FullScanEnds
<1>11. CASE InstallFullIndex
  BY <1>11 DEF InstallFullIndex
<1>12. CASE ApplyCatchup
  BY <1>12 DEF ApplyCatchup
<1>13. CASE SaveAfterIndexing
  BY <1>13 DEF SaveAfterIndexing
<1>14. CASE ApplyQueued
  BY <1>14 DEF ApplyQueued, TransitOK, Thread
<1>15. CASE start_monitoring
  BY <1>15 DEF start_monitoring
<1>16. CASE MonitorRead
  BY <1>16, ReadSpanBounds DEF MonitorRead, Readable, VolOK, EndPositions
<1>17. CASE MonitorReadEnds
  BY <1>17 DEF MonitorReadEnds
<1>18. CASE MonitorEmit
  BY <1>18 DEF MonitorEmit
<1>19. CASE MonitorRequery
  BY <1>19 DEF MonitorRequery
<1>20. CASE Quit
  BY <1>20 DEF Quit, Closed
<1>21. CASE Crash
  BY <1>21 DEF Crash, Closed
<1>22. CASE UNCHANGED <<mon, vol, worker, saved, batch, start>>
  BY <1>22
<1> QED
  BY <1>1, <1>2, <1>3, <1>4, <1>5, <1>6, <1>7, <1>8, <1>9, <1>10, <1>11, <1>12,
      <1>13, <1>14, <1>15, <1>16, <1>17, <1>18, <1>19, <1>20, <1>21, <1>22

\* The pending batches are spans.
LEMMA PendingElements ==
    ASSUME TransitOK
    PROVE  /\ Pending \in Seq(Span)
           /\ Len(Pending) \in Nat /\ DOMAIN Pending = 1..Len(Pending)
           /\ \A k \in DOMAIN Pending : Pending[k].lo \in Nat /\ Pending[k].hi \in Nat
<1>1. queue \in Seq(Span) /\ mon.span \in Span
  BY DEF TransitOK
<1>2. Append(queue, mon.span) \in Seq(Span)
  BY <1>1, AppendProperties, Zenon
<1>3. Pending \in Seq(Span)
  BY <1>1, <1>2 DEF Pending
<1>4. \A k \in 1..Len(Pending) : Pending[k] \in Span
  BY <1>3, ElementOfSeq, Zenon
<1> QED
  BY <1>3, <1>4 DEF Span

\* Only the end of a read, a delivery and the end of a run change what is pending.
LEMMA PendingFrame ==
    ASSUME TypeOK, Next
    PROVE  ApplyQueued \/ MonitorReadEnds \/ Quit \/ Crash \/ Pending' = Pending
<1>1. \/ ApplyQueued \/ MonitorReadEnds \/ Quit \/ Crash
      \/ start_monitoring \/ MonitorRead \/ MonitorEmit \/ MonitorRequery
      \/ UNCHANGED <<queue, mon>>
  BY VolumeStep DEF Next, Indexing, Applying, Monitoring, store, scanner,
     LoadFromCache, IndexAllDrives, OpenVolume, QueryJournal, CatchupRead,
     CatchupReadEnds, ScanFile, InstallReindex, FullScanEnds,
     InstallFullIndex, ApplyCatchup, SaveAfterIndexing, db_batch_apply,
     _persist_usn_checkpoints, SaveOnRequest
<1>2. CASE start_monitoring
  BY <1>2 DEF start_monitoring, Pending
<1>3. CASE MonitorRead
  BY <1>3 DEF MonitorRead, Pending
<1>4. CASE MonitorEmit
  BY <1>4 DEF MonitorEmit, Pending
<1>5. CASE MonitorRequery
  BY <1>5 DEF MonitorRequery, Pending
<1>6. CASE UNCHANGED <<queue, mon>>
  BY <1>6 DEF Pending
<1> QED
  BY <1>1, <1>2, <1>3, <1>4, <1>5, <1>6

\* Nothing is pending while the worker still loads, scans or catches up.
LEMMA NothingPending ==
    ASSUME OneReader, ~Synced
    PROVE  Pending = <<>>
BY DEF OneReader, Pending, Synced

\* Delivering the oldest batch renumbers the others.
LEMMA PendingTail ==
    ASSUME TransitOK, ApplyQueued
    PROVE  /\ 1 \in DOMAIN Pending /\ Head(queue) = Pending[1]
           /\ \A k \in DOMAIN Pending' :
                  /\ k \in Nat /\ k >= 1 /\ k + 1 \in DOMAIN Pending
                  /\ Pending'[k] = Pending[k + 1]
           /\ \A k \in DOMAIN Pending \ {1} :
                  k - 1 \in DOMAIN Pending' /\ Pending'[k - 1] = Pending[k]
<1>1. /\ queue \in Seq(Span) /\ mon.span \in Span /\ queue # <<>>
      /\ queue' = Tail(queue) /\ mon' = mon
  BY DEF TransitOK, ApplyQueued
<1>2. /\ Tail(queue) \in Seq(Span) /\ Len(Tail(queue)) = Len(queue) - 1
      /\ \A i \in 1..Len(Tail(queue)) : Tail(queue)[i] = queue[i + 1]
  BY <1>1, HeadTailProperties, Zenon
<1>3. Len(queue) >= 1 /\ Len(queue) \in Nat
  BY <1>1, EmptySeq
<1>4. CASE mon.pc = "emit"
  <2> DEFINE q == Append(queue, mon.span)
             r == Append(Tail(queue), mon.span)
  <2>1. Pending = q /\ Pending' = r
    BY <1>1, <1>4 DEF Pending
  <2>2. /\ DOMAIN q = 1..(Len(queue) + 1) /\ DOMAIN r = 1..Len(queue)
        /\ q[1] = Head(queue)
        /\ \A k \in 1..Len(queue) : q[k] = queue[k]
        /\ \A k \in 1..(Len(queue) - 1) : r[k] = Tail(queue)[k]
        /\ q[Len(queue) + 1] = mon.span /\ r[Len(queue)] = mon.span
    BY <1>1, <1>2, <1>3
  <2>3. \A k \in 1..Len(queue) : r[k] = q[k + 1]
    BY <1>2, <1>3, <2>2
  <2> HIDE DEF q, r
  <2>4. \A k \in 2..(Len(queue) + 1) : k - 1 \in 1..Len(queue) /\ r[k - 1] = q[k]
    BY <1>3, <2>3
  <2> QED
    BY <1>3, <2>1, <2>2, <2>3, <2>4
<1>5. CASE mon.pc # "emit"
  <2>1. Pending = queue /\ Pending' = Tail(queue)
    BY <1>1, <1>5 DEF Pending
  <2>2. /\ DOMAIN queue = 1..Len(queue) /\ Head(queue) = queue[1]
        /\ DOMAIN Tail(queue) = 1..(Len(queue) - 1)
    BY <1>1, <1>2
  <2> QED
    BY <1>2, <1>3, <2>1, <2>2
<1> QED
  BY <1>4, <1>5

\* A read that ends puts its batch behind the pending ones, or has none.
LEMMA PendingAppend ==
    ASSUME TransitOK, MonitorReadEnds
    PROVE  /\ \/ ~HasClose(mon.span.lo, mon.span.hi) /\ Pending' = Pending
              \/ HasClose(mon.span.lo, mon.span.hi) /\ Pending' = Append(Pending, mon.span)
           /\ Pending' = Append(Pending, mon.span)
                => /\ DOMAIN Pending' = DOMAIN Pending \cup {Len(Pending) + 1}
                   /\ \A k \in DOMAIN Pending :
                          k < Len(Pending) + 1 /\ Pending'[k] = Pending[k]
                   /\ Pending'[Len(Pending) + 1] = mon.span
<1>1. Pending \in Seq(Span) /\ mon.span \in Span
  BY PendingElements DEF TransitOK
<1>2. /\ Append(Pending, mon.span) \in Seq(Span)
      /\ Len(Append(Pending, mon.span)) = Len(Pending) + 1
      /\ \A i \in 1..Len(Pending) : Append(Pending, mon.span)[i] = Pending[i]
      /\ Append(Pending, mon.span)[Len(Pending) + 1] = mon.span
  BY <1>1
<1>3. /\ DOMAIN Pending = 1..Len(Pending) /\ Len(Pending) \in Nat
      /\ DOMAIN Append(Pending, mon.span) = 1..(Len(Pending) + 1)
  BY <1>1, <1>2
<1>4. Pending = queue /\ queue' = queue
  BY DEF MonitorReadEnds, Pending
<1>5. \/ ~HasClose(mon.span.lo, mon.span.hi) /\ mon' = [pc |-> "poll", span |-> NoSpan]
      \/ HasClose(mon.span.lo, mon.span.hi) /\ mon' = [pc |-> "emit", span |-> mon.span]
  BY DEF MonitorReadEnds
<1>6. \/ ~HasClose(mon.span.lo, mon.span.hi) /\ Pending' = Pending
      \/ HasClose(mon.span.lo, mon.span.hi) /\ Pending' = Append(Pending, mon.span)
  BY <1>4, <1>5 DEF Pending
<1>7. DOMAIN Append(Pending, mon.span) = DOMAIN Pending \cup {Len(Pending) + 1}
  BY <1>3
<1>8. \A k \in DOMAIN Pending : k < Len(Pending) + 1
  BY <1>3
<1> QED
  BY <1>2, <1>3, <1>6, <1>7, <1>8, Zenon

\* Pending batches are consecutive reads behind the cursor.
LEMMA PendingOrderedStep ==
    ASSUME InOrder, TypeOK, OrderInv, Next
    PROVE  PendingOrdered'
<1> USE DEF OrderInv, OneReader, Synced, BatchAtCursor, PendingOrdered, Vanish,
    CursorAt, Queried, Continuation, NextUsn, TypeOK, DiskOK, TransitOK, Span,
    VolOK, EndPositions
<1>1. Volume \/ OpenVolume \/ QueryJournal \/ CatchupRead \/ CatchupReadEnds \/
    FullScanEnds \/ ApplyQueued \/ MonitorReadEnds \/ MonitorRequery \/ Quit \/
    Crash \/ UNCHANGED <<vol, Pending>>
  BY PendingFrame, VolumeStep DEF Next, Indexing, Applying, Monitoring, disk,
      store, scanner, LoadFromCache, IndexAllDrives, ScanFile, InstallReindex,
      InstallFullIndex, ApplyCatchup, SaveAfterIndexing, db_batch_apply,
      _persist_usn_checkpoints, start_monitoring, MonitorRead, MonitorEmit,
      SaveOnRequest
<1>2. CASE Volume
  <2>1. UNCHANGED <<vol, Pending>>
    BY <1>2, VolumeStep DEF Pending
  <2> QED
    BY <2>1
<1>3. CASE OpenVolume
  <2>1. Pending = <<>>
    BY <1>3, NothingPending DEF OpenVolume
  <2>2. Pending' = Pending
    BY <1>3 DEF OpenVolume, Pending
  <2> QED
    BY <2>1, <2>2
<1>4. CASE QueryJournal
  <2>1. Pending = <<>>
    BY <1>4, NothingPending DEF QueryJournal
  <2>2. Pending' = Pending
    BY <1>4 DEF QueryJournal, Pending
  <2> QED
    BY <2>1, <2>2
<1>5. CASE CatchupRead
  <2>1. Pending = <<>>
    BY <1>5, NothingPending DEF CatchupRead
  <2>2. Pending' = Pending
    BY <1>5 DEF CatchupRead, Pending
  <2> QED
    BY <2>1, <2>2
<1>6. CASE CatchupReadEnds
  <2>1. Pending = <<>>
    BY <1>6, NothingPending DEF CatchupReadEnds
  <2>2. Pending' = Pending
    BY <1>6 DEF CatchupReadEnds, Pending
  <2> QED
    BY <2>1, <2>2
<1>7. CASE FullScanEnds
  <2>1. Pending = <<>>
    BY <1>7, NothingPending DEF FullScanEnds
  <2>2. Pending' = Pending
    BY <1>7 DEF FullScanEnds, Pending
  <2> QED
    BY <2>1, <2>2
<1>8. CASE ApplyQueued
  <2>1. vol' = vol
    BY <1>8 DEF ApplyQueued
  <2>2. \A k \in DOMAIN Pending' : /\ k \in Nat /\ k + 1 \in DOMAIN Pending
                                   /\ Pending'[k] = Pending[k + 1]
    BY <1>8, PendingTail
  <2>3. \A k \in DOMAIN Pending' : 1 <= Pending'[k].lo /\ Pending'[k].hi < vol'.cursor
    BY <2>1, <2>2
  <2>4. DOMAIN Pending' \in SUBSET Nat
    BY <2>2
  <2>5. ASSUME NEW k \in DOMAIN Pending', NEW m \in DOMAIN Pending', k < m
        PROVE  Pending'[k].hi < Pending'[m].lo
    <3>1. k \in Nat /\ m \in Nat
      BY <2>4
    <3>2. k + 1 < m + 1
      BY <2>5, <3>1
    <3>3. Pending[k + 1].hi < Pending[m + 1].lo
      BY <2>2, <3>2
    <3> QED
      BY <2>2, <3>3
  <2> QED
    BY <2>3, <2>5
<1>9. CASE MonitorReadEnds
  <2>1. Pending' = Pending \/ Pending' = Append(Pending, mon.span)
    BY <1>9, PendingAppend
  <2>2. /\ 1 <= mon.span.lo /\ mon.span.lo <= mon.span.hi
        /\ mon.span.lo = vol.cursor /\ vol'.cursor = mon.span.hi + 1
        /\ mon.span.lo \in Nat /\ mon.span.hi \in Nat
    BY <1>9 DEF MonitorReadEnds
  <2>3. \A k \in DOMAIN Pending : /\ 1 <= Pending[k].lo /\ Pending[k].hi < vol'.cursor
                                  /\ Pending[k].hi < mon.span.lo
    <3>1. \A k \in DOMAIN Pending : Pending[k].lo \in Nat /\ Pending[k].hi \in Nat
      BY PendingElements
    <3>2. \A k \in DOMAIN Pending : 1 <= Pending[k].lo /\ Pending[k].hi < vol.cursor
      OBVIOUS
    <3> QED
      BY <2>2, <3>1, <3>2
  <2>4. CASE Pending' = Pending
    BY <2>3, <2>4
  <2>5. CASE Pending' = Append(Pending, mon.span)
    <3>1. \A k \in DOMAIN Pending' : 1 <= Pending'[k].lo /\ Pending'[k].hi < vol'.cursor
      <4> TAKE k \in DOMAIN Pending'
      <4>1. CASE k \in DOMAIN Pending
        BY <1>9, <2>3, <2>5, <4>1, PendingAppend
      <4>2. CASE k = Len(Pending) + 1
        <5>1. Pending'[k] = mon.span
          BY <1>9, <2>5, <4>2, PendingAppend
        <5> QED
          BY <2>2, <5>1
      <4> QED
        BY <1>9, <2>5, <4>1, <4>2, PendingAppend
    <3>2. ASSUME NEW k \in DOMAIN Pending', NEW m \in DOMAIN Pending', k < m
          PROVE  Pending'[k].hi < Pending'[m].lo
      <4>1. Len(Pending) \in Nat /\ DOMAIN Pending = 1..Len(Pending)
        BY PendingElements
      <4>2. k \in DOMAIN Pending
        <5>1. DOMAIN Pending' = DOMAIN Pending \cup {Len(Pending) + 1}
          BY <1>9, <2>5, PendingAppend
        <5> QED
          BY <3>2, <4>1, <5>1
      <4>3. CASE m \in DOMAIN Pending
        BY <1>9, <2>5, <3>2, <4>2, <4>3, PendingAppend
      <4>4. CASE m = Len(Pending) + 1
        BY <1>9, <2>3, <2>5, <4>2, <4>4, PendingAppend
      <4> QED
        BY <1>9, <2>5, <4>3, <4>4, PendingAppend
    <3> QED
      BY <3>1, <3>2
  <2> QED
    BY <2>1, <2>4, <2>5
<1>10. CASE MonitorRequery
  <2>1. vol'.cursor >= vol.cursor /\ vol'.cursor \in Nat
    BY <1>10 DEF MonitorRequery
  <2>2. vol.cursor \in Nat
    OBVIOUS
  <2>3. Pending' = Pending
    BY <1>10 DEF MonitorRequery, Pending
  <2>4. \A k \in DOMAIN Pending : Pending[k].lo \in Nat /\ Pending[k].hi \in Nat
    BY PendingElements
  <2>5. \A k \in DOMAIN Pending : Pending[k].hi < vol'.cursor
    BY <2>1, <2>2, <2>4
  <2> QED
    BY <2>3, <2>5
<1>11. CASE Quit
  BY <1>11 DEF Quit, Pending
<1>12. CASE Crash
  BY <1>12 DEF Crash, Pending
<1>13. CASE UNCHANGED <<vol, Pending>>
  BY <1>13
<1> QED
  BY <1>1, <1>2, <1>3, <1>4, <1>5, <1>6, <1>7, <1>8, <1>9, <1>10, <1>11, <1>12,
      <1>13

\* What a running scan has enumerated covers the records before the cursor.
LEMMA ScanCoversStep ==
    ASSUME InOrder, TypeOK, OrderInv, Next
    PROVE  ScanCovers'
<1> USE DEF OrderInv, OneReader, Synced, BatchAtCursor, ScanCovers, Vanish, CursorAt,
    NextUsn, TypeOK, DiskOK, ImagesOK, Image, VolOK, EndPositions
<1>1. Volume \/ LoadFromCache \/ IndexAllDrives \/ OpenVolume \/ QueryJournal
    \/ CatchupRead \/ CatchupReadEnds \/ (\E f \in File : ScanFile(f)) \/
    InstallReindex \/ FullScanEnds \/ InstallFullIndex \/ ApplyCatchup \/
    SaveAfterIndexing \/ MonitorReadEnds \/ MonitorRequery \/ Quit \/ Crash \/
    UNCHANGED <<log, vol, worker, scan, todo>>
  BY DEF Next, Indexing, Applying, Monitoring, disk, store, scanner,
      ApplyQueued, db_batch_apply, _persist_usn_checkpoints, start_monitoring,
      MonitorRead, MonitorEmit, SaveOnRequest
<1>2. CASE Volume
  <2>1. \A i \in 1..(vol.cursor - 1) : i \in 1..Len(log)
    OBVIOUS
  <2>2. /\ \A i \in 1..Len(log) : log'[i] = log[i]
        /\ UNCHANGED <<vol, worker, scan, todo>>
    BY <1>2, VolumeStep DEF scanner
  <2> QED
    BY <2>1, <2>2
<1>3. CASE LoadFromCache
  BY <1>3 DEF LoadFromCache
<1>4. CASE IndexAllDrives
  BY <1>4 DEF IndexAllDrives
<1>5. CASE OpenVolume
  BY <1>5 DEF OpenVolume
<1>6. CASE QueryJournal
  BY <1>6 DEF QueryJournal
<1>7. CASE CatchupRead
  BY <1>7 DEF CatchupRead
<1>8. CASE CatchupReadEnds
  BY <1>8 DEF CatchupReadEnds
<1>9. ASSUME NEW f \in File, ScanFile(f) PROVE ScanCovers'
  <2> SUFFICES ASSUME worker = "scan", NEW i \in 1..(vol.cursor - 1),
                      log[i] \in File, log[i] \notin todo'
               PROVE  scan'[log[i]] >= i
    BY <1>9 DEF ScanFile, disk
  <2>1. i \in 1..Len(log)
    OBVIOUS
  <2>2. CASE log[i] = f
    BY <1>9, <2>1, <2>2, LatestBounds DEF ScanFile
  <2>3. CASE log[i] # f
    BY <1>9, <2>3 DEF ScanFile
  <2> QED
    BY <2>2, <2>3
<1>10. CASE InstallReindex
  BY <1>10 DEF InstallReindex
<1>11. CASE FullScanEnds
  BY <1>11 DEF FullScanEnds
<1>12. CASE InstallFullIndex
  BY <1>12 DEF InstallFullIndex
<1>13. CASE ApplyCatchup
  BY <1>13 DEF ApplyCatchup
<1>14. CASE SaveAfterIndexing
  BY <1>14 DEF SaveAfterIndexing
<1>15. CASE MonitorReadEnds
  BY <1>15 DEF MonitorReadEnds
<1>16. CASE MonitorRequery
  BY <1>16 DEF MonitorRequery
<1>17. CASE Quit
  BY <1>17 DEF Quit
<1>18. CASE Crash
  BY <1>18 DEF Crash
<1>19. CASE UNCHANGED <<log, vol, worker, scan, todo>>
  BY <1>19
<1> QED
  BY <1>1, <1>2, <1>3, <1>4, <1>5, <1>6, <1>7, <1>8, <1>9, <1>10, <1>11, <1>12,
      <1>13, <1>14, <1>15, <1>16, <1>17, <1>18, <1>19

\* What the cursor has passed is pending, or applied and older than what is.
LEMMA DeliveredInOrderStep ==
    ASSUME InOrder, TypeOK, OrderInv, Next
    PROVE  DeliveredInOrder'
<1> USE DEF OrderInv, OneReader, BatchAtCursor, DeliveredInOrder, Synced,
    Vanish, CursorAt, NextUsn, TypeOK, DiskOK, VolOK, EndPositions
<1>1. Volume \/ LoadFromCache \/ IndexAllDrives \/ OpenVolume \/ QueryJournal
    \/ CatchupRead \/ CatchupReadEnds \/ InstallReindex \/ FullScanEnds \/
    InstallFullIndex \/ ApplyCatchup \/ SaveAfterIndexing \/ ApplyQueued \/
    MonitorReadEnds \/ MonitorRequery \/ Quit \/ Crash \/ UNCHANGED <<log, vol,
    worker, start, mem, Pending>>
  BY PendingFrame, VolumeStep DEF Next, Indexing, Applying, Monitoring, disk,
      store, scanner, ScanFile, db_batch_apply, _persist_usn_checkpoints,
      start_monitoring, MonitorRead, MonitorEmit, SaveOnRequest
<1>2. CASE Volume
  <2>1. /\ \A i \in 1..Len(log) : log'[i] = log[i]
        /\ UNCHANGED <<vol, worker, start, mem, Pending>>
    BY <1>2, VolumeStep DEF scanner, Pending
  <2>2. \A i \in start..(vol.cursor - 1) : i \in 1..Len(log)
    BY DEF PositionsOK
  <2> SUFFICES ASSUME Synced, NEW i \in start..(vol.cursor - 1), log[i] \in File
               PROVE  Queued(i)' \/ AppliedBeforePending(i)'
    BY <2>1, <2>2
  <2> QED
    BY <2>1, <2>2 DEF Queued, AppliedBeforePending
<1>3. CASE LoadFromCache
  BY <1>3 DEF LoadFromCache
<1>4. CASE IndexAllDrives
  BY <1>4 DEF IndexAllDrives
<1>5. CASE OpenVolume
  BY <1>5 DEF OpenVolume, PositionsOK
<1>6. CASE QueryJournal
  BY <1>6 DEF QueryJournal, PositionsOK
<1>7. CASE CatchupRead
  BY <1>7 DEF CatchupRead, ResumePoint, PositionsOK
<1>8. CASE CatchupReadEnds
  <2>1. CASE worker' = "done"
    <3>1. \A i \in batch["worker"].lo..batch["worker"].hi : log[i] = Noise
      BY <1>8, <2>1 DEF CatchupReadEnds, HasClose
    <3>2. /\ log' = log /\ start' = batch["worker"].lo
          /\ vol'.cursor = batch["worker"].hi + 1
      BY <1>8 DEF CatchupReadEnds, Continuation, disk
    <3>3. \A i \in start'..(vol'.cursor - 1) : log'[i] \notin File
      <4>1. start'..(vol'.cursor - 1) = batch["worker"].lo..batch["worker"].hi
        <5>1. ASSUME NEW a, NEW b \in Nat, NEW c, c = b + 1 PROVE a..(c - 1) = a..b
          BY <5>1
        <5>2. batch["worker"].hi \in Nat
          <6>1. batch \in [Thread -> Span] /\ "worker" \in Thread
            BY Zenon DEF TransitOK, Thread
          <6>2. batch["worker"] \in Span
            BY <6>1, Zenon
          <6> QED
            BY <6>2 DEF Span
        <5>3. batch["worker"].lo..(vol'.cursor - 1) = batch["worker"].lo..batch["worker"].hi
          <6>1. vol'.cursor = batch["worker"].hi + 1
            BY <3>2
          <6> HIDE DEF OrderInv, OneReader, BatchAtCursor, PendingOrdered, TypeOK
          <6> QED
            BY <5>1, <5>2, <6>1, ZenonT(30)
        <5> QED
          BY <3>2, <5>3
      <4>2. Noise \notin File
        BY UsnSyncAssumption
      <4> QED
        BY <3>1, <3>2, <4>1, <4>2, Zenon
    <3> QED
      BY <3>3, Zenon
  <2>2. CASE worker' = "apply"
    BY <2>2
  <2> QED
    BY <1>8, <2>1, <2>2 DEF CatchupReadEnds
<1>9. CASE InstallReindex
  <2>1. /\ log' = log /\ vol' = vol /\ mem' = scan /\ start' = 1
        /\ Pending' = <<>> /\ worker = "scan" /\ todo = {}
    BY <1>9, NothingPending DEF InstallReindex, disk, Pending
  <2>2. \A i \in 1..(vol.cursor - 1) : log[i] \in File => scan[log[i]] >= i
    BY <2>1 DEF ScanCovers
  <2>3. \A i \in 1..(vol.cursor - 1) : log'[i] \in File => AppliedBeforePending(i)'
    BY <2>1, <2>2 DEF AppliedBeforePending
  <2> QED
    BY <2>1, <2>3
<1>10. CASE FullScanEnds
  BY <1>10 DEF FullScanEnds
<1>11. CASE InstallFullIndex
  BY <1>11 DEF InstallFullIndex, PositionsOK
<1>12. CASE ApplyCatchup
  <2> DEFINE lo == batch["worker"].lo
             hi == batch["worker"].hi
  <2>1. /\ log' = log /\ start' = lo /\ vol'.cursor = hi + 1
        /\ mem' = Replay(mem, lo, hi) /\ Pending' = <<>>
    BY <1>12, NothingPending DEF ApplyCatchup, disk, Pending
  <2>2. lo \in Nat /\ hi \in Nat /\ mem \in Image
    BY DEF TransitOK, Thread, Span, ImagesOK
  <2>3. \A i \in lo..hi : log[i] \in File => mem'[log[i]] >= i
    BY <2>1, <2>2, ReplayBounds, Zenon
  <2> HIDE DEF lo, hi
  <2>4. \A i \in start'..(vol'.cursor - 1) : i \in lo..hi
    BY <2>1, <2>2
  <2> QED
    BY <2>1, <2>3, <2>4 DEF AppliedBeforePending
<1>13. CASE SaveAfterIndexing
  BY <1>13 DEF SaveAfterIndexing, disk, Queued, AppliedBeforePending, Pending
<1>14. CASE ApplyQueued
  <2> DEFINE lo == Pending[1].lo
             hi == Pending[1].hi
  <2>1. /\ log' = log /\ start' = start /\ vol' = vol /\ Synced
        /\ Head(queue) = Pending[1]
        /\ mem' = Replay(mem, lo, hi)
    BY <1>14, PendingTail DEF ApplyQueued, disk
  <2>2. lo \in Nat /\ hi \in Nat /\ mem \in Image /\ 1 \in DOMAIN Pending
    BY <1>14, <2>1, PendingElements, PendingTail DEF ImagesOK
  <2>3. /\ \A i \in lo..hi : log[i] \in File => mem'[log[i]] >= i
        /\ \A f \in File : mem'[f] = mem[f] \/ mem'[f] >= lo
    BY <2>1, <2>2, ReplayBounds, Zenon
  <2>4. \A k \in DOMAIN Pending' : /\ k \in Nat /\ k >= 1 /\ k + 1 \in DOMAIN Pending
                                 /\ Pending'[k] = Pending[k + 1]
    BY <1>14, <2>1, PendingTail
  <2>5. \A k \in DOMAIN Pending' : hi < Pending'[k].lo
    <3> TAKE k \in DOMAIN Pending'
    <3>1. k + 1 \in DOMAIN Pending /\ 1 < k + 1 /\ Pending'[k] = Pending[k + 1]
      BY <2>4
    <3> QED
      BY <2>2, <3>1 DEF PendingOrdered
  <2>6. \A k \in DOMAIN Pending' : Pending'[k].lo \in Nat
    BY <2>4, PendingElements
  <2>7. mem \in [File -> Nat] /\ mem' \in [File -> Nat]
    BY <2>1, <2>2, ReplayBounds, Zenon DEF Image
  <2> SUFFICES ASSUME NEW i \in start..(vol.cursor - 1), log[i] \in File
               PROVE  Queued(i)' \/ AppliedBeforePending(i)'
    BY <2>1
  <2>8. i \in Nat
    BY DEF PositionsOK
  <2>9. Queued(i) \/ AppliedBeforePending(i)
    BY <2>1
  <2>10. CASE i \in lo..hi
    <3>1. mem'[log[i]] >= i
      BY <2>3, <2>10
    <3>2. \A k \in DOMAIN Pending' : i < Pending'[k].lo
      BY <2>2, <2>5, <2>6, <2>8, <2>10
    <3> QED
      BY <2>1, <3>1, <3>2 DEF AppliedBeforePending
  <2>11. CASE i \notin lo..hi /\ Queued(i)
    <3>1. PICK k \in DOMAIN Pending : i \in Pending[k].lo..Pending[k].hi
      BY <2>11 DEF Queued
    <3>2. k # 1
      BY <2>11, <3>1
    <3>3. k - 1 \in DOMAIN Pending' /\ Pending'[k - 1] = Pending[k]
      BY <1>14, <2>1, <3>2, PendingTail
    <3> QED
      BY <3>1, <3>3 DEF Queued
  <2>12. CASE AppliedBeforePending(i)
    <3>1. i < lo /\ mem[log[i]] >= i
      BY <2>2, <2>12 DEF AppliedBeforePending
    <3>2. mem'[log[i]] >= i
      <4>1. mem'[log[i]] = mem[log[i]] \/ mem'[log[i]] >= lo
        BY <2>3
      <4>2. mem[log[i]] \in Nat /\ mem'[log[i]] \in Nat
        BY <2>7
      <4> HIDE DEF lo
      <4> QED
        BY <2>2, <2>8, <3>1, <4>1, <4>2
    <3>3. \A k \in DOMAIN Pending' : i < Pending'[k].lo
      BY <2>4, <2>12 DEF AppliedBeforePending
    <3> QED
      BY <2>1, <3>2, <3>3 DEF AppliedBeforePending
  <2> QED
    BY <2>9, <2>10, <2>11, <2>12
<1>15. CASE MonitorReadEnds
  <2>1. /\ log' = log /\ start' = start /\ mem' = mem /\ Synced
        /\ vol'.cursor = mon.span.hi + 1
        /\ vol.cursor = mon.span.lo /\ mon.span.lo <= mon.span.hi
        /\ IF HasClose(mon.span.lo, mon.span.hi)
           THEN Pending' = Append(Pending, mon.span) ELSE Pending' = Pending
    BY <1>15, PendingAppend DEF MonitorReadEnds, disk, Continuation
  <2>2. mon.span.lo \in Nat /\ mon.span.hi \in Nat
    BY DEF TransitOK, Span
  <2> SUFFICES ASSUME NEW i \in start..mon.span.hi, log[i] \in File
               PROVE  Queued(i)' \/ AppliedBeforePending(i)'
    BY <2>1, <2>2
  <2>3. CASE i >= vol.cursor
    <3>1. i \in mon.span.lo..mon.span.hi
      BY <2>1, <2>2, <2>3
    <3>2. Pending' = Append(Pending, mon.span)
      BY <2>1, <3>1, UsnSyncAssumption DEF HasClose
    <3>3. Len(Pending) + 1 \in DOMAIN Pending' /\ Pending'[Len(Pending) + 1] = mon.span
      BY <1>15, <3>2, PendingAppend
    <3> QED
      BY <3>1, <3>3 DEF Queued
  <2>4. CASE i < vol.cursor
    <3>1. Queued(i) \/ AppliedBeforePending(i)
      BY <2>1, <2>4
    <3>2. \A k \in DOMAIN Pending : k \in DOMAIN Pending' /\ Pending'[k] = Pending[k]
      BY <1>15, <2>1, PendingAppend
    <3>3. \A k \in DOMAIN Pending' : k \in DOMAIN Pending \/ Pending'[k] = mon.span
      BY <1>15, <2>1, PendingAppend
    <3>4. CASE Queued(i)
      BY <3>2, <3>4 DEF Queued
    <3>5. CASE AppliedBeforePending(i)
      BY <2>1, <2>4, <3>2, <3>3, <3>5 DEF AppliedBeforePending
    <3> QED
      BY <3>1, <3>4, <3>5
  <2> QED
    BY <2>2, <2>3, <2>4
<1>16. CASE MonitorRequery
  <2>1. \/ UNCHANGED <<log, vol, worker, start, mem, Pending>>
        \/ start' = NextUsn /\ vol'.cursor = NextUsn
    BY <1>16 DEF MonitorRequery, disk, Queried, Pending
  <2>2. CASE UNCHANGED <<log, vol, worker, start, mem, Pending>>
    BY <2>2 DEF Queued, AppliedBeforePending
  <2>3. CASE start' = NextUsn /\ vol'.cursor = NextUsn
    BY <2>3
  <2> QED
    BY <2>1, <2>2, <2>3
<1>17. CASE Quit
  BY <1>17 DEF Quit
<1>18. CASE Crash
  BY <1>18 DEF Crash
<1>19. CASE UNCHANGED <<log, vol, worker, start, mem, Pending>>
  BY <1>19 DEF Queued, AppliedBeforePending
<1> QED
  BY <1>1, <1>2, <1>3, <1>4, <1>5, <1>6, <1>7, <1>8, <1>9, <1>10, <1>11, <1>12,
      <1>13, <1>14, <1>15, <1>16, <1>17, <1>18, <1>19

\* OrderInv is inductive while reading follows loading.
LEMMA OrderStep ==
    ASSUME InOrder, TypeOK, OrderInv, [Next]_vars
    PROVE  OrderInv'
<1>1. CASE Next
  BY <1>1, OneReaderStep, BatchAtCursorStep, PendingOrderedStep, ScanCoversStep,
     DeliveredInOrderStep DEF OrderInv
<1>2. CASE UNCHANGED vars
  BY <1>2 DEF vars, disk, store, scanner, OrderInv, OneReader, BatchAtCursor,
     PendingOrdered, ScanCovers, DeliveredInOrder, Synced, Queued,
     AppliedBeforePending, Pending
<1> QED
  BY <1>1, <1>2

-----------------------------------------------------------------------------
\* The checkpoint

\* Where the cursor, the saved position and the checkpoint are: a volume that was not
\* queried has no position, one that was is not behind the checkpoint, and the saved
\* position is the checkpoint until the catchup is done.
PositionsFollow ==
    /\ vol.id = 0 => vol.cursor = 0
    /\ vol.id # 0 => vol.cursor >= 1 /\ vol.cursor >= ckpt.usn
    /\ ckpt.id = 0 => ckpt.usn = 0
    /\ worker \in {"read", "got", "apply", "scan"} \/ mon.pc = "got" => vol.id # 0
    /\ worker \in {"off", "open", "query"} => vol.id = 0 /\ start = 1
    /\ worker \in Resuming => saved = ckpt
    /\ worker \in {"got", "apply"} => start = saved.usn
    /\ worker = "got" => vol.cursor <= batch["worker"].hi + 1
    /\ worker \in {"got", "apply", "install", "done", "finished"} /\ vol.id # 0
          => start <= vol.cursor

\* One thread at a time has a batch between memory and checkpoint.
OneInFlight == /\ stage["worker"] # "idle" => worker = "done" /\ stage["main"] = "idle"
               /\ stage["main"] # "idle" => Synced

\* The image v has every change before position n.
Has(v, n) == \A i \in 1..(n - 1) : log[i] \in File => v[log[i]] >= i

\* What memory has: all the checkpoint passes, and all before the first record this run
\* is to deliver.
MemoryCovers ==
    /\ worker \in {"fullscan", "install"} => ~cached
    /\ cached /\ ~gap /\ worker # "off" => Has(mem, ckpt.usn)
    /\ worker \in Resuming /\ ~lost => Has(mem, saved.usn)
    /\ worker = "install" /\ ~lost => Has(scan, start)
    /\ Synced /\ ~lost => Has(mem, start)

\* Pending batches come after all that.
PendingAfter ==
    \A k \in DOMAIN Pending : /\ cached /\ ~gap => Pending[k].lo >= ckpt.usn
                              /\ ~lost => Pending[k].lo >= start

CheckpointInv == /\ PositionsFollow /\ OneInFlight /\ MemoryCovers
                 /\ PendingAfter /\ CheckpointCovered

\* CheckpointInv holds when the program has not been started.
LEMMA CheckpointInit == Init => CheckpointInv
BY DEF Init, Down, Closed, NoPosition, NoSpan, CheckpointInv, PositionsFollow, OneInFlight,
   MemoryCovers, PendingAfter, CheckpointCovered, Resuming, Synced, Pending, Thread

\* The worker applies its batch when it is done and the event loop has none; the event loop
\* applies one when the worker is done and has none.
LEMMA OneInFlightStep ==
    ASSUME InOrder, TypeOK, OneReader, WorkerIdle, OneInFlight, Next
    PROVE  OneInFlight'
<1> USE DEF OneInFlight, Synced
<1>1. stage \in [Thread -> {"idle", "rows", "checkpoint"}]
  BY DEF TypeOK, ControlOK
<1>2. CASE Volume
  BY <1>2, VolumeStep
<1>3. CASE ApplyQueued
  BY <1>1, <1>3 DEF ApplyQueued, Thread, InOrder, FirstRun, OneReader
<1>4. ASSUME NEW t \in Thread, db_batch_apply(t) \/ _persist_usn_checkpoints(t)
      PROVE  OneInFlight'
  BY <1>1, <1>4 DEF db_batch_apply, _persist_usn_checkpoints, Thread
<1>5. CASE ApplyCatchup
  BY <1>1, <1>5 DEF ApplyCatchup, Thread
<1>6. CASE Quit \/ Crash
  BY <1>6 DEF Quit, Crash, Vanish, Thread
<1>7. CASE LoadFromCache \/ IndexAllDrives \/ OpenVolume \/ QueryJournal \/ CatchupRead
           \/ CatchupReadEnds \/ InstallReindex \/ FullScanEnds \/ InstallFullIndex
           \/ SaveAfterIndexing
  BY <1>7 DEF LoadFromCache, IndexAllDrives, OpenVolume, QueryJournal, CatchupRead,
     CatchupReadEnds, InstallReindex, FullScanEnds, InstallFullIndex, SaveAfterIndexing
<1>8. CASE UNCHANGED <<worker, stage>>
  BY <1>8
<1>9. \/ Volume \/ ApplyQueued \/ ApplyCatchup \/ Quit \/ Crash
      \/ LoadFromCache \/ IndexAllDrives \/ OpenVolume \/ QueryJournal \/ CatchupRead
      \/ CatchupReadEnds \/ InstallReindex \/ FullScanEnds \/ InstallFullIndex
      \/ SaveAfterIndexing \/ UNCHANGED <<worker, stage>>
      \/ \E t \in Thread : db_batch_apply(t) \/ _persist_usn_checkpoints(t)
  BY DEF Next, Indexing, Applying, Monitoring, store, scanner, ScanFile, start_monitoring,
     MonitorRead, MonitorReadEnds, MonitorEmit, MonitorRequery, SaveOnRequest
<1> QED
  BY <1>2, <1>3, <1>4, <1>5, <1>6, <1>7, <1>8, <1>9

\* Every cursor is read from the journal, or read from the checkpoint and moved on.
LEMMA PositionsFollowStep ==
    ASSUME InOrder, TypeOK, OrderInv, OneInFlight, PositionsFollow, Next
    PROVE  PositionsFollow'
<1> USE DEF PositionsFollow, Resuming, Synced
<1>1. /\ jid \in Nat \ {0} /\ NextUsn \in Nat \ {0} /\ first \in Nat \ {0}
      /\ vol.cursor \in Nat /\ ckpt.usn \in Nat /\ ckpt.usn <= NextUsn
      /\ start \in Nat /\ start >= 1
  BY DEF TypeOK, DiskOK, VolOK, PositionsOK, EndPositions, NextUsn, OrderInv, BatchAtCursor
<1>2. CASE Volume
  BY <1>2, VolumeStep DEF store
<1>3. CASE LoadFromCache
  BY <1>3 DEF LoadFromCache, store, OrderInv, OneReader
<1>4. CASE IndexAllDrives
  BY <1>4 DEF IndexAllDrives, store
<1>5. CASE OpenVolume
  BY <1>5 DEF OpenVolume, store
<1>6. CASE QueryJournal
  BY <1>1, <1>6 DEF QueryJournal, store, Queried
<1>7. CASE CatchupRead
  <2>1. saved = ckpt /\ saved.usn >= 1 /\ vol.id # 0
    BY <1>7 DEF CatchupRead, OrderInv, BatchAtCursor
  <2>2. vol' = CursorAt(saved.usn) /\ UNCHANGED <<ckpt, saved, mon>>
    BY <1>7 DEF CatchupRead, ResumePoint, store
  <2>3. CASE worker' = "scan"
    BY <1>1, <2>1, <2>2, <2>3 DEF CursorAt
  <2>4. CASE worker' = "done" /\ start' = saved.usn
    BY <1>1, <2>1, <2>2, <2>4 DEF CursorAt
  <2>5. CASE worker' = "got" /\ start' = saved.usn /\ batch'["worker"] = ReadSpan(saved.usn)
             /\ Readable(vol.id, saved.usn)
    <3>1. saved.usn <= ReadSpan(saved.usn).hi /\ ReadSpan(saved.usn).hi \in Nat
      BY <1>1, <2>1, <2>5, ReadSpanBounds DEF Readable, TypeOK, DiskOK, Span
    <3> QED
      BY <1>1, <2>1, <2>2, <2>5, <3>1 DEF CursorAt
  <2> QED
    BY <1>7, <2>3, <2>4, <2>5 DEF CatchupRead, ResumePoint, TypeOK, TransitOK, Thread
<1>8. CASE CatchupReadEnds
  <2>1. batch["worker"].hi \in Nat
    BY DEF TypeOK, TransitOK, Span, Thread
  <2> QED
    BY <1>1, <1>8, <2>1 DEF CatchupReadEnds, Continuation, CursorAt, store
<1>9. CASE InstallReindex
  BY <1>1, <1>9 DEF InstallReindex, store
<1>10. CASE FullScanEnds
  BY <1>1, <1>10 DEF FullScanEnds, Queried, store, OrderInv, OneReader
<1>11. CASE InstallFullIndex
  BY <1>11 DEF InstallFullIndex, store
<1>12. CASE ApplyCatchup
  BY <1>12 DEF ApplyCatchup, store
<1>13. CASE SaveAfterIndexing
  BY <1>1, <1>13 DEF SaveAfterIndexing, SaveRows, Indexed, VolPosition, store
<1>14. ASSUME NEW t \in Thread, _persist_usn_checkpoints(t)
       PROVE  PositionsFollow'
  <2>1. Synced
    BY <1>14 DEF _persist_usn_checkpoints, OneInFlight, Thread
  <2> QED
    BY <1>1, <1>14, <2>1 DEF _persist_usn_checkpoints, VolPosition
<1>15. CASE MonitorRead
  BY <1>1, <1>15 DEF MonitorRead, Readable, NoSpan, store
<1>16. CASE MonitorReadEnds
  <2>1. /\ mon.span.lo = vol.cursor /\ mon.span.lo <= mon.span.hi /\ mon.span.hi \in Nat
    BY <1>16 DEF MonitorReadEnds, OrderInv, BatchAtCursor, TypeOK, TransitOK, Span
  <2>2. Synced
    BY <1>16 DEF MonitorReadEnds, OrderInv, OneReader
  <2> QED
    BY <1>1, <1>16, <2>1, <2>2 DEF MonitorReadEnds, Continuation, CursorAt, store
<1>17. CASE MonitorRequery
  <2>1. Synced
    BY <1>17 DEF MonitorRequery, OrderInv, OneReader
  <2> QED
    BY <1>1, <1>17, <2>1 DEF MonitorRequery, Queried, store
<1>18. CASE start_monitoring \/ MonitorEmit
  BY <1>18 DEF start_monitoring, MonitorEmit, store
<1>19. CASE Quit
  BY <1>1, <1>19 DEF Quit, Vanish, Closed, SaveRows, Indexed, VolPosition, NoPosition, store
<1>20. CASE Crash
  BY <1>1, <1>20 DEF Crash, Vanish, Closed, store
<1>24. CASE SaveOnRequest
  BY <1>1, <1>24 DEF SaveOnRequest, SaveRows, Indexed, VolPosition, NoPosition, InOrder,
     FirstRun
<1>21. CASE UNCHANGED <<vol, ckpt, mon, saved, worker, start>> /\ batch'["worker"] = batch["worker"]
  BY <1>21
<1>22. ApplyQueued => batch'["worker"] = batch["worker"]
  BY DEF ApplyQueued, TypeOK, TransitOK, Thread
<1>23. \/ Volume \/ LoadFromCache \/ IndexAllDrives \/ OpenVolume \/ QueryJournal \/ CatchupRead
       \/ CatchupReadEnds \/ InstallReindex \/ FullScanEnds \/ InstallFullIndex
       \/ ApplyCatchup \/ SaveAfterIndexing \/ MonitorRead \/ MonitorReadEnds
       \/ MonitorRequery \/ start_monitoring \/ MonitorEmit \/ Quit \/ Crash
       \/ UNCHANGED <<vol, ckpt, mon, saved, worker, start>> /\ batch'["worker"] = batch["worker"]
       \/ SaveOnRequest \/ \E t \in Thread : _persist_usn_checkpoints(t)
  BY <1>22 DEF Next, Indexing, Applying, Monitoring, store, scanner, ScanFile, ApplyQueued,
     db_batch_apply
<1> QED
  BY <1>2, <1>3, <1>4, <1>5, <1>6, <1>7, <1>8, <1>9, <1>10, <1>11, <1>12, <1>13, <1>14, <1>15,
     <1>16, <1>17, <1>18, <1>19, <1>20, <1>21, <1>23, <1>24

\* What is pending comes after the checkpoint and after the first record to deliver.
LEMMA PendingAfterStep ==
    ASSUME InOrder, TypeOK, OrderInv, PositionsFollow, PendingAfter, Next
    PROVE  PendingAfter'
<1> USE DEF PendingAfter
<1>1. CASE ApplyQueued
  <2>1. UNCHANGED <<ckpt, cached, gap, lost, start>>
    BY <1>1 DEF ApplyQueued, store
  <2>2. \A k \in DOMAIN Pending' : k + 1 \in DOMAIN Pending /\ Pending'[k] = Pending[k + 1]
    BY <1>1, PendingTail DEF TypeOK
  <2> QED
    BY <2>1, <2>2
<1>2. CASE MonitorReadEnds
  <2>1. UNCHANGED <<ckpt, cached, gap, lost, start>>
    BY <1>2 DEF MonitorReadEnds, store
  <2>2. mon.span.lo = vol.cursor /\ vol.id # 0 /\ Synced
    BY <1>2 DEF MonitorReadEnds, OrderInv, BatchAtCursor, OneReader, PositionsFollow
  <2>3. mon.span.lo >= ckpt.usn /\ mon.span.lo >= start
    BY <2>2 DEF PositionsFollow, Synced, TypeOK, VolOK, PositionsOK, EndPositions, DiskOK, NextUsn
  <2>4. CASE Pending' = Pending
    BY <2>1, <2>4
  <2>5. CASE Pending' = Append(Pending, mon.span)
    <3>1. \A k \in DOMAIN Pending' : \/ k \in DOMAIN Pending /\ Pending'[k] = Pending[k]
                                    \/ Pending'[k] = mon.span
      BY <1>2, <2>5, PendingAppend DEF TypeOK
    <3> QED
      BY <2>1, <2>3, <3>1
  <2> QED
    BY <1>2, <2>4, <2>5, PendingAppend DEF TypeOK
<1>3. CASE Quit \/ Crash
  BY <1>3 DEF Quit, Crash, Vanish, Pending
<1>4. CASE Pending' = Pending
  <2>1. CASE UNCHANGED <<ckpt, cached, gap, lost, start>>
    BY <1>4, <2>1
  <2>2. CASE Pending = <<>>
    BY <1>4, <2>2
  <2>3. CASE MonitorRequery
    BY <1>4, <2>3 DEF MonitorRequery, store
  <2>4. ASSUME NEW t \in Thread, _persist_usn_checkpoints(t)
        PROVE  PendingAfter'
    <3>1. UNCHANGED <<cached, lost, start>>
      BY <2>4 DEF _persist_usn_checkpoints
    <3>2. CASE gap' = (gap \/ lost \/ behind \/ Pending # <<>>)
      BY <1>4, <2>2, <3>1, <3>2
    <3>3. CASE UNCHANGED <<ckpt, gap>>
      BY <2>1, <3>1, <3>3
    <3> QED
      BY <2>4, <3>2, <3>3 DEF _persist_usn_checkpoints
  <2>5. CASE ~Synced
    BY <2>2, <2>5, NothingPending DEF OrderInv
  <2>7. CASE SaveAfterIndexing \/ SaveOnRequest
    <3>1. UNCHANGED <<lost, start>> /\ (SaveRows \/ UNCHANGED store)
      BY <2>7 DEF SaveAfterIndexing, SaveOnRequest
    <3>2. CASE UNCHANGED store
      BY <2>1, <3>1, <3>2 DEF store
    <3>3. CASE SaveRows
      BY <1>4, <2>2, <3>1, <3>3 DEF SaveRows
    <3> QED
      BY <3>1, <3>2, <3>3
  <2>6. \/ ~Synced \/ SaveAfterIndexing \/ SaveOnRequest \/ MonitorRequery
        \/ UNCHANGED <<ckpt, cached, gap, lost, start>>
        \/ Quit \/ Crash \/ \E t \in Thread : _persist_usn_checkpoints(t)
    BY VolumeStep DEF Next, Indexing, Applying, Monitoring, store, LoadFromCache, IndexAllDrives,
       OpenVolume, QueryJournal, CatchupRead, CatchupReadEnds, ScanFile, InstallReindex,
       FullScanEnds, InstallFullIndex, ApplyCatchup, ApplyQueued, Synced,
       db_batch_apply, start_monitoring, MonitorRead, MonitorReadEnds, MonitorEmit
  <2> QED
    BY <1>3, <2>1, <2>3, <2>4, <2>5, <2>6, <2>7
<1> QED
  BY <1>1, <1>2, <1>3, <1>4, PendingFrame

\* A batch that begins at or after n takes nothing before n from an image.
LEMMA ReplayHas ==
    ASSUME NEW v \in Image, NEW lo \in Nat, NEW hi \in Nat, NEW n \in Nat, n <= lo, Has(v, n)
    PROVE  Has(Replay(v, lo, hi), n)
<1> DEFINE w == Replay(v, lo, hi)
<1>1. w \in Image /\ \A f \in File : w[f] = v[f] \/ w[f] >= lo
  BY ReplayBounds
<1> HIDE DEF w
<1>2. \A f \in File : w[f] \in Nat /\ v[f] \in Nat
  BY <1>1 DEF Image
<1>3. \A i \in 1..(n - 1) : log[i] \in File => w[log[i]] >= i
  BY <1>1, <1>2 DEF Has
<1> QED
  BY <1>3 DEF Has, w

\* A record the volume writes comes after every position.
LEMMA VolumeHas ==
    ASSUME TypeOK, Volume
    PROVE  \A v : \A n \in EndPositions :
              Has(v, n) => \A i \in 1..(n - 1) : log'[i] \in File => v[log'[i]] >= i
<1>1. Len(log) \in Nat /\ \A i \in 1..Len(log) : log'[i] = log[i]
  BY VolumeStep DEF TypeOK, DiskOK
<1> QED
  BY <1>1 DEF Has, EndPositions, NextUsn

\* With nothing pending and nothing lost, memory has all the cursor has passed.
LEMMA MemoryHasCursor ==
    ASSUME TypeOK, OrderInv, MemoryCovers, Synced, ~lost, Pending = <<>>
    PROVE  Has(mem, vol.cursor)
<1>1. \A i \in start..(vol.cursor - 1) : log[i] \in File => mem[log[i]] >= i
  BY DEF OrderInv, DeliveredInOrder, Queued, AppliedBeforePending
<1>2. \A i \in 1..(start - 1) : log[i] \in File => mem[log[i]] >= i
  BY DEF MemoryCovers, Has
<1>3. start \in Nat /\ vol.cursor \in Nat
  BY DEF TypeOK, PositionsOK, VolOK, EndPositions, DiskOK, NextUsn
<1> QED
  BY <1>1, <1>2, <1>3 DEF Has

\* A checkpoint that is written passes a change memory lacks only with a gap.
LEMMA WrittenCovers ==
    ASSUME TypeOK, OrderInv, MemoryCovers, Synced,
           ckpt' = VolPosition, ~gap' => ~lost /\ Pending = <<>>, UNCHANGED <<log, mem>>
    PROVE  ~gap' => Has(mem, ckpt.usn)'
<1>1. ckpt'.usn = vol.cursor
  BY DEF VolPosition
<1>2. ~gap' => Has(mem, vol.cursor)
  BY MemoryHasCursor
<1> QED
  BY <1>1, <1>2 DEF Has

\* Memory starts as the rows or as a scan and loses nothing to a batch.
LEMMA MemoryCoversStep ==
    ASSUME InOrder, TypeOK, OrderInv, CheckpointInv, Next
    PROVE  MemoryCovers'
<1> USE DEF CheckpointInv, MemoryCovers
<1>1. /\ log \in Seq(File \cup {Noise}) /\ Len(log) \in Nat
      /\ mem \in [File -> Nat] /\ scan \in [File -> Nat] /\ db \in [File -> Nat]
      /\ vol.cursor \in Nat /\ ckpt.usn \in EndPositions /\ start \in EndPositions
      /\ saved.usn \in EndPositions /\ EndPositions \in SUBSET Nat
  BY DEF TypeOK, DiskOK, ImagesOK, Image, VolOK, PositionsOK, EndPositions, NextUsn
<1>2. CASE Volume
  <2>1. UNCHANGED <<worker, cached, gap, lost, mem, scan, ckpt, saved, start>>
    BY <1>2, VolumeStep DEF store, scanner
  <2> QED
    BY <1>1, <1>2, <2>1, VolumeHas DEF Has, Synced
<1>3. CASE LoadFromCache
  <2>1. cached /\ worker' = "open" /\ mem' = db /\ saved' = ckpt /\ lost' = gap
        /\ UNCHANGED <<log, ckpt, cached, gap, scan, start>>
    BY <1>3 DEF LoadFromCache, disk, store, scanner
  <2> QED
    BY <2>1 DEF CheckpointCovered, Has, Resuming, Synced
<1>4. CASE IndexAllDrives
  BY <1>4 DEF IndexAllDrives, Resuming, Synced, store
<1>5. CASE OpenVolume
  <2>1. /\ worker = "open" /\ worker' \in {"query", "done"}
        /\ UNCHANGED <<log, ckpt, cached, gap, lost, mem, saved, scan, start>>
    BY <1>5 DEF OpenVolume, disk, store, scanner
  <2> QED
    BY <2>1 DEF Has, Resuming, Synced, PositionsFollow
<1>6. CASE QueryJournal
  <2>1. /\ worker = "query" /\ worker' \in {"read", "scan", "done"}
        /\ UNCHANGED <<log, ckpt, cached, gap, lost, mem, saved, start>>
    BY <1>6 DEF QueryJournal, disk, store
  <2> QED
    BY <2>1 DEF Has, Resuming, Synced, PositionsFollow
<1>7. CASE CatchupRead
  <2>1. /\ worker = "read" /\ UNCHANGED <<log, ckpt, cached, gap, lost, mem, saved>>
        /\ \/ worker' = "scan"
           \/ worker' \in {"got", "done"} /\ start' = saved.usn
    BY <1>7 DEF CatchupRead, disk, store
  <2> QED
    BY <2>1 DEF Has, Resuming, Synced
<1>8. CASE CatchupReadEnds
  <2>1. /\ worker = "got" /\ worker' \in {"apply", "done"} /\ start = saved.usn
        /\ UNCHANGED <<log, ckpt, cached, gap, lost, mem, saved, start>>
    BY <1>8 DEF CatchupReadEnds, disk, store, PositionsFollow
  <2> QED
    BY <2>1 DEF Has, Resuming, Synced
<1>9. CASE InstallReindex
  <2>1. /\ worker = "scan" /\ todo = {} /\ worker' = "done" /\ mem' = scan /\ start' = 1
        /\ UNCHANGED <<log, ckpt, cached, gap, saved>>
    BY <1>9 DEF InstallReindex, disk, store
  <2>2. \A i \in 1..(vol.cursor - 1) : log[i] \in File => scan[log[i]] >= i
    BY <2>1 DEF OrderInv, ScanCovers
  <2>3. vol.cursor >= ckpt.usn
    BY <2>1 DEF PositionsFollow
  <2>4. \A i \in 1..(ckpt.usn - 1) : i \in 1..(vol.cursor - 1)
    <3>1. ckpt.usn \in Nat
      BY <1>1
    <3>2. ASSUME NEW a \in Nat, NEW b \in Nat, b >= a
          PROVE  \A i \in 1..(a - 1) : i \in 1..(b - 1)
      BY <3>2
    <3> QED
      BY <1>1, <2>3, <3>1, <3>2, Zenon
  <2>5. Has(mem, ckpt.usn)'
    BY <2>1, <2>2, <2>4 DEF Has
  <2>6. Has(mem, start)'
    BY <2>1 DEF Has
  <2> QED
    BY <2>1, <2>5, <2>6 DEF Resuming
<1>10. CASE FullScanEnds
  <2>1. /\ worker = "fullscan" /\ worker' = "install" /\ start' = NextUsn
        /\ lost' = \E f \in File : scan[f] # Latest(f)
        /\ UNCHANGED <<log, cached, scan>>
    BY <1>10 DEF FullScanEnds, disk, store, scanner
  <2>2. ~lost' => \A i \in 1..Len(log) : log[i] \in File => scan[log[i]] >= i
    BY <1>1, <2>1, LatestBounds
  <2>3. ~lost' => Has(scan, start)'
    BY <1>1, <2>1, <2>2 DEF Has, NextUsn
  <2> QED
    BY <2>1, <2>3 DEF Resuming, Synced
<1>11. CASE InstallFullIndex
  BY <1>11 DEF InstallFullIndex, disk, store, Has, Resuming, Synced
<1>12. CASE ApplyCatchup
  <2> DEFINE lo == batch["worker"].lo
             hi == batch["worker"].hi
  <2>1. /\ worker = "apply" /\ worker' = "done" /\ mem' = Replay(mem, lo, hi)
        /\ UNCHANGED <<log, ckpt, cached, gap, lost, saved, start>>
    BY <1>12 DEF ApplyCatchup, disk, store
  <2>2. lo = start /\ start = saved.usn /\ saved = ckpt /\ lo \in Nat /\ hi \in Nat
    BY <2>1 DEF OrderInv, BatchAtCursor, PositionsFollow, Resuming, TypeOK, TransitOK, Thread, Span
  <2> HIDE DEF lo, hi
  <2>3. Has(mem, lo) => Has(Replay(mem, lo, hi), lo)
    BY <1>1, <2>2, ReplayHas DEF Image
  <2>4. start = lo /\ saved.usn = lo /\ ckpt.usn = lo
    BY <2>2
  <2>5. Has(mem, lo) => Has(mem, start)' /\ Has(mem, ckpt.usn)'
    BY <2>1, <2>3, <2>4 DEF Has
  <2> QED
    BY <2>1, <2>4, <2>5 DEF Resuming, Synced
<1>13. CASE ApplyQueued
  <2> DEFINE lo == Pending[1].lo
             hi == Pending[1].hi
  <2>1. /\ Synced /\ mem' = Replay(mem, lo, hi) /\ 1 \in DOMAIN Pending
        /\ UNCHANGED <<log, ckpt, cached, gap, lost, saved, start, worker>>
    BY <1>13, PendingTail DEF ApplyQueued, disk, store, TypeOK, OrderInv, OneReader
  <2>2. lo \in Nat /\ hi \in Nat
    BY <2>1, PendingElements DEF TypeOK
  <2>3. /\ cached /\ ~gap => lo >= ckpt.usn
        /\ ~lost => lo >= start
    BY <2>1 DEF PendingAfter
  <2> HIDE DEF lo, hi
  <2>4. \A n \in Nat : n <= lo /\ Has(mem, n) => Has(Replay(mem, lo, hi), n)
    BY <1>1, <2>2, ReplayHas DEF Image
  <2>5. lo >= start /\ Has(mem, start) => Has(mem, start)'
    BY <1>1, <2>1, <2>2, <2>4 DEF Has
  <2>6. lo >= ckpt.usn /\ Has(mem, ckpt.usn) => Has(mem, ckpt.usn)'
    BY <1>1, <2>1, <2>2, <2>4 DEF Has
  <2> QED
    BY <2>1, <2>3, <2>5, <2>6 DEF Resuming, Synced
<1>14. CASE SaveAfterIndexing
  <2>1. /\ worker = "done" /\ worker' = "finished"
        /\ UNCHANGED <<log, mem, lost, start>>
    BY <1>14 DEF SaveAfterIndexing, disk
  <2>2. CASE SaveRows
    BY <2>1, <2>2, WrittenCovers DEF SaveRows, Indexed, Synced, Has, Resuming
  <2>3. CASE UNCHANGED store
    BY <2>1, <2>3 DEF store, Has, Resuming, Synced
  <2> QED
    BY <1>14, <2>2, <2>3 DEF SaveAfterIndexing
<1>15. ASSUME NEW t \in Thread, _persist_usn_checkpoints(t)
       PROVE  MemoryCovers'
  <2>1. Synced /\ UNCHANGED <<log, mem, lost, start, worker, cached>>
    BY <1>15 DEF _persist_usn_checkpoints, OneInFlight, Synced, Thread, disk
  <2>2. CASE ckpt' = VolPosition /\ gap' = (gap \/ lost \/ behind \/ Pending # <<>>)
    BY <2>1, <2>2, WrittenCovers DEF Has, Resuming, Synced
  <2>3. CASE UNCHANGED <<ckpt, gap>>
    BY <2>1, <2>3 DEF Has, Resuming, Synced
  <2> QED
    BY <1>15, <2>2, <2>3 DEF _persist_usn_checkpoints
<1>16. CASE MonitorRequery
  <2>1. /\ Synced /\ UNCHANGED <<log, mem, ckpt, cached, gap, saved, worker>>
        /\ lost' = TRUE \/ UNCHANGED <<lost, start>>
    BY <1>16 DEF MonitorRequery, disk, store, OrderInv, OneReader
  <2> QED
    BY <2>1 DEF Has, Resuming, Synced
<1>17. CASE Quit \/ Crash
  BY <1>17 DEF Quit, Crash, Vanish, Resuming, Synced
<1>21. CASE SaveOnRequest
  <2>1. SaveRows /\ worker # "off" /\ UNCHANGED <<log, mem, scan, worker, lost, start, saved>>
    BY <1>21 DEF SaveOnRequest, disk, scanner
  <2>2. Synced \/ ~Indexed
    BY <1>21, <2>1 DEF SaveOnRequest, Indexed, Synced, InOrder, FirstRun, Resuming, TypeOK,
       ControlOK
  <2>3. CASE Synced
    BY <2>1, <2>3, WrittenCovers DEF SaveRows, Indexed, Synced, Has, Resuming
  <2>4. CASE ~Indexed
    BY <2>1, <2>4 DEF SaveRows, Indexed, Synced, Has, Resuming
  <2> QED
    BY <2>2, <2>3, <2>4
<1>18. ASSUME NEW f \in File, ScanFile(f)
       PROVE  MemoryCovers'
  BY <1>18 DEF ScanFile, disk, store, Has, Resuming, Synced
<1>19. CASE UNCHANGED <<log, mem, ckpt, cached, gap, saved, worker, lost, start, scan>>
  BY <1>19 DEF Has, Resuming, Synced
<1>20. \/ Volume \/ LoadFromCache \/ IndexAllDrives \/ OpenVolume \/ QueryJournal \/ CatchupRead
       \/ CatchupReadEnds \/ InstallReindex \/ FullScanEnds \/ InstallFullIndex
       \/ ApplyCatchup \/ ApplyQueued \/ SaveAfterIndexing \/ MonitorRequery \/ Quit \/ Crash
       \/ UNCHANGED <<log, mem, ckpt, cached, gap, saved, worker, lost, start, scan>>
       \/ SaveOnRequest
       \/ (\E t \in Thread : _persist_usn_checkpoints(t)) \/ \E f \in File : ScanFile(f)
  BY DEF Next, Indexing, Applying, Monitoring, disk, store, scanner, db_batch_apply,
     start_monitoring, MonitorRead, MonitorReadEnds, MonitorEmit
<1> QED
  BY <1>2, <1>3, <1>4, <1>5, <1>6, <1>7, <1>8, <1>9, <1>10, <1>11, <1>12, <1>13, <1>14, <1>15,
     <1>16, <1>17, <1>18, <1>19, <1>20, <1>21

\* Rows get what memory has; a checkpoint is written only when the rows are the entries,
\* or with a gap.
LEMMA CheckpointCoveredStep ==
    ASSUME InOrder, TypeOK, OrderInv, RowsInv, CheckpointInv, Next
    PROVE  CheckpointCovered'
<1> USE DEF CheckpointCovered
<1>1. /\ db \in [File -> Nat] /\ mem \in [File -> Nat] /\ ckpt.usn \in EndPositions
      /\ stage \in [Thread -> {"idle", "rows", "checkpoint"}]
  BY DEF TypeOK, ImagesOK, Image, PositionsOK, ControlOK
<1>2. CASE Volume
  <2>1. UNCHANGED <<db, ckpt, cached, gap>>
    BY <1>2, VolumeStep DEF store
  <2>2. Has(db, ckpt.usn) =>
            \A i \in 1..(ckpt.usn - 1) : log'[i] \in File => db[log'[i]] >= i
    BY <1>1, <1>2, VolumeHas
  <2> QED
    BY <2>1, <2>2 DEF CheckpointInv, Has
<1>3. ASSUME NEW t \in Thread, db_batch_apply(t)
      PROVE  CheckpointCovered'
  <2>1. /\ stage[t] = "rows" /\ UNCHANGED <<log, ckpt, cached, gap>>
        /\ \A f \in File : db'[f] = db[f] \/ db'[f] = mem[f]
    BY <1>3 DEF db_batch_apply, disk
  <2>2. worker # "off"
    BY <2>1 DEF CheckpointInv, OneInFlight, Synced, Thread
  <2>3. cached /\ ~gap => Has(mem, ckpt.usn)
    BY <2>2 DEF CheckpointInv, MemoryCovers
  <2> QED
    BY <2>1, <2>3 DEF CheckpointInv, Has
<1>4. ASSUME NEW t \in Thread, _persist_usn_checkpoints(t)
      PROVE  CheckpointCovered'
  <2>1. /\ stage[t] = "checkpoint" /\ UNCHANGED <<log, db, mem, cached>>
    BY <1>4 DEF _persist_usn_checkpoints, disk
  <2>2. Synced /\ worker # "off" /\ \A u \in Thread : stage[u] # "rows"
    BY <2>1 DEF CheckpointInv, OneInFlight, Synced, Thread
  <2>3. CASE ckpt' = VolPosition /\ gap' = (gap \/ lost \/ behind \/ Pending # <<>>)
    <3>1. ~gap' => Has(mem, ckpt.usn)'
      BY <2>1, <2>2, <2>3, WrittenCovers DEF CheckpointInv, Synced
    <3>2. ~gap' => \A f \in File : db[f] = mem[f]
      BY <2>2, <2>3 DEF RowsInv, RowsFollow, InFlight
    <3> QED
      BY <2>1, <3>1, <3>2 DEF Has
  <2>4. CASE UNCHANGED <<ckpt, gap>>
    BY <2>1, <2>4 DEF CheckpointInv
  <2> QED
    BY <1>4, <2>3, <2>4 DEF _persist_usn_checkpoints
<1>5. ASSUME Synced, SaveRows, UNCHANGED log
      PROVE  CheckpointCovered'
  <2>1. Indexed
    BY <1>5 DEF Synced, Indexed
  <2>2. db' = mem /\ ckpt' = VolPosition /\ gap' = (lost \/ Pending # <<>>)
    BY <1>5, <2>1 DEF SaveRows
  <2>3. ~gap' => Has(mem, vol.cursor)
    BY <1>5, <2>2, MemoryHasCursor DEF CheckpointInv
  <2> QED
    BY <1>5, <2>2, <2>3 DEF Has, VolPosition
<1>6. CASE SaveAfterIndexing
  BY <1>5, <1>6 DEF SaveAfterIndexing, Synced, disk, store, CheckpointInv
<1>7. CASE Quit \/ SaveOnRequest
  <2>1. UNCHANGED log /\ (SaveRows \/ UNCHANGED store)
    BY <1>7 DEF Quit, SaveOnRequest, disk
  <2>2. Synced \/ ~Indexed
    BY <1>7 DEF Quit, SaveOnRequest, Indexed, Synced, InOrder, FirstRun, Resuming, TypeOK,
       ControlOK
  <2>3. CASE UNCHANGED store
    BY <2>1, <2>3 DEF store, CheckpointInv
  <2>4. CASE SaveRows /\ ~Indexed
    BY <2>4 DEF SaveRows
  <2> QED
    BY <1>5, <2>1, <2>2, <2>3, <2>4
<1>8. CASE UNCHANGED <<log, db, ckpt, cached, gap>>
  BY <1>8 DEF CheckpointInv
<1>9. \/ Volume \/ SaveAfterIndexing \/ Quit \/ SaveOnRequest
      \/ UNCHANGED <<log, db, ckpt, cached, gap>>
      \/ \E t \in Thread : db_batch_apply(t) \/ _persist_usn_checkpoints(t)
  BY DEF Next, Indexing, Applying, Monitoring, disk, store, LoadFromCache, IndexAllDrives,
     OpenVolume, QueryJournal, CatchupRead, CatchupReadEnds, ScanFile, InstallReindex,
     FullScanEnds, InstallFullIndex, ApplyCatchup, ApplyQueued, start_monitoring,
     MonitorRead, MonitorReadEnds, MonitorEmit, MonitorRequery, Crash
<1> QED
  BY <1>2, <1>3, <1>4, <1>6, <1>7, <1>8, <1>9

\* CheckpointInv is inductive while reading follows loading.
LEMMA CheckpointStep ==
    ASSUME InOrder, TypeOK, OrderInv, RowsInv, CheckpointInv, [Next]_vars
    PROVE  CheckpointInv'
<1>1. CASE Next
  <2>1. OneReader
    BY DEF OrderInv
  <2> QED
    BY <1>1, <2>1, OneInFlightStep, PositionsFollowStep, PendingAfterStep, MemoryCoversStep,
       CheckpointCoveredStep DEF CheckpointInv, RowsInv
<1>2. CASE UNCHANGED vars
  BY <1>2 DEF vars, disk, store, scanner, CheckpointInv, PositionsFollow, OneInFlight,
     MemoryCovers, PendingAfter, CheckpointCovered, Has, Synced, Resuming, Pending
<1> QED
  BY <1>1, <1>2

\* A run that is not the first has been counted, and the first one has no rows to load.
LEMMA FirstRunStep ==
    ASSUME TypeOK, runs <= 1 => FirstRun, Next
    PROVE  runs' >= runs /\ (runs' <= 1 => FirstRun')
<1> USE DEF FirstRun, Resuming
<1>1. runs \in Nat /\ stage \in [Thread -> {"idle", "rows", "checkpoint"}]
  BY DEF TypeOK, ControlOK
<1>2. CASE LoadFromCache \/ IndexAllDrives
  BY <1>1, <1>2 DEF LoadFromCache, IndexAllDrives
<1>3. CASE SaveOnRequest
  BY <1>1, <1>3 DEF SaveOnRequest
<1>4. CASE Quit
  BY <1>1, <1>4 DEF Quit, Vanish, Thread
<1>5. CASE Crash
  BY <1>1, <1>5 DEF Crash, Vanish, store, Thread
<1>6. CASE Volume
  BY <1>1, <1>6, VolumeStep DEF store
<1>7. ASSUME NEW f \in File, ScanFile(f)
      PROVE  runs' >= runs /\ (runs' <= 1 => FirstRun')
  BY <1>1, <1>7 DEF ScanFile, store
<1>8. CASE OpenVolume \/ QueryJournal \/ CatchupRead \/ CatchupReadEnds \/ InstallReindex
           \/ ApplyCatchup
  <2>1. worker \in Resuming \cup {"scan"} /\ runs' = runs
    BY <1>8 DEF OpenVolume, QueryJournal, CatchupRead, CatchupReadEnds, InstallReindex,
       ApplyCatchup
  <2> QED
    BY <1>1, <2>1
<1>13. CASE FullScanEnds \/ InstallFullIndex
  <2>1. /\ worker \in {"fullscan", "install"} /\ worker' \in {"install", "done"}
        /\ runs' = runs /\ stage' = stage
    BY <1>13 DEF FullScanEnds, InstallFullIndex
  <2> QED
    BY <1>1, <2>1
<1>9. CASE SaveAfterIndexing
  BY <1>1, <1>9 DEF SaveAfterIndexing
<1>10. CASE ApplyQueued
  BY <1>1, <1>10 DEF ApplyQueued, store, Thread
<1>11. ASSUME NEW t \in Thread, db_batch_apply(t) \/ _persist_usn_checkpoints(t)
       PROVE  runs' >= runs /\ (runs' <= 1 => FirstRun')
  BY <1>1, <1>11 DEF db_batch_apply, _persist_usn_checkpoints, Thread
<1>12. CASE Monitoring
  BY <1>1, <1>12 DEF Monitoring, start_monitoring, MonitorRead, MonitorReadEnds, MonitorEmit,
     MonitorRequery, store
<1> QED
  BY <1>2, <1>3, <1>4, <1>5, <1>6, <1>7, <1>8, <1>9, <1>10, <1>11, <1>12, <1>13
     DEF Next, Indexing, Applying

\* What holds of every run in the service's order, and of the first run in the GUI's.
JournalInv == /\ RowsInv
              /\ runs <= 1 => FirstRun
              /\ ~Concurrent \/ runs <= 1 => OrderInv /\ CheckpointInv

\* JournalInv is inductive, in either order.
LEMMA JournalStep ==
    ASSUME TypeOK, JournalInv, [Next]_vars
    PROVE  JournalInv'
<1>1. RowsInv'
  BY SpansStep, WorkerIdleStep, RowsFollowStep, RowsStutter DEF RowsInv, JournalInv
<1>2. runs' >= runs /\ (runs' <= 1 => FirstRun')
  <2>1. CASE Next
    BY <2>1, FirstRunStep DEF JournalInv
  <2>2. CASE UNCHANGED vars
    BY <2>2 DEF vars, store, FirstRun, JournalInv, TypeOK, ControlOK
  <2> QED
    BY <2>1, <2>2
<1>3. ASSUME ~Concurrent \/ runs' <= 1
      PROVE  OrderInv' /\ CheckpointInv'
  <2>1. runs \in Nat /\ runs' >= runs
    BY <1>2 DEF TypeOK, ControlOK
  <2>2. InOrder /\ OrderInv /\ RowsInv /\ CheckpointInv
    <3>1. CASE ~Concurrent
      BY <3>1 DEF JournalInv, InOrder
    <3>2. CASE runs' <= 1
      <4>1. runs' \in Nat
        BY TypeStep DEF TypeOK, ControlOK
      <4>2. runs <= 1
        BY <2>1, <3>2, <4>1
      <4> QED
        BY <4>2 DEF JournalInv, InOrder
    <3> QED
      BY <1>3, <3>1, <3>2
  <2> QED
    BY <2>2, OrderStep, CheckpointStep
<1> QED
  BY <1>1, <1>2, <1>3 DEF JournalInv

\* JournalInv holds in every state of the program.
LEMMA JournalInvariant == Spec => [](TypeOK /\ JournalInv)
<1>1. Init => JournalInv
  <2>1. Init => FirstRun
    BY DEF Init, Down, FirstRun, Resuming, Thread
  <2> QED
    BY <2>1, OrderInit, RowsInit, CheckpointInit DEF JournalInv
<1>2. TypeOK /\ JournalInv /\ [Next]_vars => JournalInv'
  BY JournalStep
<1> QED
  BY <1>1, <1>2, TypeCorrect, PTL DEF Spec

\* The service, which catches up before it monitors, never moves the volume
\* cursor over a change that it neither applies nor queues for its event loop.
THEOREM ServiceDropsNoRecord ==
    ASSUME ~Concurrent PROVE Spec => []NoRecordDropped
<1>1. JournalInv => NoRecordDropped
  BY DEF JournalInv, OrderInv, DeliveredInOrder, NoRecordDropped, AppliedBeforePending
<1> QED
  BY <1>1, JournalInvariant, PTL

\* In the program's first run the same holds of the GUI, whose monitor reads and whose event
\* loop applies while the worker saves; and a save the user asks for at any time leaves no
\* checkpoint that passes a change its rows lack, but for the causes CheckpointCovered names.
THEOREM FirstRunIsWhole == Spec => []FirstRunKeepsAll
<1>1. TypeOK /\ JournalInv => FirstRunKeepsAll
  <2> SUFFICES ASSUME JournalInv, runs = 1
               PROVE  NoRecordDropped /\ CheckpointCovered
    BY DEF FirstRunKeepsAll
  <2>1. OrderInv /\ CheckpointInv
    BY DEF JournalInv
  <2> QED
    BY <2>1 DEF OrderInv, CheckpointInv, DeliveredInOrder, NoRecordDropped,
       AppliedBeforePending
<1> QED
  BY <1>1, JournalInvariant, PTL

\* What the stored checkpoint passes, the stored rows have, unless batches were queued when
\* it was written, a batch or save had failed, the journal wrapped under the monitor or
\* files changed behind the first scan: whatever the service stops or crashes in.
THEOREM CheckpointIsCovered ==
    ASSUME ~Concurrent PROVE Spec => []CheckpointCovered
<1>1. JournalInv => CheckpointCovered
  BY DEF JournalInv, CheckpointInv
<1> QED
  BY <1>1, JournalInvariant, PTL

\* A step of the service that changes the checkpoint does not move it back within a journal.
THEOREM CheckpointGoesOn ==
    ASSUME ~Concurrent PROVE Spec => CheckpointMonotone
<1>1. TypeOK /\ JournalInv /\ [Next]_vars => (ckpt'.id = ckpt.id => ckpt'.usn >= ckpt.usn)
  <2> SUFFICES ASSUME TypeOK, JournalInv, [Next]_vars, ckpt'.id = ckpt.id
               PROVE  ckpt'.usn >= ckpt.usn
    OBVIOUS
  <2>1. ckpt.usn \in Nat /\ vol.cursor \in Nat
    BY DEF TypeOK, PositionsOK, VolOK, EndPositions, DiskOK, NextUsn
  <2>2. CASE ckpt' = VolPosition
    BY <2>1, <2>2 DEF VolPosition, JournalInv, CheckpointInv, PositionsFollow
  <2>3. CASE ckpt' = ckpt
    BY <2>1, <2>3
  <2>4. ckpt' = VolPosition \/ ckpt' = ckpt
    <3>1. SaveAfterIndexing \/ Quit => ckpt' = VolPosition \/ ckpt' = ckpt
      BY DEF SaveAfterIndexing, Quit, SaveRows, Indexed, store
    <3>2. CASE Volume
      BY <3>2, VolumeStep DEF store
    <3> QED
      BY <3>1, <3>2 DEF Next, Indexing, Applying, Monitoring, vars, store, LoadFromCache,
         IndexAllDrives, OpenVolume, QueryJournal, CatchupRead, CatchupReadEnds, ScanFile,
         InstallReindex, FullScanEnds, InstallFullIndex, ApplyCatchup, ApplyQueued,
         db_batch_apply, _persist_usn_checkpoints, start_monitoring, MonitorRead,
         MonitorReadEnds, MonitorEmit, MonitorRequery, SaveOnRequest, Crash
  <2> QED
    BY <2>2, <2>3, <2>4
<1> QED
  BY <1>1, JournalInvariant, PTL DEF Spec, CheckpointMonotone

=============================================================================

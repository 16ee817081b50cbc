------------------------------- MODULE UsnSync -------------------------------
(***************************************************************************)
(* One NTFS drive of QuickFind's index: the USN change journal of the      *)
(* volume, the volume cursor, the in-memory index, the SQLite rows with    *)
(* their journal checkpoint, and the threads that move data between them   *)
(* (core/index.py, core/ntfs.py, core/cache.py).                           *)
(*                                                                         *)
(* A USN is a position in `log`.  A journal record is the file it closes,  *)
(* or Noise: a record without the CLOSE reason, which is read and dropped. *)
(* The state of a file is the USN of its last record, so an index image    *)
(* (mem, db, scan) maps every file to the USN it reflects, 0 if none.      *)
(*                                                                         *)
(* The Windows service runs load, catchup, save and monitoring in that     *)
(* order on one thread (Concurrent = FALSE).  The GUI runs load and        *)
(* catchup on IndexWorker and starts the monitor as soon as the cache is   *)
(* loaded, while its event loop applies what the monitor queues            *)
(* (Concurrent = TRUE).                                                    *)
(***************************************************************************)
EXTENDS Integers, Sequences, FiniteSetsExt

CONSTANTS File,       \* the files of the drive
          Noise,      \* a journal record that closes no file
          Buf,        \* records one 64 KiB read of the journal returns
          MaxUsn,     \* bound: records the volume ever writes
          MaxId,      \* bound: journals the volume ever has
          MaxRuns,    \* bound: times the program is started
          Concurrent  \* TRUE: the GUI's order; FALSE: the service's order

ASSUME UsnSyncAssumption ==
    /\ Noise \notin File
    /\ Buf \in Nat \ {0}
    /\ MaxUsn \in Nat
    /\ MaxId \in Nat \ {0}
    /\ MaxRuns \in Nat
    /\ Concurrent \in BOOLEAN

VARIABLES
    log,      \* every record the volume wrote
    first,    \* FirstUsn: older records are purged
    jid,      \* id of the active journal
    vol,      \* NTFSVolume: open, _journal_id, _next_usn
    mem,      \* FileIndex._entries
    queue,    \* changes_detected batches the event loop has not delivered
    mon,      \* USNMonitorThread: control and the batch it has read
    worker,   \* control of load_from_cache, usn_catchup, index_all_drives
    stage,    \* per thread, where it is inside _apply_usn_changes
    batch,    \* per thread, the batch it applies
    scan,     \* drive_entries of a running MFT scan
    todo,     \* files the running scan has not enumerated
    saved,    \* _pending_usn_positions
    db,       \* entries rows
    ckpt,     \* drives row: journal_id, next_usn
    cached,   \* the drives row exists
    runs,     \* times the program was started
    start,    \* history: first record this run is to deliver to memory
    lost,     \* history: memory may miss a record the cursor has passed
    behind,   \* history: rows may miss what memory holds
    gap       \* history: rows may miss a record the checkpoint has passed

disk == <<log, first, jid>>
store == <<db, ckpt, cached, gap>>
scanner == <<scan, todo>>
vars == <<disk, store, scanner, vol, mem, queue, mon, worker, stage, batch,
          saved, runs, start, lost, behind>>

Thread == {"main", "worker"}
Span == [lo : Nat, hi : Nat]
Image == [File -> Nat]
Position == [id : Nat, usn : Nat]
NoSpan == [lo |-> 1, hi |-> 0]
NoPosition == [id |-> 0, usn |-> 0]
Closed == [open |-> FALSE, id |-> 0, cursor |-> 0]
Blank == [f \in File |-> 0]

NextUsn == Len(log) + 1
Touches(f, lo, hi) == {i \in lo..hi : log[i] = f}
Latest(f) == Max({0} \cup Touches(f, 1, Len(log)))
HasCloseAtHead(lo, hi) == log[lo] # Noise  \* mutant: looks at one record only
HasClose(lo, hi) == \E i \in lo..hi : log[i] # Noise

\* The image v after the close records lo..hi, applied in journal order.
Replay(v, lo, hi) ==
    [f \in File |-> IF Touches(f, lo, hi) = {}
                    THEN v[f]
                    ELSE Max(Touches(f, lo, hi))]

-----------------------------------------------------------------------------
\* The journal (Windows)

\* The outcomes of FSCTL_READ_USN_JOURNAL from position n of journal id.
Readable(id, n) == id = jid /\ n >= first /\ n < NextUsn
Wrapped(id, n) == id = jid /\ n < first
ReadSpan(n) == [lo |-> n, hi |-> Min({Len(log), n + Buf - 1})]

ContinuationBeyond(span) == span.hi + 2  \* mutant: off by one

\* The continuation USN that heads the buffer; it becomes _next_usn.
Continuation(span) == span.hi + 1

\* The state of the program that is not running.
Down ==
    /\ vol = Closed /\ mem = Blank /\ queue = <<>>
    /\ mon = [pc |-> "off", span |-> NoSpan]
    /\ worker = "off"
    /\ stage = [t \in Thread |-> "idle"]
    /\ batch = [t \in Thread |-> NoSpan]
    /\ scan = Blank /\ todo = {}
    /\ saved = NoPosition
    /\ start = 1 /\ lost = FALSE /\ behind = FALSE

Init ==
    /\ log = <<>> /\ first = 1 /\ jid = 1
    /\ db = Blank /\ ckpt = NoPosition /\ cached = FALSE /\ gap = FALSE
    /\ runs = 0
    /\ Down

ChangeFile(r) ==
    /\ Len(log) < MaxUsn
    /\ log' = Append(log, r)
    /\ UNCHANGED <<first, jid, store, scanner, vol, mem, queue, mon, worker,
                   stage, batch, saved, runs, start, lost, behind>>

PurgeJournal ==
    /\ first < NextUsn
    /\ first' \in (first + 1)..NextUsn
    /\ UNCHANGED <<log, jid, store, scanner, vol, mem, queue, mon, worker,
                   stage, batch, saved, runs, start, lost, behind>>

RecreateJournal ==
    /\ jid < MaxId
    /\ jid' = jid + 1
    /\ first' = NextUsn
    /\ UNCHANGED <<log, store, scanner, vol, mem, queue, mon, worker, stage,
                   batch, saved, runs, start, lost, behind>>

-----------------------------------------------------------------------------
\* IndexWorker.run, run_index_service: load or full index

LoadFromCache ==
    /\ worker = "off" /\ runs < MaxRuns /\ cached
    /\ runs' = runs + 1
    /\ mem' = db
    /\ saved' = ckpt
    /\ worker' = "open"
    /\ lost' = gap
    /\ UNCHANGED <<disk, store, scanner, vol, queue, mon, stage, batch, start,
                   behind>>

IndexAllDrives ==
    /\ worker = "off" /\ runs < MaxRuns /\ ~cached
    /\ runs' = runs + 1
    /\ worker' = "fullscan"
    /\ todo' = File /\ scan' = Blank
    /\ behind' = TRUE
    /\ UNCHANGED <<disk, store, vol, mem, queue, mon, stage, batch, saved,
                   start, lost>>

\* usn_catchup opens the drive and publishes the volume before querying it.
OpenVolume ==
    /\ worker = "open"
    /\ \/ /\ vol' = [open |-> TRUE, id |-> 0, cursor |-> 0]
          /\ worker' = "query"
       \/ /\ worker' = "done"
          /\ UNCHANGED vol
    /\ UNCHANGED <<disk, store, scanner, mem, queue, mon, stage, batch, saved,
                   runs, start, lost, behind>>

CursorAt(n) == [open |-> TRUE, id |-> vol.id, cursor |-> n]
Queried == [open |-> TRUE, id |-> jid, cursor |-> NextUsn]

_usn_resume_decision(p) ==
    IF p.id # jid \/ p.usn <= 0 \/ p.usn < first THEN "reindex" ELSE "catchup"

QueryJournal ==
    /\ worker = "query"
    /\ \/ /\ vol' = Queried
          /\ IF _usn_resume_decision(saved) = "catchup"
             THEN /\ worker' = "read"
                  /\ UNCHANGED scanner
             ELSE /\ worker' = "scan"
                  /\ todo' = File /\ scan' = Blank
       \/ /\ worker' = "done"
          /\ UNCHANGED <<vol, scanner>>
    /\ UNCHANGED <<disk, store, mem, queue, mon, stage, batch, saved, runs,
                   start, lost, behind>>

\* vol.read_usn_journal(start_usn=next_usn): the cursor moves to the saved
\* position before the read; a failed or empty read yields no records.
ResumeAtEnd == vol.cursor  \* mutant: read_usn_journal without start_usn
ResumeAtFirst == first      \* mutant: resumes at FirstUsn
ResumePoint == saved.usn

CatchupRead ==
    /\ worker = "read"
    /\ LET n == ResumePoint IN
       /\ vol' = CursorAt(n)
       /\ \/ /\ Wrapped(vol.id, n)
             /\ worker' = "scan"
             /\ todo' = File /\ scan' = Blank
             /\ UNCHANGED <<batch, start>>
          \/ /\ Readable(vol.id, n)
             /\ worker' = "got"
             /\ batch' = [batch EXCEPT !["worker"] = ReadSpan(n)]
             /\ start' = saved.usn
             /\ UNCHANGED scanner
          \/ /\ ~Wrapped(vol.id, n)
             /\ worker' = "done"
             /\ start' = saved.usn
             /\ UNCHANGED <<batch, scanner>>
    /\ UNCHANGED <<disk, store, mem, queue, mon, stage, saved, runs, lost,
                   behind>>

CatchupReadEnds ==
    /\ worker = "got"
    /\ vol' = CursorAt(Continuation(batch["worker"]))
    /\ worker' = IF HasClose(batch["worker"].lo, batch["worker"].hi)
                 THEN "apply" ELSE "done"
    /\ UNCHANGED <<disk, store, scanner, mem, queue, mon, stage, batch, saved,
                   runs, start, lost, behind>>

\* enumerate_mft_direct: one file record of a running scan.
ScanFile(f) ==
    /\ worker \in {"scan", "fullscan"}
    /\ f \in todo
    /\ scan' = [scan EXCEPT ![f] = Latest(f)]
    /\ todo' = todo \ {f}
    /\ UNCHANGED <<disk, store, vol, mem, queue, mon, worker, stage, batch,
                   saved, runs, start, lost, behind>>

\* _reindex_drive replaces the entries; the cursor is not queried again.
InstallReindex ==
    /\ worker = "scan" /\ todo = {}
    /\ mem' = scan
    /\ worker' = "done"
    /\ start' = 1
    /\ lost' = FALSE
    /\ behind' = TRUE
    /\ UNCHANGED <<disk, store, scanner, vol, queue, mon, stage, batch, saved,
                   runs>>

\* _index_single_ntfs_drive queries the journal after its scan.
FullScanEnds ==
    /\ worker = "fullscan" /\ todo = {}
    /\ \/ vol' = Queried
       \/ vol' = [open |-> TRUE, id |-> 0, cursor |-> 0]
    /\ worker' = "install"
    /\ start' = NextUsn
    /\ lost' = \E f \in File : scan[f] # Latest(f)
    /\ UNCHANGED <<disk, store, scanner, mem, queue, mon, stage, batch, saved,
                   runs, behind>>

InstallFullIndex ==
    /\ worker = "install"
    /\ mem' = scan
    /\ worker' = "done"
    /\ behind' = TRUE
    /\ UNCHANGED <<disk, store, scanner, vol, queue, mon, stage, batch, saved,
                   runs, start, lost>>

-----------------------------------------------------------------------------
\* _apply_usn_changes: entries under the lock, rows, checkpoint

\* IndexWorker applies the catchup batch itself.
ApplyCatchup ==
    /\ worker = "apply"
    /\ mem' = Replay(mem, batch["worker"].lo, batch["worker"].hi)
    /\ stage' = [stage EXCEPT !["worker"] = "rows"]
    /\ worker' = "done"
    /\ UNCHANGED <<disk, store, scanner, vol, queue, mon, batch, saved, runs,
                   start, lost, behind>>

\* The event loop delivers the oldest changes_detected signal.
ApplyQueued ==
    /\ queue # <<>>
    /\ stage["main"] = "idle"
    /\ Concurrent \/ worker = "finished"
    /\ mem' = Replay(mem, Head(queue).lo, Head(queue).hi)
    /\ batch' = [batch EXCEPT !["main"] = Head(queue)]
    /\ queue' = Tail(queue)
    /\ stage' = [stage EXCEPT !["main"] = "rows"]
    /\ UNCHANGED <<disk, store, scanner, vol, mon, worker, saved, runs, start,
                   lost, behind>>

\* mutant: an UPDATE where INSERT OR REPLACE is needed
UpdateRows(t) ==
    /\ stage[t] = "rows"
    /\ db' = [f \in File |->
                 IF Touches(f, batch[t].lo, batch[t].hi) = {} \/ db[f] = 0
                 THEN db[f] ELSE mem[f]]
    /\ stage' = [stage EXCEPT ![t] = "checkpoint"]
    /\ UNCHANGED <<disk, scanner, ckpt, cached, gap, vol, mem, queue, mon,
                   worker, batch, saved, runs, start, lost, behind>>

\* db_batch_apply commits the batch's rows from the live entries, or rolls back.
db_batch_apply(t) ==
    /\ stage[t] = "rows"
    /\ \/ /\ db' = [f \in File |->
                       IF Touches(f, batch[t].lo, batch[t].hi) = {}
                       THEN db[f] ELSE mem[f]]
          /\ stage' = [stage EXCEPT ![t] = "checkpoint"]
          /\ UNCHANGED behind
       \/ /\ behind' = TRUE
          /\ stage' = [stage EXCEPT ![t] = "idle"]
          /\ UNCHANGED db
    /\ UNCHANGED <<disk, scanner, ckpt, cached, gap, vol, mem, queue, mon,
                   worker, batch, saved, runs, start, lost>>

\* The batches the cursor has passed and the event loop has not applied.
Pending == IF mon.pc = "emit" THEN Append(queue, mon.span) ELSE queue

\* What the volume's position is when it is asked for (get_usn_positions).
VolPosition == [id |-> vol.id, usn |-> vol.cursor]

\* mutant: the checkpoint is written before the rows
CheckpointFirst(t) ==
    /\ stage[t] = "rows"
    /\ vol.open /\ vol.id > 0 /\ cached /\ ckpt # VolPosition
    /\ ckpt' = VolPosition
    /\ gap' = (gap \/ lost \/ behind \/ Pending # <<>>)
    /\ UNCHANGED <<disk, scanner, db, cached, vol, mem, queue, mon, worker,
                   stage, batch, saved, runs, start, lost, behind>>

\* Skipped without a position; the UPDATE finds no row before the first save.
_persist_usn_checkpoints(t) ==
    /\ stage[t] = "checkpoint"
    /\ stage' = [stage EXCEPT ![t] = "idle"]
    /\ \/ /\ vol.open /\ vol.id > 0 /\ vol.cursor > 0 /\ cached
          /\ ckpt' = VolPosition
          /\ gap' = (gap \/ lost \/ behind \/ Pending # <<>>)
       \/ UNCHANGED <<ckpt, gap>>
    /\ UNCHANGED <<disk, scanner, db, cached, vol, mem, queue, mon, worker,
                   batch, saved, runs, start, lost, behind>>

-----------------------------------------------------------------------------
\* save_cache: rows and checkpoint replaced in one transaction, or not at all

\* Until a first full index is installed the drive has no entries and no volume.
Indexed == worker \notin {"fullscan", "install"}

SaveRows ==
    /\ db' = mem
    /\ ckpt' = IF Indexed THEN VolPosition ELSE NoPosition
    /\ cached' = Indexed
    /\ gap' = (Indexed /\ (lost \/ Pending # <<>>))

\* The save after the worker has finished.
SaveAfterIndexing ==
    /\ worker = "done"
    /\ stage["worker"] = "idle" /\ stage["main"] = "idle"
    /\ worker' = "finished"
    /\ \/ SaveRows /\ behind' = FALSE
       \/ UNCHANGED <<store, behind>>
    /\ UNCHANGED <<disk, scanner, vol, mem, queue, mon, stage, batch, saved,
                   runs, start, lost>>

\* Saves the user asks for in the GUI: diagnostics, an EFU list refresh.
SaveOnRequest ==
    /\ Concurrent
    /\ worker # "off" /\ stage["main"] = "idle"
    /\ SaveRows
    /\ behind' = FALSE
    /\ UNCHANGED <<disk, scanner, vol, mem, queue, mon, worker, stage, batch,
                   saved, runs, start, lost>>

-----------------------------------------------------------------------------
\* USNMonitorThread.run

\* The GUI starts it on cache_loaded, the service after the save.
start_monitoring ==
    /\ mon.pc = "off"
    /\ IF Concurrent
       THEN worker \notin {"off", "fullscan", "install"}
       ELSE worker = "finished"
    /\ mon' = [pc |-> "poll", span |-> NoSpan]
    /\ UNCHANGED <<disk, store, scanner, vol, mem, queue, worker, stage, batch,
                   saved, runs, start, lost, behind>>

MonitorRead ==
    /\ mon.pc = "poll" /\ vol.open
    /\ \/ /\ Readable(vol.id, vol.cursor)
          /\ mon' = [pc |-> "got", span |-> ReadSpan(vol.cursor)]
       \/ /\ Wrapped(vol.id, vol.cursor)
          /\ mon' = [pc |-> "wrapped", span |-> NoSpan]
    /\ UNCHANGED <<disk, store, scanner, vol, mem, queue, worker, stage, batch,
                   saved, runs, start, lost, behind>>

CursorStays ==  \* mutant: a read that closes nothing leaves the cursor where it is
    /\ mon.pc = "got"
    /\ IF HasClose(mon.span.lo, mon.span.hi)
       THEN /\ vol' = CursorAt(Continuation(mon.span))
            /\ mon' = [pc |-> "emit", span |-> mon.span]
       ELSE /\ vol' = vol
            /\ mon' = [pc |-> "poll", span |-> NoSpan]
    /\ UNCHANGED <<disk, store, scanner, mem, queue, worker, stage, batch, saved,
                   runs, start, lost, behind>>
\* The read moves the cursor; the batch is emitted after the other drives' reads.
MonitorReadEnds ==
    /\ mon.pc = "got"
    /\ vol' = CursorAt(Continuation(mon.span))
    /\ mon' = IF HasClose(mon.span.lo, mon.span.hi)
              THEN [pc |-> "emit", span |-> mon.span]
              ELSE [pc |-> "poll", span |-> NoSpan]
    /\ UNCHANGED <<disk, store, scanner, mem, queue, worker, stage, batch, saved,
                   runs, start, lost, behind>>

MonitorEmit ==
    /\ mon.pc = "emit"
    /\ queue' = Append(queue, mon.span)
    /\ mon' = [pc |-> "poll", span |-> NoSpan]
    /\ UNCHANGED <<disk, store, scanner, vol, mem, worker, stage, batch, saved,
                   runs, start, lost, behind>>

MonitorRequery ==
    /\ mon.pc = "wrapped"
    /\ mon' = [pc |-> "poll", span |-> NoSpan]
    /\ \/ /\ vol' = Queried
          /\ start' = NextUsn
          /\ lost' = TRUE
       \/ UNCHANGED <<vol, start, lost>>
    /\ UNCHANGED <<disk, store, scanner, mem, queue, worker, stage, batch,
                   saved, runs, behind>>

-----------------------------------------------------------------------------
\* End of a run.  All but the store is gone, queued batches included.

Vanish ==
    /\ vol' = Closed /\ mem' = Blank /\ queue' = <<>>
    /\ mon' = [pc |-> "off", span |-> NoSpan]
    /\ worker' = "off"
    /\ stage' = [t \in Thread |-> "idle"]
    /\ batch' = [t \in Thread |-> NoSpan]
    /\ scan' = Blank /\ todo' = {}
    /\ saved' = NoPosition
    /\ start' = 1 /\ lost' = FALSE /\ behind' = FALSE

\* _quit and the service's stop save first and stop the monitor afterwards.
Quit ==
    /\ worker # "off" /\ stage["main"] = "idle"
    /\ Concurrent \/ worker = "finished"
    /\ SaveRows \/ UNCHANGED store
    /\ Vanish
    /\ UNCHANGED <<disk, runs>>

Crash ==
    /\ worker # "off"
    /\ Vanish
    /\ UNCHANGED <<disk, store, runs>>

-----------------------------------------------------------------------------
Volume == (\E r \in File \cup {Noise} : ChangeFile(r))
          \/ PurgeJournal \/ RecreateJournal
Indexing == \/ OpenVolume \/ QueryJournal \/ CatchupRead \/ CatchupReadEnds
            \/ (\E f \in File : ScanFile(f))
            \/ InstallReindex \/ FullScanEnds \/ InstallFullIndex \/ ApplyCatchup
            \/ SaveAfterIndexing
Applying == \/ ApplyQueued
            \/ \E t \in Thread : db_batch_apply(t) \/ _persist_usn_checkpoints(t)
Monitoring == \/ start_monitoring \/ MonitorRead \/ MonitorReadEnds
              \/ MonitorEmit \/ MonitorRequery

Next == \/ Volume
        \/ LoadFromCache \/ IndexAllDrives
        \/ Indexing \/ Applying \/ Monitoring
        \/ SaveOnRequest \/ Quit \/ Crash

Spec == Init /\ [][Next]_vars

\* The program's threads keep running; nobody has to change a file, start
\* the program or stop it.
Fairness == WF_vars(Indexing) /\ WF_vars(Applying) /\ WF_vars(Monitoring)
FairSpec == Spec /\ Fairness

-----------------------------------------------------------------------------
\* Type invariant: in particular, no position passes the end of the journal.
EndPositions == 0..NextUsn
DiskOK == /\ log \in Seq(File \cup {Noise})
          /\ first \in 1..NextUsn
          /\ jid \in Nat \ {0}
VolOK == vol \in [open : BOOLEAN, id : 0..jid, cursor : EndPositions]
ImagesOK == mem \in Image /\ db \in Image /\ scan \in Image
TransitOK == /\ queue \in Seq(Span)
             /\ mon \in [pc : {"off", "poll", "got", "emit", "wrapped"}, span : Span]
             /\ batch \in [Thread -> Span]
             /\ mon.span.hi <= Len(log) /\ batch["worker"].hi <= Len(log)
ControlOK == /\ worker \in {"off", "open", "query", "read", "got", "apply",
                            "scan", "fullscan", "install", "done", "finished"}
             /\ stage \in [Thread -> {"idle", "rows", "checkpoint"}]
             /\ todo \subseteq File
             /\ runs \in Nat
PositionsOK == /\ saved \in Position /\ saved.usn \in EndPositions
               /\ ckpt \in Position /\ ckpt.usn \in EndPositions
               /\ start \in EndPositions
FlagsOK == /\ cached \in BOOLEAN /\ gap \in BOOLEAN
           /\ lost \in BOOLEAN /\ behind \in BOOLEAN
TypeOK == /\ DiskOK /\ VolOK /\ ImagesOK /\ TransitOK
          /\ ControlOK /\ PositionsOK /\ FlagsOK

\* Every close record this run is responsible for and the cursor has passed is
\* in memory, or in a batch the event loop still has to apply: no read, wrap
\* reset, catchup or reindex moves the cursor over a change it drops.
Queued(i) == \E k \in DOMAIN Pending : i \in Pending[k].lo..Pending[k].hi
Synced == worker \in {"done", "finished"}
NoRecordDropped ==
    Synced => \A i \in start..(vol.cursor - 1) :
                  log[i] \in File => mem[log[i]] >= i \/ Queued(i)

\* The stored checkpoint may pass a change the stored rows lack only for one of
\* four causes: batches were queued when it was written, a batch or the save of
\* a reindex had failed, the journal wrapped under the monitor, or files changed
\* between the first scan and the query behind it.
CheckpointCovered ==
    cached /\ ~gap =>
        \A i \in 1..(ckpt.usn - 1) : log[i] \in File => db[log[i]] >= i

\* The program's first run, which indexes the drive instead of catching up,
\* drops no record and checkpoints none its rows lack, in the GUI too.
FirstRunKeepsAll == runs = 1 => NoRecordDropped /\ CheckpointCovered

\* With no batch in flight and none failed since the last save, the rows are
\* the entries in memory.
RowsMirrorMemory ==
    worker # "off" /\ ~behind /\ (\A t \in Thread : stage[t] = "idle")
        => db = mem

\* A checkpoint never moves back within one journal.
CheckpointMonotone ==
    [][ckpt'.id = ckpt.id => ckpt'.usn >= ckpt.usn]_ckpt

\* A change the run is responsible for reaches memory unless the run ends, the
\* journal wraps under the monitor, the journal is replaced or the volume could
\* not be opened and queried.
Current(i) == Synced /\ vol.open /\ vol.id = jid /\ vol.cursor >= first
              /\ i \in start..Len(log) /\ log[i] \in File
ChangesReachMemory ==
    \A i \in 1..MaxUsn :
        Current(i) ~> (~Current(i) \/ mem[log[i]] >= i)
-----------------------------------------------------------------------------
\* Why the service, and the first run in the GUI, drop no record: load, catchup
\* and monitoring follow each other, so each batch starts at the cursor and the
\* pending batches are those of consecutive reads.
OneReader == mon.pc # "off" \/ queue # <<>> => Synced
BatchAtCursor ==
    /\ mon.pc = "got" => /\ 1 <= mon.span.lo /\ mon.span.lo <= mon.span.hi
                         /\ mon.span.lo = vol.cursor
    /\ worker = "read" => saved.usn >= 1
    /\ worker \in {"got", "apply"} => start = batch["worker"].lo
    /\ worker = "apply" => vol.cursor = batch["worker"].hi + 1
    /\ worker \in {"off", "open", "query"} => vol.cursor = 0
    /\ worker = "install" => vol.cursor <= start
    /\ start >= 1
PendingOrdered ==
    \A k \in DOMAIN Pending :
        /\ 1 <= Pending[k].lo /\ Pending[k].hi < vol.cursor
        /\ \A m \in DOMAIN Pending : k < m => Pending[k].hi < Pending[m].lo
ScanCovers ==
    worker = "scan" => \A i \in 1..(vol.cursor - 1) :
                           log[i] \in File \ todo => scan[log[i]] >= i
AppliedBeforePending(i) ==
    mem[log[i]] >= i /\ \A k \in DOMAIN Pending : i < Pending[k].lo
DeliveredInOrder ==
    Synced => \A i \in start..(vol.cursor - 1) :
                  log[i] \in File => Queued(i) \/ AppliedBeforePending(i)
OrderInv == /\ OneReader /\ BatchAtCursor /\ PendingOrdered
              /\ ScanCovers /\ DeliveredInOrder
=============================================================================

------------------------------ MODULE Desktop ------------------------------
(***************************************************************************)
(* The desktop program from start to quit: the main window's event loop    *)
(* (src/gui/main_window.py) with the threads it starts over the index      *)
(* (src/core/index.py): IndexWorker, and the thread that walks non-NTFS    *)
(* drives again.  What they fill is the index, source by source: local     *)
(* drives, network shares and EFU file lists; what survives a crash is the *)
(* settings and the cache database.                                        *)
(*                                                                         *)
(* A source is abstracted to the version of its content and the version of *)
(* the rules (exclusions, reparse points) it was walked under.  What the   *)
(* records of a journal do is in UsnSync and UsnBatch, a drive's scan in   *)
(* DriveScan, the searches a step triggers in SearchTabs, the HTTP server  *)
(* in HttpServer, the writing of the settings file in Profile.  Saves of   *)
(* the cache fail here only while the database is damaged; UsnSync has the *)
(* other failures.                                                         *)
(***************************************************************************)
EXTENDS Integers, Sequences, FiniteSets

CONSTANTS Drive,             \* local drives
          Walked,            \* those without NTFS: the rescan thread walks them again
          Share,             \* network shares that may be configured
          List,              \* EFU file lists that may be configured
          MaxChanges,        \* bound on the changes of settings and sources
          MaxStarts,         \* bound on the starts of the program
          CanCrash           \* whether the process may die

ASSUME DesktopAssumption ==
    /\ Walked \subseteq Drive
    /\ Drive \cap Share = {} /\ Drive \cap List = {} /\ Share \cap List = {}
    /\ MaxChanges \in Nat /\ MaxStarts \in Nat /\ CanCrash \in BOOLEAN

Source == Drive \cup Share \cup List
None == "none"

VARIABLES
    world,      \* the content of every source on its medium; 0: not there
    settings,   \* [shares, lists, rules]: MainWindow._settings, saved on every change
    disk,       \* the cache database: source -> entry or Absent
    healthy,    \* PRAGMA integrity_check finds it ok
    changes,    \* changes so far
    starts,     \* starts of the program so far
    gui,        \* the event loop: down, boot, idle, waiting (in _quit), closing
    events,     \* signals queued for the event loop
    index,      \* FileIndex._entries: source -> entry or Absent
    listed,     \* MainWindow._efu_source_paths: the lists loaded by this process
    mtime,      \* MainWindow._efu_mtimes: the version loaded, or 0
    worker,     \* IndexWorker: none, delay, load, loading, begin, scan, ending
    cached,     \* the worker was started with use_cache, and the cache is loaded
    named,      \* the shares the worker was started with
    todo,       \* sources the worker has still to visit
    cancelled,  \* FileIndex._cancel_flag
    walk,       \* the walk a thread is in: thread -> [at, entry]
    rescan,     \* FATRescanThread: off, on
    missed,     \* history: sources indexed under old rules, or not, by a named cause
    unsaved     \* history: sources the rescan thread stored since the last save

medium == <<world, healthy>>
outside == <<medium, settings, disk, changes, starts>>
work == <<worker, cached, named, todo, cancelled>>
memory == <<index, listed, mtime, walk, rescan>>
history == <<missed, unsaved>>
vars == <<outside, gui, events, work, memory, history>>

Absent == [rules |-> 0, seen |-> 0]
Thread == {"worker", "rescan"}
NoWalk == [at |-> None, entry |-> Absent]

Up == gui \notin {"down", "boot"}
Indexed == {s \in Source : index[s] # Absent}

-----------------------------------------------------------------------------
\* The state of a process that has not begun.
Fresh ==
    /\ events' = << >>
    /\ index' = [s \in Source |-> Absent]
    /\ listed' = {} /\ mtime' = [e \in List |-> 0]
    /\ worker' = "none" /\ cached' = FALSE /\ named' = {} /\ todo' = {} /\ cancelled' = FALSE
    /\ walk' = [t \in Thread |-> NoWalk]
    /\ rescan' = "off"
    /\ missed' = {} /\ unsaved' = {}

Init ==
    /\ world = [s \in Source |-> 1]
    /\ settings = [shares |-> Share, lists |-> List, rules |-> 1]
    /\ disk = [s \in Source |-> Absent] /\ healthy = TRUE
    /\ changes = 0 /\ starts = 0
    /\ gui = "down" /\ events = << >>
    /\ index = [s \in Source |-> Absent]
    /\ listed = {} /\ mtime = [e \in List |-> 0]
    /\ worker = "none" /\ cached = FALSE /\ named = {} /\ todo = {} /\ cancelled = FALSE
    /\ walk = [t \in Thread |-> NoWalk]
    /\ rescan = "off"
    /\ missed = {} /\ unsaved = {}

\* The content of a source changes, or it goes away and comes back.  Drives stay.
ChangeSource(s) ==
    /\ changes < MaxChanges
    /\ changes' = changes + 1
    /\ \/ world' = [world EXCEPT ![s] = changes + 2]
       \/ s \notin Drive /\ world[s] # 0 /\ world' = [world EXCEPT ![s] = 0]
    /\ UNCHANGED <<settings, disk, healthy, starts, gui, events, work, memory, history>>

\* The database file is damaged while nobody uses it.
DamageDatabase ==
    /\ gui = "down" /\ healthy /\ changes < MaxChanges
    /\ \E s \in Source : disk[s] # Absent
    /\ healthy' = FALSE
    /\ changes' = changes + 1
    /\ UNCHANGED <<world, settings, disk, starts, gui, events, work, memory, history>>

\* The program starts; a timer starts the indexing.
Boot ==
    /\ gui = "down" /\ starts < MaxStarts
    /\ starts' = starts + 1
    /\ gui' = "boot"
    /\ UNCHANGED <<medium, settings, disk, changes, events, work, memory, history>>

\* The process dies: what is on disk stays.
Crash ==
    /\ CanCrash /\ gui # "down"
    /\ gui' = "down"
    /\ Fresh
    /\ UNCHANGED outside

-----------------------------------------------------------------------------
\* The event loop

\* _start_indexing, _start_indexing_with_cache: nothing while a worker's thread runs.
StartWorker(useCache) ==
    IF worker = "none"
    THEN /\ worker' = "delay" /\ cached' = useCache /\ named' = settings'.shares
         /\ todo' = {}
    ELSE UNCHANGED <<worker, cached, named, todo>>

\* QTimer.singleShot(100, self._start_indexing_with_cache).
_start_indexing_with_cache ==
    /\ gui = "boot"
    /\ gui' = "idle"
    /\ UNCHANGED settings
    /\ StartWorker(TRUE)
    /\ UNCHANGED <<medium, disk, changes, starts, events, cancelled, memory, history>>

\* FileIndex.save_to_cache: every source in memory replaces what the database held,
\* unless that is damaged.
save_to_cache(contents) ==
    IF healthy THEN disk' = contents /\ unsaved' = {} ELSE UNCHANGED <<disk, unsaved>>

\* The lists _refresh_efu_files(force) loads: each that exists, when forced, changed
\* since, or not in the index.
Due(force, lists) ==
    {e \in lists : /\ world[e] # 0
                   /\ force \/ mtime[e] # world[e] \/ index[e] = Absent}

\* The index after _refresh_efu_files.
Refreshed(force, lists) ==
    [s \in Source |->
        CASE s \in Due(force, lists) -> [rules |-> 0, seen |-> world[s]]
          [] s \in listed \ lists    -> Absent
          [] OTHER                   -> index[s]]

\* Mutant of _refresh_efu_files: lists that left the settings stay.
RefreshKeepsLists(force, lists) ==
    LET due == Due(force, lists)
        new == [s \in Source |->
                   IF s \in due THEN [rules |-> 0, seen |-> world[s]] ELSE index[s]]
    IN /\ index' = new
       /\ listed' = listed \cup due
       /\ mtime' = [e \in List |-> IF e \in due THEN world[e] ELSE mtime[e]]
       /\ IF due # {} THEN save_to_cache(new) ELSE UNCHANGED <<disk, unsaved>>

\* _refresh_efu_files: lists are loaded, those no longer configured are dropped,
\* and the cache is saved when anything changed.
_refresh_efu_files(force, lists) ==
    LET due  == Due(force, lists)
        gone == listed \ lists
        new  == Refreshed(force, lists)
    IN /\ index' = new
       /\ listed' = (listed \cup due) \ gone
       /\ mtime' = [e \in List |-> CASE e \in due  -> world[e]
                                     [] e \in gone -> 0
                                     [] OTHER      -> mtime[e]]
       /\ IF due \cup gone # {} THEN save_to_cache(new) ELSE UNCHANGED <<disk, unsaved>>

\* The interval timer of the lists.
EfuTimer ==
    /\ gui = "idle" /\ settings.lists # {}
    /\ Due(FALSE, settings.lists) # {}
    /\ _refresh_efu_files(FALSE, settings.lists)
    /\ UNCHANGED <<medium, settings, changes, starts, gui, events, work, walk, rescan, missed>>

\* Mutant of start_monitoring: only the journals are watched.
MonitorJournals(contents) == rescan' = rescan

\* FileIndex.start_monitoring: the rescan thread runs when some drive was walked.
start_monitoring(contents) ==
    rescan' = IF \E d \in Walked : contents[d] # Absent THEN "on" ELSE rescan

\* indexing_complete is delivered: the lists, then the monitoring.
_on_indexing_complete ==
    /\ gui = "idle" /\ events # << >> /\ Head(events) = "complete"
    /\ events' = Tail(events)
    /\ _refresh_efu_files(TRUE, settings.lists)
    /\ start_monitoring(index')
    /\ UNCHANGED <<medium, settings, changes, starts, gui, work, walk, missed>>

\* cache_loaded is delivered.
_on_cache_loaded ==
    /\ gui = "idle" /\ events # << >> /\ Head(events) = "loaded"
    /\ events' = Tail(events)
    /\ start_monitoring(index)
    /\ UNCHANGED <<outside, gui, work, index, listed, mtime, walk, history>>

\* Mutant of _on_index_worker_done: the cache is not saved.
DoneUnsaved ==
    /\ gui = "idle" /\ events # << >> /\ Head(events) = "done"
    /\ events' = Tail(events)
    /\ UNCHANGED <<outside, gui, work, memory, history>>

\* finished is delivered: the cache is saved.
_on_index_worker_done ==
    /\ gui = "idle" /\ events # << >> /\ Head(events) = "done"
    /\ events' = Tail(events)
    /\ save_to_cache(index)
    /\ UNCHANGED <<medium, settings, changes, starts, gui, work, memory, missed>>

\* Mutant of Reindexes: new shares wait for the next full index.
RulesOnly(old, new) == old.rules # new.rules

\* Whether new settings start a full index: exclusions, reparse points or shares.
Reindexes(old, new) == old.rules # new.rules \/ old.shares # new.shares

\* _on_settings_changed: the settings are saved, the lists refreshed when theirs
\* changed, and a full index started when the rules or the shares did, but not while
\* a worker runs.
_on_settings_changed ==
    /\ gui = "idle" /\ changes < MaxChanges
    /\ changes' = changes + 1
    /\ \E shares \in SUBSET Share, lists \in SUBSET List, more \in {0, 1} :
         /\ settings' = [shares |-> shares, lists |-> lists, rules |-> settings.rules + more]
         /\ settings' # settings
    /\ IF settings'.lists # settings.lists
       THEN _refresh_efu_files(TRUE, settings'.lists)
       ELSE UNCHANGED <<disk, index, listed, mtime, unsaved>>
    /\ IF Reindexes(settings, settings')
       THEN StartWorker(FALSE)
       ELSE UNCHANGED <<worker, cached, named, todo>>
    /\ missed' = IF worker # "none" /\ <<settings.rules, settings.shares>>
                                       # <<settings'.rules, settings'.shares>>
                 THEN Drive \cup Share ELSE missed
    /\ UNCHANGED <<medium, starts, gui, events, cancelled, walk, rescan>>

\* _quit: the cache is saved, the worker told to end and given three seconds.
_quit ==
    /\ gui = "idle"
    /\ save_to_cache(index)
    /\ cancelled' = (cancelled \/ worker # "none")
    /\ gui' = "waiting"
    /\ UNCHANGED <<medium, settings, changes, starts, events, worker, cached, named, todo,
                   memory, missed>>

\* Mutant of WaitEnds: the wait has no limit.
WaitsForEver ==
    /\ gui = "waiting" /\ worker = "none"
    /\ gui' = "closing"
    /\ UNCHANGED <<outside, events, work, memory, history>>

\* Its wait is over, because the worker has ended or the time is up.
WaitEnds ==
    /\ gui = "waiting"
    /\ gui' = "closing"
    /\ UNCHANGED <<outside, events, work, memory, history>>

\* Mutant of shutdown: the cache is saved once more, at the very end.
ShutdownSaves ==
    /\ gui = "closing"
    /\ gui' = "down"
    /\ Fresh
    /\ disk' = index
    /\ UNCHANGED <<medium, settings, changes, starts>>

\* FileIndex.shutdown: monitoring stops, the volumes are closed, the process ends.
shutdown ==
    /\ gui = "closing"
    /\ gui' = "down"
    /\ Fresh
    /\ UNCHANGED outside

-----------------------------------------------------------------------------
\* IndexWorker.run, on its own thread

\* _wait_for_startup_delay ends, at once when the flag is set.
DelayEnds ==
    /\ Up /\ worker = "delay"
    /\ worker' = IF cached THEN "load" ELSE "begin"
    /\ UNCHANGED <<outside, gui, events, cached, named, todo, cancelled, memory, history>>

\* load_from_cache begins: without a database a full index follows.
LoadBegins ==
    /\ Up /\ worker = "load" /\ healthy
    /\ IF \A s \in Source : disk[s] = Absent
       THEN worker' = "begin" /\ UNCHANGED cancelled
       ELSE worker' = "loading" /\ cancelled' = FALSE
    /\ UNCHANGED <<outside, gui, events, cached, named, todo, memory, history>>

\* recover_db: the damaged file is moved away or deleted; or neither, while another
\* connection holds it open.
recover_db ==
    \/ healthy' = TRUE /\ disk' = [s \in Source |-> Absent]
    \/ UNCHANGED <<disk, healthy>>

\* ensure_db_healthy finds the damage: nothing is loaded and a full index follows.
LoadRefused ==
    /\ Up /\ worker = "load" /\ ~healthy
    /\ recover_db
    /\ worker' = "begin" /\ cancelled' = FALSE
    /\ UNCHANGED <<world, settings, changes, starts, gui, events, cached, named, todo>>
    /\ UNCHANGED <<memory, history>>

\* load_cache: each source of the database replaces its entries in memory.
Loaded == [s \in Source |-> IF disk[s] # Absent THEN disk[s] ELSE index[s]]

\* load_from_cache ends.  The drives to catch up are those the cache holds.
LoadEnds ==
    /\ Up /\ worker = "loading"
    /\ index' = Loaded
    /\ events' = events \o <<"complete", "loaded">>
    /\ worker' = "scan"
    /\ todo' = {d \in Drive : Loaded[d] # Absent} \cup named
    /\ UNCHANGED <<outside, gui, cached, named, cancelled, listed, mtime, walk, rescan, history>>

\* index_all_drives begins: it clears the flag, whoever set it.
ScanBegins ==
    /\ Up /\ worker = "begin"
    /\ cancelled' = FALSE
    /\ worker' = "scan" /\ cached' = FALSE /\ todo' = Drive \cup named
    /\ UNCHANGED <<outside, gui, events, named, memory, history>>

\* The sources that may come next: drives before shares.
Ready == IF todo \cap Drive # {} THEN todo \cap Drive ELSE todo

\* The next source is opened under the rules of the moment, or passed over when it
\* is not there.
WalkBegins(s) ==
    /\ Up /\ worker = "scan" /\ walk["worker"] = NoWalk /\ s \in Ready
    /\ todo' = todo \ {s}
    /\ IF world[s] = 0
       THEN missed' = missed \cup {s} /\ UNCHANGED walk
       ELSE /\ missed' = missed \ {s}
            /\ walk' = [walk EXCEPT !["worker"] =
                   [at |-> s, entry |-> [rules |-> settings.rules, seen |-> world[s]]]]
    /\ UNCHANGED <<outside, gui, events, worker, cached, named, cancelled, index, listed, mtime,
                   rescan, unsaved>>

\* usn_catchup or index_all_drives comes to a drive: it looks at the flag.
DriveBegins(d) == ~cancelled /\ WalkBegins(d)

\* index_network_roots comes to a share.  It does not look at the flag; a full index
\* has done so before the first one.
ShareBegins(n) == (cached \/ ~cancelled \/ todo # named) /\ WalkBegins(n)

\* What the walk found is published; a cancelled one stores what it has.
WalkEnds ==
    /\ Up /\ walk["worker"] # NoWalk
    /\ LET w == walk["worker"]
       IN index' = [index EXCEPT ![w.at] =
                       [rules |-> w.entry.rules, seen |-> IF cancelled THEN 0 ELSE w.entry.seen]]
    /\ walk' = [walk EXCEPT !["worker"] = NoWalk]
    /\ UNCHANGED <<outside, gui, events, work, listed, mtime, rescan, history>>

\* The flag is seen: the drives, and in a full index the shares, are given up.
GiveUp ==
    /\ Up /\ worker = "scan" /\ walk["worker"] = NoWalk /\ cancelled
    /\ todo \cap Drive # {} \/ (~cached /\ todo = named /\ todo # {})
    /\ todo' = IF cached THEN todo \ Drive ELSE {}
    /\ missed' = missed \cup (todo \ todo')
    /\ UNCHANGED <<outside, gui, events, worker, cached, named, cancelled, memory, unsaved>>

\* The last signals.  The thread is still running for a moment.
WorkerFinishes ==
    /\ Up /\ worker = "scan" /\ walk["worker"] = NoWalk /\ todo = {}
    /\ events' = events \o (IF cached THEN <<"done">> ELSE <<"complete", "done">>)
    /\ worker' = "ending"
    /\ UNCHANGED <<outside, gui, cached, named, todo, cancelled, memory, history>>

\* The thread ends: isRunning() is false.
WorkerEnds ==
    /\ Up /\ worker = "ending"
    /\ worker' = "none"
    /\ UNCHANGED <<outside, gui, events, cached, named, todo, cancelled, memory, history>>

-----------------------------------------------------------------------------
\* FATRescanThread.run

RescanBegins(d) ==
    /\ Up /\ rescan = "on" /\ walk["rescan"] = NoWalk
    /\ d \in Walked /\ index[d] # Absent
    /\ index[d] # [rules |-> settings.rules, seen |-> world[d]]
    /\ walk' = [walk EXCEPT !["rescan"] =
           [at |-> d, entry |-> [rules |-> settings.rules, seen |-> world[d]]]]
    /\ UNCHANGED <<outside, gui, events, work, index, listed, mtime, rescan, history>>

RescanEnds ==
    /\ Up /\ walk["rescan"] # NoWalk
    /\ LET w == walk["rescan"]
       IN /\ index' = [index EXCEPT ![w.at] =
                  [rules |-> w.entry.rules, seen |-> IF cancelled THEN 0 ELSE w.entry.seen]]
          /\ unsaved' = unsaved \cup {w.at}
          /\ missed' = IF w.entry.rules = settings.rules THEN missed ELSE missed \cup {w.at}
    /\ walk' = [walk EXCEPT !["rescan"] = NoWalk]
    /\ UNCHANGED <<outside, gui, events, work, listed, mtime, rescan>>

-----------------------------------------------------------------------------
EventLoop ==
    \/ _start_indexing_with_cache \/ EfuTimer \/ _on_settings_changed
    \/ _on_indexing_complete \/ _on_cache_loaded \/ _on_index_worker_done
    \/ _quit \/ WaitEnds \/ shutdown

Advance ==
    \/ DelayEnds \/ LoadBegins \/ LoadRefused \/ LoadEnds \/ ScanBegins \/ GiveUp
    \/ WorkerFinishes \/ WorkerEnds
    \/ (\E d \in Drive : DriveBegins(d)) \/ (\E n \in Share : ShareBegins(n))

IndexWorker == Advance \/ WalkEnds

FATRescanThread == RescanEnds \/ \E d \in Drive : RescanBegins(d)

Next ==
    \/ EventLoop \/ IndexWorker \/ FATRescanThread
    \/ Boot \/ Crash \/ DamageDatabase \/ \E s \in Source : ChangeSource(s)

Spec == Init /\ [][Next]_vars

\* The event loop delivers its signals and goes through with a quit; threads run, and
\* a walk of a local drive ends.  The worker's walk of a share may hang.  Nobody has
\* to change a setting, quit or start the program.
Fairness ==
    /\ WF_vars(_start_indexing_with_cache) /\ WF_vars(_on_cache_loaded)
    /\ WF_vars(_on_indexing_complete) /\ WF_vars(_on_index_worker_done)
    /\ WF_vars(WaitEnds) /\ WF_vars(shutdown)
    /\ WF_vars(Advance) /\ WF_vars(FATRescanThread)

FairSpec == Spec /\ Fairness

-----------------------------------------------------------------------------
\* Nothing is under way: no signal is queued and no thread works.
Quiet ==
    /\ gui = "idle" /\ events = << >> /\ worker = "none"
    /\ \A t \in Thread : walk[t] = NoWalk

\* When all is quiet, every configured share and every indexed drive was walked
\* under the rules of the settings, but for named causes: the settings changed while
\* a worker ran and start no other, the share was away when its turn came, or the
\* rescan thread stored a walk it had begun under older rules.
IndexFollowsSettings ==
    Quiet => \A s \in Indexed \cup settings.shares :
        \/ s \in List \cup missed
        \/ s \in Share \ settings.shares
        \/ index[s].rules = settings.rules

\* When all is quiet, the index holds the version of a list that the window
\* remembers, or it would not be loaded again: a list is not replaced by the one of
\* the cache behind the window's back.
ListsCurrent ==
    Quiet => \A e \in listed : e \in settings.lists /\ index[e].seen = mtime[e]

\* When all is quiet, the rows simple searches read are those in memory, except for
\* the drives the rescan thread has stored since the last save: it writes no rows.
RowsFollowIndex ==
    Quiet /\ healthy => \A s \in Source \ unsaved : disk[s] = index[s]

\* ... and at no time does the database hold what a cancelled walk left.
SavedWhole == healthy => \A s \in Source : disk[s] # Absent => disk[s].seen # 0

\* The rows follow the index, and hold nothing a cancelled walk has left.
RowsSound == RowsFollowIndex /\ SavedWhole

\* A quit ends whatever the worker is doing, even when its walk hangs.
QuitEnds == [](gui = "waiting" => <>(gui = "down"))

\* Once nothing changes any more, the drives without NTFS are indexed as they are,
\* under the rules of the settings, whatever was missed before; unless a walk of the
\* worker hangs, in the first full index before the thread that repairs is started.
RescanPrevails ==
    []<>(walk["worker"] = NoWalk) =>
        <>[](Up => \A d \in Walked :
                 \/ index[d] = Absent
                 \/ index[d] = [rules |-> settings.rules, seen |-> world[d]])

=============================================================================

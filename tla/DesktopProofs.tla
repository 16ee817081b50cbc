---------------------------- MODULE DesktopProofs -----------------------------
(***************************************************************************)
(* What the index, the lists and the database hold when all is quiet, for  *)
(* any drives, shares and lists, whatever the user changes, the sources do *)
(* and the process dies from.                                              *)
(***************************************************************************)
EXTENDS Desktop, TLAPS

Entry == [rules : Nat, seen : Nat]
Place == Drive \cup Share
Walk == [at : Place \cup {None}, entry : Entry]
Config == [shares : SUBSET Share, lists : SUBSET List, rules : Nat]
Signals == {"complete", "loaded", "done"}

TypeOK ==
    /\ world \in [Source -> Nat] /\ settings \in Config
    /\ disk \in [Source -> Entry] /\ index \in [Source -> Entry]
    /\ healthy \in BOOLEAN /\ cached \in BOOLEAN /\ cancelled \in BOOLEAN
    /\ gui \in {"down", "boot", "idle", "waiting", "closing"}
    /\ events \in Seq(Signals)
    /\ listed \subseteq List /\ mtime \in [List -> Nat]
    /\ worker \in {"none", "delay", "load", "loading", "begin", "scan", "ending"}
    /\ named \subseteq Share /\ todo \subseteq Drive \cup named
    /\ walk \in [Thread -> Walk]
    /\ \A t \in Thread : walk[t] # NoWalk => walk[t].at \in Place
    /\ missed \subseteq Source /\ unsaved \subseteq Source
    /\ changes \in Nat /\ starts \in Nat

\* A process that is not up has nothing in memory.
Freshly ==
    ~Up => /\ index = [s \in Source |-> Absent] /\ events = << >> /\ listed = {}
           /\ worker = "none" /\ walk = [t \in Thread |-> NoWalk] /\ ~cancelled
           /\ unsaved = {} /\ missed = {} /\ rescan = "off"


\* The list is in the index, in the version the window remembers.
Remembered(e) == index[e] # Absent /\ index[e].seen = mtime[e]

\* The threads, the entries and the sources.
LEMMA Names ==
  /\ "worker" \in Thread /\ "rescan" \in Thread /\ Absent \in Entry /\ NoWalk \in Walk
  /\ Place \subseteq Source /\ List \subseteq Source /\ Place \cap List = {}
  /\ Source = Place \cup List /\ Walked \subseteq Place
BY DesktopAssumption DEF DesktopAssumption, Thread, Absent, Entry, NoWalk, Walk, Place, Source

\* What _refresh_efu_files does to index, lists and database.
LEMMA RefreshEffect ==
  ASSUME TypeOK, NEW force, NEW lists \in SUBSET List, _refresh_efu_files(force, lists)
  PROVE  /\ index' \in [Source -> Entry] /\ disk' \in [Source -> Entry]
         /\ mtime' \in [List -> Nat] /\ listed' \subseteq lists
         /\ \A s \in Place : index'[s] = index[s]
         /\ \A e \in List : \/ index'[e] = [rules |-> 0, seen |-> world[e]] /\ world[e] # 0
                            \/ index'[e] = Absent
                            \/ index'[e] = index[e]
         /\ \/ index' = index /\ UNCHANGED <<disk, unsaved>>
            \/ healthy /\ disk' = index' /\ unsaved' = {}
            \/ ~healthy /\ UNCHANGED <<disk, unsaved>>
         /\ (\A e \in listed : Remembered(e)) => \A e \in listed' : Remembered(e)'
<1> DEFINE due == Due(force, lists)
           gone == listed \ lists
<1>1. /\ index' = Refreshed(force, lists)
      /\ listed' = (listed \cup due) \ gone
      /\ mtime' = [e \in List |-> CASE e \in due -> world[e]
                                    [] e \in gone -> 0
                                    [] OTHER -> mtime[e]]
      /\ IF due \cup gone # {} THEN save_to_cache(Refreshed(force, lists))
         ELSE UNCHANGED <<disk, unsaved>>
  BY DEF _refresh_efu_files
<1>2. due \subseteq lists /\ \A e \in due : world[e] # 0
  BY DEF Due
<1>3. gone \subseteq List /\ due \cap gone = {} /\ due \subseteq List
  BY <1>2 DEF TypeOK
<1>4. /\ \A s \in due : index'[s] = [rules |-> 0, seen |-> world[s]]
      /\ \A s \in gone : index'[s] = Absent
      /\ \A s \in Source : s \notin due \cup gone => index'[s] = index[s]
  BY <1>1, <1>3, Names DEF Refreshed
<1>5. index' \in [Source -> Entry]
  <2>1. \A s \in due : [rules |-> 0, seen |-> world[s]] \in Entry
    BY <1>3, Names DEF TypeOK, Entry
  <2>2. \A s \in Source : index[s] \in Entry
    BY DEF TypeOK
  <2>3. \A s \in Source : index'[s] \in Entry
    BY <1>4, <2>1, <2>2, Names
  <2> QED
    BY <1>1, <2>3 DEF Refreshed
<1>6. mtime' \in [List -> Nat]
  BY <1>1, <1>3, Names DEF TypeOK
<1>7. \A e \in listed' : e \in due \/ (e \in listed /\ e \notin gone /\ e \notin due)
  BY <1>1
<1>8. (\A e \in listed : Remembered(e)) => \A e \in listed' : Remembered(e)'
  <2> SUFFICES ASSUME \A e \in listed : Remembered(e), NEW e \in listed'
               PROVE  Remembered(e)'
    OBVIOUS
  <2>1. CASE e \in due
    <3>1. mtime'[e] = world[e]
      BY <1>1, <1>3, <2>1
    <3>2. index'[e] = [rules |-> 0, seen |-> world[e]] /\ world[e] # 0
      BY <1>2, <1>4, <2>1
    <3>3. index'[e] # Absent
      BY <3>2 DEF Absent
    <3> QED
      BY <3>1, <3>2, <3>3 DEF Remembered
  <2>2. CASE e \in listed /\ e \notin gone /\ e \notin due
    <3>1. e \in List /\ e \in Source
      BY <2>2, Names DEF TypeOK
    <3>2. index'[e] = index[e] /\ mtime'[e] = mtime[e]
      BY <1>1, <1>4, <2>2, <3>1
    <3> QED
      BY <2>2, <3>2 DEF Remembered
  <2> QED
    BY <1>7, <2>1, <2>2
<1>9. \/ index' = index /\ UNCHANGED <<disk, unsaved>>
      \/ healthy /\ disk' = index' /\ unsaved' = {}
      \/ ~healthy /\ UNCHANGED <<disk, unsaved>>
  <2>1. CASE due \cup gone = {}
    <3>1. index' = index
      BY <1>4, <1>5, <2>1 DEF TypeOK
    <3> QED
      BY <1>1, <2>1, <3>1
  <2>2. CASE due \cup gone # {}
    BY <1>1, <2>2 DEF save_to_cache
  <2> QED
    BY <2>1, <2>2
<1>10. disk' \in [Source -> Entry]
  BY <1>5, <1>9 DEF TypeOK
<1>11. \A s \in Place : index'[s] = index[s]
  BY <1>3, <1>4, Names
<1>12. \A e \in List : \/ index'[e] = [rules |-> 0, seen |-> world[e]] /\ world[e] # 0
                       \/ index'[e] = Absent
                       \/ index'[e] = index[e]
  BY <1>2, <1>4, Names
<1>13. listed' \subseteq lists
  BY <1>1, <1>2
<1> QED
  BY <1>5, <1>6, <1>8, <1>9, <1>10, <1>11, <1>12, <1>13

-----------------------------------------------------------------------------
(* What a step may do *)

\* The steps, each with what it is about.
LEMMA StepKinds ==
  ASSUME [Next]_vars
  PROVE  \/ UNCHANGED vars \/ Boot \/ Crash \/ shutdown \/ DamageDatabase
         \/ \E s \in Source : ChangeSource(s)
         \/ _start_indexing_with_cache \/ EfuTimer \/ _on_settings_changed
         \/ _on_indexing_complete \/ _on_cache_loaded \/ _on_index_worker_done
         \/ _quit \/ WaitEnds
         \/ DelayEnds \/ LoadBegins \/ LoadRefused \/ LoadEnds \/ ScanBegins \/ GiveUp
         \/ WorkerFinishes \/ WorkerEnds
         \/ (\E s \in Place : WalkBegins(s)) \/ WalkEnds
         \/ (\E d \in Walked : RescanBegins(d)) \/ RescanEnds
BY DEF Next, EventLoop, IndexWorker, Advance, FATRescanThread, DriveBegins, ShareBegins,
   Place, RescanBegins

\* What is outside of the process keeps its types; the rules only grow.
LEMMA OutsideTyped ==
  ASSUME TypeOK, [Next]_vars
  PROVE  /\ world' \in [Source -> Nat] /\ settings' \in Config /\ healthy' \in BOOLEAN
         /\ changes' \in Nat /\ starts' \in Nat
<1>1. world' \in [Source -> Nat]
  <2>1. world' = world \/ \E s \in Source, v \in Nat : world' = [world EXCEPT ![s] = v]
    <3>1. ASSUME NEW s \in Source, ChangeSource(s)
          PROVE  \E v \in Nat : world' = [world EXCEPT ![s] = v]
      <4>1. changes + 2 \in Nat
        BY DEF TypeOK
      <4> QED
        BY <3>1, <4>1 DEF ChangeSource
    <3>2. (\E s \in Source : ChangeSource(s)) \/ world' = world
      BY StepKinds DEF vars, outside, medium, Boot, Crash, shutdown, DamageDatabase,
         _start_indexing_with_cache, EfuTimer, _on_settings_changed, _on_indexing_complete,
         _on_cache_loaded, _on_index_worker_done, _quit, WaitEnds, DelayEnds, LoadBegins,
         LoadRefused, LoadEnds, ScanBegins, GiveUp, WorkerFinishes, WorkerEnds, WalkBegins,
         WalkEnds, RescanBegins, RescanEnds
    <3> QED
      BY <3>1, <3>2
  <2> QED
    BY <2>1 DEF TypeOK
<1>2. settings' \in Config
  <2>1. CASE _on_settings_changed
    <3>1. PICK shares \in SUBSET Share, lists \in SUBSET List, more \in {0, 1} :
             settings' = [shares |-> shares, lists |-> lists, rules |-> settings.rules + more]
      BY <2>1 DEF _on_settings_changed
    <3>2. settings.rules + more \in Nat
      BY DEF TypeOK, Config
    <3> QED
      BY <3>1, <3>2 DEF Config
  <2>2. _on_settings_changed \/ settings' = settings
    BY StepKinds DEF vars, outside, medium, Boot, Crash, shutdown, DamageDatabase,
       _start_indexing_with_cache, EfuTimer, _on_indexing_complete,
       _on_cache_loaded, _on_index_worker_done, _quit, WaitEnds, DelayEnds, LoadBegins,
       LoadRefused, LoadEnds, ScanBegins, GiveUp, WorkerFinishes, WorkerEnds, WalkBegins,
       WalkEnds, RescanBegins, RescanEnds, ChangeSource
  <2> QED
    BY <2>1, <2>2 DEF TypeOK
<1>3. healthy' \in BOOLEAN /\ changes' \in Nat /\ starts' \in Nat
  <2>1. healthy' \in {healthy, TRUE, FALSE} /\ changes' \in {changes, changes + 1}
        /\ starts' \in {starts, starts + 1}
    BY StepKinds DEF vars, outside, medium, Boot, Crash, shutdown, DamageDatabase,
       _start_indexing_with_cache, EfuTimer, _on_settings_changed, _on_indexing_complete,
       _on_cache_loaded, _on_index_worker_done, _quit, WaitEnds, DelayEnds, LoadBegins,
       LoadRefused, recover_db, LoadEnds, ScanBegins, GiveUp, WorkerFinishes, WorkerEnds,
       WalkBegins, WalkEnds, RescanBegins, RescanEnds, ChangeSource
  <2>2. healthy' \in BOOLEAN
    BY <2>1, Zenon DEF TypeOK
  <2>3. changes' \in Nat /\ starts' \in Nat
    BY <2>1 DEF TypeOK
  <2> QED
    BY <2>2, <2>3
<1> QED
  BY <1>1, <1>2, <1>3

\* Where the event loop and the worker are.
LEMMA WorkTyped ==
  ASSUME TypeOK, [Next]_vars
  PROVE  /\ gui' \in {"down", "boot", "idle", "waiting", "closing"}
         /\ worker' \in {"none", "delay", "load", "loading", "begin", "scan", "ending"}
         /\ cached' \in BOOLEAN /\ cancelled' \in BOOLEAN
         /\ named' \subseteq Share /\ todo' \subseteq Drive \cup named'
<1>1. gui' \in {"down", "boot", "idle", "waiting", "closing"}
  <2>1. gui' \in {gui, "down", "boot", "idle", "waiting", "closing"}
    BY StepKinds DEF vars, Boot, Crash, shutdown, DamageDatabase,
       _start_indexing_with_cache, EfuTimer, _on_settings_changed, _on_indexing_complete,
       _on_cache_loaded, _on_index_worker_done, _quit, WaitEnds, DelayEnds, LoadBegins,
       LoadRefused, LoadEnds, ScanBegins, GiveUp, WorkerFinishes, WorkerEnds,
       WalkBegins, WalkEnds, RescanBegins, RescanEnds, ChangeSource
  <2> QED
    BY <2>1 DEF TypeOK
<1>2. /\ worker' \in {worker, "none", "delay", "load", "loading", "begin", "scan", "ending"}
      /\ cached' \in {cached, TRUE, FALSE} /\ cancelled' \in {cancelled, TRUE, FALSE}
                                              \cup {cancelled \/ worker # "none"}
  BY StepKinds DEF vars, work, Boot, Crash, shutdown, Fresh, DamageDatabase,
     _start_indexing_with_cache, StartWorker, EfuTimer, _on_settings_changed,
     _on_indexing_complete, _on_cache_loaded, _on_index_worker_done, _quit, WaitEnds,
     DelayEnds, LoadBegins, LoadRefused, LoadEnds, ScanBegins, GiveUp, WorkerFinishes,
     WorkerEnds, WalkBegins, WalkEnds, RescanBegins, RescanEnds, ChangeSource
<1>3. /\ named' \in {named, {}, settings'.shares}
      /\ \/ named' = named /\ todo' \subseteq todo
         \/ todo' \subseteq Drive \cup named'
  BY StepKinds, Names DEF vars, work, Boot, Crash, shutdown, Fresh, DamageDatabase,
     _start_indexing_with_cache, StartWorker, EfuTimer, _on_settings_changed,
     _on_indexing_complete, _on_cache_loaded, _on_index_worker_done, _quit, WaitEnds,
     DelayEnds, LoadBegins, LoadRefused, LoadEnds, ScanBegins, GiveUp, WorkerFinishes,
     WorkerEnds, WalkBegins, WalkEnds, RescanBegins, RescanEnds, ChangeSource
<1>4. named' \subseteq Share
  BY <1>3, OutsideTyped DEF TypeOK, Config
<1>5. todo' \subseteq Drive \cup named'
  BY <1>3 DEF TypeOK
<1> QED
  BY <1>1, <1>2, <1>4, <1>5 DEF TypeOK

\* What a step that refreshes the lists does to the memory and the database.
ListsMove ==
    /\ index' \in [Source -> Entry] /\ disk' \in [Source -> Entry]
    /\ mtime' \in [List -> Nat] /\ listed' \subseteq List
    /\ \A s \in Place : index'[s] = index[s]
    /\ \A e \in List : \/ index'[e] = [rules |-> 0, seen |-> world[e]] /\ world[e] # 0
                       \/ index'[e] = Absent
                       \/ index'[e] = index[e]
    /\ \/ index' = index /\ UNCHANGED <<disk, unsaved>>
       \/ healthy /\ disk' = index' /\ unsaved' = {}
       \/ ~healthy /\ UNCHANGED <<disk, unsaved>>
    /\ (\A e \in listed : Remembered(e)) => \A e \in listed' : Remembered(e)'
    /\ listed \subseteq settings.lists => listed' \subseteq settings'.lists

\* The timer, the end of an indexing and new settings refresh them.
LEMMA ListsStep ==
  ASSUME TypeOK, settings' \in Config,
         EfuTimer \/ _on_indexing_complete \/ _on_settings_changed
  PROVE  ListsMove
<1>1. settings.lists \in SUBSET List /\ settings'.lists \in SUBSET List
  BY DEF TypeOK, Config
<1>2. ASSUME NEW force, NEW lists \in SUBSET List, _refresh_efu_files(force, lists),
             lists \in {settings.lists, settings'.lists}, lists = settings'.lists
      PROVE  ListsMove
  <2>1. listed' \subseteq List /\ listed' \subseteq settings'.lists
    BY <1>2, RefreshEffect
  <2> QED
    BY <1>2, <2>1, RefreshEffect DEF ListsMove
<1>3. CASE EfuTimer
  BY <1>1, <1>2, <1>3 DEF EfuTimer
<1>4. CASE _on_indexing_complete
  BY <1>1, <1>2, <1>4 DEF _on_indexing_complete
<1>5. CASE _on_settings_changed
  <2>1. CASE settings'.lists # settings.lists
    BY <1>1, <1>2, <1>5, <2>1 DEF _on_settings_changed
  <2>2. CASE settings'.lists = settings.lists
    <3>1. UNCHANGED <<disk, index, listed, mtime, unsaved>>
      BY <1>5, <2>2 DEF _on_settings_changed
    <3> QED
      BY <2>2, <3>1 DEF ListsMove, TypeOK, Remembered
  <2> QED
    BY <2>1, <2>2
<1> QED
  BY <1>3, <1>4, <1>5

\* The index and what hangs on it move in few steps.
LEMMA MemoryStep ==
  ASSUME TypeOK, [Next]_vars
  PROVE  \/ Fresh /\ gui' = "down" /\ disk' = disk
         \/ ListsMove
         \/ LoadEnds \/ WalkEnds \/ RescanEnds \/ LoadRefused
         \/ /\ UNCHANGED <<index, listed, mtime>>
            /\ save_to_cache(index) \/ UNCHANGED <<disk, unsaved>>
<1>1. CASE Crash \/ shutdown
  BY <1>1 DEF Crash, shutdown, outside
<1>2. CASE EfuTimer \/ _on_indexing_complete \/ _on_settings_changed
  BY <1>2, ListsStep, OutsideTyped
<1>3. CASE _on_index_worker_done \/ _quit
  BY <1>3 DEF _on_index_worker_done, _quit, memory
<1>4. CASE \/ UNCHANGED vars \/ Boot \/ DamageDatabase
           \/ \E s \in Source : ChangeSource(s)
           \/ _start_indexing_with_cache \/ _on_cache_loaded \/ WaitEnds
           \/ DelayEnds \/ LoadBegins \/ ScanBegins \/ GiveUp
           \/ WorkerFinishes \/ WorkerEnds
           \/ (\E s \in Place : WalkBegins(s)) \/ (\E d \in Walked : RescanBegins(d))
  BY <1>4 DEF vars, memory, history, outside, Boot, DamageDatabase, ChangeSource,
     _start_indexing_with_cache, _on_cache_loaded, WaitEnds, DelayEnds, LoadBegins,
     ScanBegins, GiveUp, WorkerFinishes, WorkerEnds, WalkBegins, RescanBegins
<1> QED
  BY <1>1, <1>2, <1>3, <1>4, StepKinds

\* A walk that ends stores an entry of a drive or a share.
LEMMA MemoryEnds ==
  ASSUME TypeOK, WalkEnds \/ RescanEnds
  PROVE  \E p \in Place, n \in Entry : index' = [index EXCEPT ![p] = n]
<1>1. ASSUME NEW t \in Thread, walk[t] # NoWalk, NEW n \in {0, walk[t].entry.seen},
             index' = [index EXCEPT ![walk[t].at] = [rules |-> walk[t].entry.rules, seen |-> n]]
      PROVE  \E p \in Place, m \in Entry : index' = [index EXCEPT ![p] = m]
  <2>1. walk[t].entry \in Entry /\ walk[t].at \in Place
    BY <1>1 DEF TypeOK, Walk
  <2>2. [rules |-> walk[t].entry.rules, seen |-> n] \in Entry
    BY <1>1, <2>1 DEF Entry
  <2> QED
    BY <1>1, <2>1, <2>2
<1>2. CASE WalkEnds
  BY <1>1, <1>2, Names DEF WalkEnds
<1>3. CASE RescanEnds
  BY <1>1, <1>3, Names DEF RescanEnds
<1> QED
  BY <1>2, <1>3

\* What is in memory and in the database keeps its types.
LEMMA MemoryTyped ==
  ASSUME TypeOK, [Next]_vars
  PROVE  /\ index' \in [Source -> Entry] /\ disk' \in [Source -> Entry]
         /\ listed' \subseteq List /\ mtime' \in [List -> Nat]
<1>1. /\ index \in [Source -> Entry] /\ disk \in [Source -> Entry]
      /\ listed \subseteq List /\ mtime \in [List -> Nat]
  BY DEF TypeOK
<1>2. CASE Fresh /\ disk' = disk
  BY <1>1, <1>2, Names DEF Fresh
<1>3. CASE ListsMove
  BY <1>3 DEF ListsMove
<1>4. CASE LoadEnds
  <2>1. index' = [s \in Source |-> IF disk[s] # Absent THEN disk[s] ELSE index[s]]
        /\ UNCHANGED <<disk, listed, mtime>>
    BY <1>4 DEF LoadEnds, Loaded, outside
  <2> QED
    BY <1>1, <2>1
<1>5. CASE WalkEnds \/ RescanEnds
  <2>1. UNCHANGED <<disk, listed, mtime>>
    BY <1>5 DEF WalkEnds, RescanEnds, outside
  <2>2. PICK p \in Place, n \in Entry : index' = [index EXCEPT ![p] = n]
    BY <1>5, MemoryEnds
  <2> QED
    BY <1>1, <2>1, <2>2
<1>6. CASE LoadRefused
  <2>1. UNCHANGED <<index, listed, mtime>> /\ (disk' = disk \/ disk' = [s \in Source |-> Absent])
    BY <1>6 DEF LoadRefused, recover_db, memory
  <2> QED
    BY <1>1, <2>1, Names
<1>7. CASE UNCHANGED <<index, listed, mtime>> /\ (save_to_cache(index) \/ UNCHANGED disk)
  BY <1>1, <1>7 DEF save_to_cache
<1> QED
  BY <1>2, <1>3, <1>4, <1>5, <1>6, <1>7, MemoryStep

\* The signals, and the history.
LEMMA SignalsTyped ==
  ASSUME TypeOK, [Next]_vars
  PROVE  events' \in Seq(Signals)
<1>1. \/ events' = events \/ events' = << >>
      \/ events # << >> /\ events' = Tail(events)
      \/ events' = events \o <<"complete", "loaded">>
      \/ events' = events \o <<"done">> \/ events' = events \o <<"complete", "done">>
  BY StepKinds DEF vars, Boot, Crash, shutdown, Fresh, DamageDatabase,
     _start_indexing_with_cache, EfuTimer, _on_settings_changed,
     _on_indexing_complete, _on_cache_loaded, _on_index_worker_done, _quit, WaitEnds,
     DelayEnds, LoadBegins, LoadRefused, LoadEnds, ScanBegins, GiveUp, WorkerFinishes,
     WorkerEnds, WalkBegins, WalkEnds, RescanBegins, RescanEnds, ChangeSource
<1>2. /\ << >> \in Seq(Signals) /\ <<"done">> \in Seq(Signals)
      /\ <<"complete", "loaded">> \in Seq(Signals) /\ <<"complete", "done">> \in Seq(Signals)
  BY DEF Signals
<1>3. events \in Seq(Signals)
  BY DEF TypeOK
<1>4. events # << >> => Tail(events) \in Seq(Signals)
  BY <1>3
<1>5. \A more \in Seq(Signals) : events \o more \in Seq(Signals)
  BY <1>3
<1> QED
  BY <1>1, <1>2, <1>3, <1>4, <1>5

\* What a walk begins with and ends with.
LEMMA WalkStep ==
  ASSUME TypeOK, [Next]_vars
  PROVE  \/ Fresh /\ gui' = "down"
         \/ walk' = walk
         \/ WalkEnds /\ walk' = [walk EXCEPT !["worker"] = NoWalk]
         \/ RescanEnds /\ walk' = [walk EXCEPT !["rescan"] = NoWalk]
         \/ \E s \in Place :
               /\ WalkBegins(s) /\ world[s] # 0
               /\ walk' = [walk EXCEPT !["worker"] =
                     [at |-> s, entry |-> [rules |-> settings.rules, seen |-> world[s]]]]
         \/ \E d \in Walked :
               /\ RescanBegins(d)
               /\ walk' = [walk EXCEPT !["rescan"] =
                     [at |-> d, entry |-> [rules |-> settings.rules, seen |-> world[d]]]]
<1>1. CASE Crash \/ shutdown
  BY <1>1 DEF Crash, shutdown
<1>2. CASE WalkEnds
  BY <1>2 DEF WalkEnds
<1>3. CASE RescanEnds
  BY <1>3 DEF RescanEnds
<1>4. ASSUME NEW s \in Place, WalkBegins(s)
      PROVE  \/ walk' = walk
             \/ /\ world[s] # 0
                /\ walk' = [walk EXCEPT !["worker"] =
                      [at |-> s, entry |-> [rules |-> settings.rules, seen |-> world[s]]]]
  BY <1>4 DEF WalkBegins
<1>5. ASSUME NEW d \in Walked, RescanBegins(d)
      PROVE  walk' = [walk EXCEPT !["rescan"] =
                      [at |-> d, entry |-> [rules |-> settings.rules, seen |-> world[d]]]]
  BY <1>5 DEF RescanBegins
<1>6. CASE UNCHANGED vars \/ Boot \/ DamageDatabase
         \/ (\E s \in Source : ChangeSource(s))
         \/ _start_indexing_with_cache \/ EfuTimer \/ _on_settings_changed
         \/ _on_indexing_complete \/ _on_cache_loaded \/ _on_index_worker_done
         \/ _quit \/ WaitEnds
         \/ DelayEnds \/ LoadBegins \/ LoadRefused \/ LoadEnds \/ ScanBegins \/ GiveUp
         \/ WorkerFinishes \/ WorkerEnds
  BY <1>6 DEF vars, memory, Boot, DamageDatabase, _start_indexing_with_cache, EfuTimer,
     _on_settings_changed, _on_indexing_complete, _on_cache_loaded, _on_index_worker_done,
     _quit, WaitEnds, DelayEnds, LoadBegins, LoadRefused, LoadEnds, ScanBegins, GiveUp,
     WorkerFinishes, WorkerEnds, ChangeSource
<1> QED
  BY <1>1, <1>2, <1>3, <1>4, <1>5, <1>6, StepKinds

\* Walks are of drives and shares.
LEMMA WalkTyped ==
  ASSUME TypeOK, [Next]_vars
  PROVE  /\ walk' \in [Thread -> Walk]
         /\ \A t \in Thread : walk'[t] # NoWalk => walk'[t].at \in Place
<1>1. ASSUME NEW t \in Thread, NEW w \in Walk, w # NoWalk => w.at \in Place,
             walk' = [walk EXCEPT ![t] = w]
      PROVE  /\ walk' \in [Thread -> Walk]
             /\ \A u \in Thread : walk'[u] # NoWalk => walk'[u].at \in Place
  <2>1. /\ walk \in [Thread -> Walk]
        /\ \A u \in Thread : walk[u] # NoWalk => walk[u].at \in Place
    BY DEF TypeOK
  <2> QED
    BY <1>1, <2>1
<1>2. ASSUME NEW s \in Place
      PROVE  [at |-> s, entry |-> [rules |-> settings.rules, seen |-> world[s]]] \in Walk
  <2>1. settings.rules \in Nat /\ world[s] \in Nat
    BY Names DEF TypeOK, Config
  <2> QED
    BY <2>1 DEF Walk, Entry
<1>3. CASE Fresh
  BY <1>3, Names DEF Fresh
<1>4. CASE walk' = walk
  BY <1>4 DEF TypeOK
<1>5. CASE \/ walk' = [walk EXCEPT !["worker"] = NoWalk]
           \/ walk' = [walk EXCEPT !["rescan"] = NoWalk]
  BY <1>1, <1>5, Names
<1>6. ASSUME NEW s \in Place, NEW t \in Thread,
             walk' = [walk EXCEPT ![t] =
                 [at |-> s, entry |-> [rules |-> settings.rules, seen |-> world[s]]]]
      PROVE  /\ walk' \in [Thread -> Walk]
             /\ \A u \in Thread : walk'[u] # NoWalk => walk'[u].at \in Place
  <2> DEFINE w == [at |-> s, entry |-> [rules |-> settings.rules, seen |-> world[s]]]
  <2>1. w \in Walk /\ w.at \in Place
    BY <1>2
  <2> HIDE DEF w
  <2>2. walk' = [walk EXCEPT ![t] = w]
    BY <1>6 DEF w
  <2> QED
    BY <1>1, <2>1, <2>2
<1>7. Walked \subseteq Place /\ "worker" \in Thread /\ "rescan" \in Thread
  BY Names
<1> QED
  BY <1>3, <1>4, <1>5, <1>6, <1>7, WalkStep

\* The causes that are recorded, and what the rescan thread has stored, are sources.
LEMMA HistoryTyped ==
  ASSUME TypeOK, [Next]_vars
  PROVE  missed' \subseteq Source /\ unsaved' \subseteq Source
<1>1. /\ missed \subseteq Source /\ unsaved \subseteq Source /\ todo \subseteq Drive \cup Share
      /\ \A t \in Thread : walk[t] # NoWalk => walk[t].at \in Source
  BY Names DEF TypeOK
<1>2. CASE RescanEnds
  BY <1>1, <1>2, Names DEF RescanEnds
<1>3. ASSUME NEW s \in Place, WalkBegins(s)
      PROVE  missed' \subseteq Source /\ unsaved' \subseteq Source
  BY <1>1, <1>3, Names DEF WalkBegins
<1>4. CASE GiveUp
  <2>1. missed' = missed \cup (todo \ todo') /\ unsaved' = unsaved
    BY <1>4 DEF GiveUp
  <2> QED
    BY <1>1, <2>1 DEF Source
<1>5. CASE EfuTimer \/ _on_indexing_complete \/ _on_settings_changed
  <2>1. unsaved' = unsaved \/ unsaved' = {}
    BY <1>5, ListsStep, OutsideTyped DEF ListsMove
  <2>2. missed' = missed \/ missed' = Drive \cup Share
    BY <1>5 DEF EfuTimer, _on_indexing_complete, _on_settings_changed
  <2> QED
    BY <1>1, <2>1, <2>2 DEF Source
<1>6. CASE UNCHANGED vars \/ Boot \/ Crash \/ shutdown \/ DamageDatabase
         \/ (\E s \in Source : ChangeSource(s))
         \/ _start_indexing_with_cache
         \/ _on_cache_loaded \/ _on_index_worker_done
         \/ _quit \/ WaitEnds
         \/ DelayEnds \/ LoadBegins \/ LoadRefused \/ LoadEnds \/ ScanBegins
         \/ WorkerFinishes \/ WorkerEnds \/ WalkEnds
         \/ (\E d \in Walked : RescanBegins(d))
  <2>1. missed' \in {missed, {}} /\ unsaved' \in {unsaved, {}}
    BY <1>6 DEF vars, history, Boot, Crash, shutdown, Fresh, DamageDatabase, ChangeSource,
     _start_indexing_with_cache, _on_cache_loaded, _on_index_worker_done, save_to_cache,
     _quit, WaitEnds, DelayEnds, LoadBegins, LoadRefused, LoadEnds, ScanBegins,
     WorkerFinishes, WorkerEnds, WalkEnds, RescanBegins
  <2> QED
    BY <1>1, <2>1
<1> QED
  BY <1>2, <1>3, <1>4, <1>5, <1>6, StepKinds

\* The types hold at the start.
LEMMA TypeInit == Init => TypeOK
<1> SUFFICES ASSUME Init PROVE  TypeOK
  OBVIOUS
<1>1. /\ world \in [Source -> Nat] /\ settings \in Config
      /\ disk \in [Source -> Entry] /\ index \in [Source -> Entry]
  BY Names DEF Init, Config
<1>2. events \in Seq(Signals) /\ mtime \in [List -> Nat] /\ walk \in [Thread -> Walk]
  BY Names DEF Init
<1>3. \A t \in Thread : walk[t] = NoWalk
  BY DEF Init
<1>4. healthy \in BOOLEAN /\ cached \in BOOLEAN /\ cancelled \in BOOLEAN
  BY DEF Init
<1> QED
  BY <1>1, <1>2, <1>3, <1>4 DEF Init, TypeOK

\* Every step keeps the types.
LEMMA TypeStep ==
  ASSUME TypeOK, [Next]_vars
  PROVE  TypeOK'
<1> QED
  BY OutsideTyped, WorkTyped, MemoryTyped, SignalsTyped, WalkTyped, HistoryTyped DEF TypeOK

-----------------------------------------------------------------------------
(* The beginning of a process *)

\* The first worker loads the cache, or is about to.
Starting == worker \in {"load", "loading"} \/ (worker = "delay" /\ cached)

\* Until then no other thread has begun and no signal was sent.
StartAlone ==
    Starting => events = << >> /\ rescan = "off" /\ walk = [t \in Thread |-> NoWalk]

\* Nothing is loaded from a damaged database, and none is damaged meanwhile.
LoadingHealthy == worker = "loading" => healthy

\* What is in memory before the cache was loaded is in the cache as well.
CacheAhead == Starting /\ healthy => \A s \in Source : index[s] # Absent => disk[s] = index[s]

\* A process that is not up stays without memory.
LEMMA FreshlyStep ==
  ASSUME TypeOK, Freshly, [Next]_vars
  PROVE  Freshly'
<1>1. CASE Fresh
  BY <1>1 DEF Fresh, Freshly
<1>2. CASE Up'
  BY <1>2 DEF Freshly
<1>3. CASE ~Up' /\ ~Fresh
  <2>1. ~Up /\ UNCHANGED <<events, work, memory, history>>
    BY <1>3, StepKinds DEF Up, vars, Boot, Crash, shutdown, DamageDatabase,
     _start_indexing_with_cache, EfuTimer, _on_settings_changed,
     _on_indexing_complete, _on_cache_loaded, _on_index_worker_done, _quit, WaitEnds,
     DelayEnds, LoadBegins, LoadRefused, LoadEnds, ScanBegins, GiveUp, WorkerFinishes,
     WorkerEnds, WalkBegins, WalkEnds, RescanBegins, RescanEnds, ChangeSource
  <2> QED
    BY <1>3, <2>1 DEF Freshly, work, memory, history
<1> QED
  BY <1>1, <1>2, <1>3

\* Only the worker of a new process comes to load the cache.
LEMMA StartingStep ==
  ASSUME TypeOK, Freshly, [Next]_vars, Starting'
  PROVE  \/ /\ gui = "boot" /\ ~Up /\ UNCHANGED <<events, memory, disk, healthy>>
         \/ Starting /\ Up
         \/ Starting /\ ~Up /\ UNCHANGED <<events, work, memory>>
<1>1. CASE _start_indexing_with_cache
  BY <1>1 DEF _start_indexing_with_cache, Up, medium
<1>2. CASE _on_settings_changed
  <2>1. \/ UNCHANGED <<worker, cached>>
        \/ worker' = "delay" /\ cached' = FALSE
    BY <1>2 DEF _on_settings_changed, StartWorker
  <2> QED
    BY <1>2, <2>1 DEF Starting, _on_settings_changed, Up
<1>3. CASE \/ EfuTimer
           \/ _on_indexing_complete \/ _on_cache_loaded \/ _on_index_worker_done
           \/ _quit \/ WaitEnds
           \/ DelayEnds \/ LoadBegins \/ LoadRefused \/ LoadEnds \/ ScanBegins \/ GiveUp
           \/ WorkerFinishes \/ WorkerEnds
           \/ (\E s \in Place : WalkBegins(s)) \/ WalkEnds
           \/ (\E d \in Walked : RescanBegins(d)) \/ RescanEnds
  BY <1>3 DEF Starting, Up, work, EfuTimer,
     _on_indexing_complete, _on_cache_loaded, _on_index_worker_done, _quit, WaitEnds,
     DelayEnds, LoadBegins, LoadRefused, LoadEnds, ScanBegins, GiveUp, WorkerFinishes,
     WorkerEnds, WalkBegins, WalkEnds, RescanBegins, RescanEnds
<1>4. CASE UNCHANGED vars \/ Boot \/ DamageDatabase \/ \E s \in Source : ChangeSource(s)
  BY <1>4 DEF Starting, Up, vars, work, Boot, DamageDatabase, ChangeSource
<1>5. CASE Crash \/ shutdown
  BY <1>5 DEF Crash, shutdown, Fresh, Starting
<1> QED
  BY <1>1, <1>2, <1>3, <1>4, <1>5, StepKinds

\* Before the cache was loaded, only the lists change what is in memory.
LEMMA StartAloneStep ==
  ASSUME TypeOK, Freshly, StartAlone, [Next]_vars
  PROVE  StartAlone'
<1> SUFFICES ASSUME Starting'
             PROVE  events' = << >> /\ rescan' = "off" /\ walk' = [t \in Thread |-> NoWalk]
  BY DEF StartAlone
<1>1. CASE ~Up /\ UNCHANGED <<events, memory>>
  BY <1>1 DEF Freshly, memory
<1>2. CASE Starting /\ Up
  <2>1. /\ events = << >> /\ rescan = "off" /\ walk = [t \in Thread |-> NoWalk]
        /\ walk["worker"] = NoWalk /\ walk["rescan"] = NoWalk
    BY <1>2, Names DEF StartAlone
  <2>2. worker' \notin {"none", "begin", "scan", "ending"} /\ worker # "scan"
    BY <1>2 DEF Starting
  <2> QED
    BY <1>2, <2>1, <2>2, StepKinds DEF vars, memory, Boot, Crash, shutdown, Fresh, DamageDatabase,
     _start_indexing_with_cache, EfuTimer, _on_settings_changed,
     _on_indexing_complete, _on_cache_loaded, _on_index_worker_done, _quit, WaitEnds,
     DelayEnds, LoadBegins, LoadRefused, LoadEnds, ScanBegins, GiveUp, WorkerFinishes,
     WorkerEnds, WalkBegins, WalkEnds, RescanBegins, RescanEnds, ChangeSource
<1> QED
  BY <1>1, <1>2, StartingStep

\* A database is damaged while no process runs, and mended when it is refused.
LEMMA HealthStep ==
  ASSUME [Next]_vars
  PROVE  \/ healthy' = healthy
         \/ DamageDatabase /\ gui = "down" /\ gui' = "down" /\ healthy' = FALSE
         \/ LoadRefused /\ healthy' = TRUE /\ disk' = [s \in Source |-> Absent]
<1>1. DamageDatabase \/ LoadRefused \/ healthy' = healthy
  BY StepKinds DEF vars, outside, medium, Boot, Crash, shutdown, _start_indexing_with_cache,
     EfuTimer, _on_settings_changed, _on_indexing_complete, _on_cache_loaded,
     _on_index_worker_done, _quit, WaitEnds, DelayEnds, LoadBegins, LoadEnds, ScanBegins, GiveUp,
     WorkerFinishes, WorkerEnds, WalkBegins, WalkEnds, RescanBegins, RescanEnds, ChangeSource
<1>2. CASE DamageDatabase
  BY <1>2 DEF DamageDatabase
<1>3. CASE LoadRefused
  BY <1>3 DEF LoadRefused, recover_db
<1> QED
  BY <1>1, <1>2, <1>3

\* What is being loaded is sound.
LEMMA LoadingStep ==
  ASSUME TypeOK, Freshly, LoadingHealthy, [Next]_vars
  PROVE  LoadingHealthy'
<1> SUFFICES ASSUME worker' = "loading" PROVE  healthy'
  BY DEF LoadingHealthy
<1>1. worker = "loading" \/ (LoadBegins /\ healthy)
  BY StepKinds DEF vars, work, Boot, Crash, shutdown, Fresh, DamageDatabase, StartWorker,
     _start_indexing_with_cache, EfuTimer, _on_settings_changed,
     _on_indexing_complete, _on_cache_loaded, _on_index_worker_done, _quit, WaitEnds,
     DelayEnds, LoadBegins, LoadRefused, LoadEnds, ScanBegins, GiveUp, WorkerFinishes,
     WorkerEnds, WalkBegins, WalkEnds, RescanBegins, RescanEnds, ChangeSource
<1>2. healthy /\ gui # "down"
  BY <1>1 DEF LoadingHealthy, Freshly, Up, LoadBegins
<1> QED
  BY <1>2, HealthStep

\* The cache stays ahead of the memory until it is loaded.
LEMMA CacheStep ==
  ASSUME TypeOK, Freshly, StartAlone, CacheAhead, [Next]_vars
  PROVE  CacheAhead'
<1> SUFFICES ASSUME Starting', healthy', NEW s \in Source, index'[s] # Absent
             PROVE  disk'[s] = index'[s]
  BY DEF CacheAhead
<1>1. CASE ~Up /\ UNCHANGED memory
  BY <1>1 DEF Freshly, memory
<1>2. CASE Starting /\ Up
  <2>1. /\ walk["worker"] = NoWalk /\ walk["rescan"] = NoWalk /\ gui # "down"
    BY <1>2, Names DEF StartAlone, Up
  <2>2. worker' \notin {"none", "begin", "scan", "ending"}
    BY DEF Starting
  <2>3. ~LoadRefused /\ ~LoadEnds /\ ~WalkEnds /\ ~RescanEnds /\ ~Fresh
    BY <2>1, <2>2 DEF LoadRefused, LoadEnds, WalkEnds, RescanEnds, Fresh
  <2>4. healthy
    BY <2>1, <2>3, HealthStep
  <2>5. index[s] # Absent => disk[s] = index[s]
    BY <1>2, <2>4 DEF CacheAhead
  <2>6. CASE ListsMove
    BY <2>4, <2>5, <2>6 DEF ListsMove
  <2>7. CASE UNCHANGED index /\ (save_to_cache(index) \/ UNCHANGED disk)
    BY <2>4, <2>5, <2>7 DEF save_to_cache
  <2> QED
    BY <2>3, <2>6, <2>7, MemoryStep
<1> QED
  BY <1>1, <1>2, StartingStep DEF memory

-----------------------------------------------------------------------------
(* The lists *)

\* The window remembers lists of the settings, in the version the index holds.
ListsRemembered == listed \subseteq settings.lists /\ \A e \in listed : Remembered(e)

\* Settings change in one way.
LEMMA SettingsStep ==
  ASSUME [Next]_vars
  PROVE  settings' = settings \/ _on_settings_changed
BY StepKinds DEF vars, outside, medium, Boot, Crash, shutdown, DamageDatabase,
   _start_indexing_with_cache, EfuTimer, _on_indexing_complete,
   _on_cache_loaded, _on_index_worker_done, _quit, WaitEnds, DelayEnds, LoadBegins,
   LoadRefused, LoadEnds, ScanBegins, GiveUp, WorkerFinishes, WorkerEnds, WalkBegins,
   WalkEnds, RescanBegins, RescanEnds, ChangeSource

\* Neither a load nor a walk touches a list the window has loaded.
LEMMA ListsRememberedStep ==
  ASSUME TypeOK, Freshly, CacheAhead, LoadingHealthy, ListsRemembered, [Next]_vars
  PROVE  ListsRemembered'
<1>1. CASE Fresh
  BY <1>1 DEF Fresh, ListsRemembered
<1>2. CASE ListsMove
  BY <1>2 DEF ListsMove, ListsRemembered
<1>3. ASSUME UNCHANGED <<listed, mtime>>, \A e \in listed : index'[e] = index[e],
             settings' = settings
      PROVE  ListsRemembered'
  BY <1>3 DEF ListsRemembered, Remembered
<1>4. listed \subseteq List /\ listed \subseteq Source
  BY Names DEF TypeOK
<1>5. CASE LoadEnds
  <2>1. healthy /\ Starting /\ UNCHANGED <<listed, mtime, settings>>
    BY <1>5 DEF LoadEnds, LoadingHealthy, Starting, outside
  <2>2. ASSUME NEW e \in listed
        PROVE  index'[e] = index[e]
    <3>1. index[e] # Absent /\ disk[e] = index[e]
      BY <1>4, <2>1 DEF ListsRemembered, Remembered, CacheAhead
    <3>2. index' = [s \in Source |-> IF disk[s] # Absent THEN disk[s] ELSE index[s]]
      BY <1>5 DEF LoadEnds, Loaded
    <3> QED
      BY <1>4, <3>1, <3>2
  <2> QED
    BY <1>3, <2>1, <2>2
<1>6. CASE WalkEnds \/ RescanEnds
  <2>1. UNCHANGED <<listed, mtime, settings>>
    BY <1>6 DEF WalkEnds, RescanEnds, outside
  <2>2. PICK p \in Place, n \in Entry : index' = [index EXCEPT ![p] = n]
    BY <1>6, MemoryEnds
  <2>3. index \in [Source -> Entry] /\ \A e \in listed : e # p
    BY <1>4, Names DEF TypeOK
  <2> QED
    BY <1>3, <1>4, <2>1, <2>2, <2>3
<1>7. CASE ~ListsMove /\ UNCHANGED <<index, listed, mtime>>
  <2>1. ~_on_settings_changed
    BY <1>7, ListsStep, OutsideTyped
  <2> QED
    BY <1>3, <1>7, <2>1, SettingsStep
<1>8. LoadRefused => UNCHANGED <<index, listed, mtime>>
  BY DEF LoadRefused, memory
<1> QED
  BY <1>1, <1>2, <1>5, <1>6, <1>7, <1>8, MemoryStep

-----------------------------------------------------------------------------
(* The settings the index follows *)

\* A source is indexed under the rules of the settings, or is not by a named cause.
Followed(s) ==
    \/ s \notin Indexed \cup settings.shares
    \/ s \in missed
    \/ s \in Share \ settings.shares
    \/ index[s].rules = settings.rules

\* The worker will still come to the source, or is in it.
Visiting(s) ==
    worker = "scan" /\ (s \in todo \/ (walk["worker"] # NoWalk /\ walk["worker"].at = s))

\* Until a full index is wanted, each source follows the settings or will.
SettingsFollowed ==
    Up /\ worker \in {"none", "scan", "ending"} => \A s \in Place : Followed(s) \/ Visiting(s)

\* The worker was started with the shares of the settings, or they are missed.
NamedShares == worker # "none" => settings.shares \ named \subseteq missed

\* What the worker walks, it walks under the rules of the settings, or it is missed.
WalkRules ==
    walk["worker"] # NoWalk =>
        /\ worker = "scan"
        /\ \/ walk["worker"].entry.rules = settings.rules
           \/ walk["worker"].at \in missed

\* What a change of the settings does to the causes and the worker.
LEMMA SettingsChange ==
  ASSUME TypeOK, _on_settings_changed
  PROVE  /\ UNCHANGED <<gui, walk, rescan, cancelled, events, world>>
         /\ \A s \in Place : index'[s] = index[s]
         /\ \/ /\ settings'.rules = settings.rules /\ settings'.shares = settings.shares
               /\ UNCHANGED <<missed, worker, cached, named, todo>>
            \/ /\ worker # "none" /\ missed' = Place
               /\ UNCHANGED <<worker, cached, named, todo>>
            \/ /\ worker = "none" /\ missed' = missed /\ worker' = "delay" /\ ~cached'
               /\ named' = settings'.shares
<1>1. /\ UNCHANGED <<gui, walk, rescan, cancelled, events, world>>
      /\ IF Reindexes(settings, settings')
         THEN StartWorker(FALSE)
         ELSE UNCHANGED <<worker, cached, named, todo>>
      /\ missed' = IF worker # "none" /\ <<settings.rules, settings.shares>>
                                       # <<settings'.rules, settings'.shares>>
                 THEN Drive \cup Share ELSE missed
  BY DEF _on_settings_changed, medium
<1>2. PICK shares \in SUBSET Share, lists \in SUBSET List, more \in {0, 1} :
         settings' = [shares |-> shares, lists |-> lists, rules |-> settings.rules + more]
  BY DEF _on_settings_changed
<1>3. settings.rules + more \in Nat
  BY DEF TypeOK, Config
<1>4. settings' \in Config
  BY <1>2, <1>3 DEF Config
<1>5. \A s \in Place : index'[s] = index[s]
  BY <1>4, ListsStep DEF ListsMove
<1>6. CASE settings'.rules = settings.rules /\ settings'.shares = settings.shares
  BY <1>1, <1>5, <1>6 DEF Reindexes
<1>7. CASE settings'.rules # settings.rules \/ settings'.shares # settings.shares
  <2>1. Reindexes(settings, settings')
    BY <1>7 DEF Reindexes
  <2>2. CASE worker = "none"
    BY <1>1, <1>5, <2>1, <2>2 DEF StartWorker
  <2>3. CASE worker # "none"
    BY <1>1, <1>5, <1>7, <2>1, <2>3 DEF StartWorker, Place
  <2> QED
    BY <2>2, <2>3
<1> QED
  BY <1>6, <1>7

\* The causes are named by few steps; a visit takes one away.
LEMMA CausesStep ==
  ASSUME TypeOK, [Next]_vars
  PROVE  \/ Fresh /\ gui' = "down"
         \/ _on_settings_changed
         \/ \E s \in Place : WalkBegins(s)
         \/ GiveUp
         \/ RescanEnds
         \/ missed' = missed /\ settings' = settings
<1>1. CASE UNCHANGED vars \/ Boot \/ DamageDatabase \/ (\E s \in Source : ChangeSource(s))
         \/ _start_indexing_with_cache \/ EfuTimer
         \/ _on_indexing_complete \/ _on_cache_loaded \/ _on_index_worker_done
         \/ _quit \/ WaitEnds
         \/ DelayEnds \/ LoadBegins \/ LoadRefused \/ LoadEnds \/ ScanBegins
         \/ WorkerFinishes \/ WorkerEnds \/ WalkEnds \/ (\E d \in Walked : RescanBegins(d))
  BY <1>1 DEF vars, history, outside, Boot, DamageDatabase, ChangeSource,
     _start_indexing_with_cache, EfuTimer, _on_indexing_complete, _on_cache_loaded,
     _on_index_worker_done, save_to_cache, _quit, WaitEnds, DelayEnds, LoadBegins, LoadRefused,
     LoadEnds, ScanBegins, WorkerFinishes, WorkerEnds, WalkEnds, RescanBegins
<1>2. CASE Crash \/ shutdown
  BY <1>2 DEF Crash, shutdown
<1> QED
  BY <1>1, <1>2, StepKinds

\* Where the worker goes: to a new start, through its phases, or it stays.
LEMMA WorkerStep ==
  ASSUME TypeOK, [Next]_vars
  PROVE  \/ Fresh /\ gui' = "down"
         \/ _on_settings_changed
         \/ /\ _start_indexing_with_cache /\ worker = "none" /\ worker' = "delay"
            /\ named' = settings'.shares /\ settings' = settings /\ missed' = missed
         \/ /\ named' = named
            /\ \/ UNCHANGED <<worker, todo>>
               \/ DelayEnds /\ worker = "delay" /\ worker' \in {"load", "begin"}
               \/ LoadBegins /\ worker = "load" /\ worker' \in {"begin", "loading"}
               \/ LoadRefused /\ worker = "load" /\ worker' = "begin"
               \/ LoadEnds /\ worker = "loading" /\ worker' = "scan"
               \/ ScanBegins /\ worker = "begin" /\ worker' = "scan"
               \/ GiveUp /\ worker = "scan" /\ worker' = "scan"
               \/ (\E s \in Place : WalkBegins(s)) /\ worker = "scan" /\ worker' = "scan"
               \/ WorkerFinishes /\ worker = "scan" /\ worker' = "ending"
               \/ WorkerEnds /\ worker = "ending" /\ worker' = "none"
<1>1. CASE Crash \/ shutdown
  BY <1>1 DEF Crash, shutdown
<1>2. CASE _start_indexing_with_cache
  BY <1>2 DEF _start_indexing_with_cache, StartWorker, history
<1>3. CASE \/ DelayEnds \/ LoadBegins \/ LoadRefused \/ LoadEnds \/ ScanBegins \/ GiveUp
           \/ WorkerFinishes \/ WorkerEnds \/ (\E s \in Place : WalkBegins(s))
  BY <1>3 DEF DelayEnds, LoadBegins, LoadRefused, LoadEnds, ScanBegins, GiveUp, WorkerFinishes,
     WorkerEnds, WalkBegins
<1>4. CASE UNCHANGED vars \/ Boot \/ DamageDatabase \/ (\E s \in Source : ChangeSource(s))
         \/ EfuTimer \/ _on_indexing_complete \/ _on_cache_loaded \/ _on_index_worker_done
         \/ _quit \/ WaitEnds \/ WalkEnds \/ RescanEnds \/ (\E d \in Walked : RescanBegins(d))
  BY <1>4 DEF vars, work, Boot, DamageDatabase, ChangeSource, EfuTimer, _on_indexing_complete,
     _on_cache_loaded, _on_index_worker_done, _quit, WaitEnds, WalkEnds, RescanEnds, RescanBegins
<1> QED
  BY <1>1, <1>2, <1>3, <1>4, StepKinds

\* The shares the worker goes to are those of the settings, but for missed ones.
LEMMA NamedStep ==
  ASSUME TypeOK, NamedShares, [Next]_vars
  PROVE  NamedShares'
<1>1. settings.shares \subseteq Share /\ Share \subseteq Place /\ Drive \cap Share = {}
  BY DesktopAssumption DEF DesktopAssumption, TypeOK, Config, Place
<1>2. settings'.shares \subseteq Share
  BY OutsideTyped DEF Config
<1>3. CASE Fresh
  BY <1>3 DEF Fresh, NamedShares
<1>4. CASE _on_settings_changed
  BY <1>1, <1>2, <1>4, SettingsChange DEF NamedShares
<1>5. CASE worker = "none" /\ worker' = "delay" /\ named' = settings'.shares
  BY <1>5 DEF NamedShares
<1>6. CASE /\ named' = named /\ (worker' # "none" => worker # "none")
           /\ missed \subseteq missed' /\ settings' = settings
  BY <1>6 DEF NamedShares
<1>7. ASSUME NEW s \in Place, WalkBegins(s)
      PROVE  NamedShares'
  <2>1. /\ s \in todo /\ UNCHANGED <<worker, named, settings>>
        /\ missed \ {s} \subseteq missed'
    BY <1>7 DEF WalkBegins, Ready, outside
  <2>2. s \notin settings.shares \ named
    BY <1>1, <2>1 DEF TypeOK
  <2> QED
    BY <2>1, <2>2 DEF NamedShares
<1>8. GiveUp \/ RescanEnds => missed \subseteq missed' /\ settings' = settings
  BY DEF GiveUp, RescanEnds, outside
<1>9. \/ Fresh \/ _on_settings_changed
      \/ worker = "none" /\ worker' = "delay" /\ named' = settings'.shares
      \/ named' = named /\ (worker' # "none" => worker # "none")
  BY WorkerStep
<1> QED
  BY <1>3, <1>4, <1>5, <1>6, <1>7, <1>8, <1>9, CausesStep

\* A walk is under the rules of the settings until they change.
LEMMA WalkRulesStep ==
  ASSUME TypeOK, WalkRules, [Next]_vars
  PROVE  WalkRules'
<1>1. "worker" \in Thread /\ "rescan" \in Thread /\ "worker" # "rescan"
      /\ walk \in [Thread -> Walk] /\ (walk["worker"] # NoWalk => walk["worker"].at \in Place)
  BY Names DEF TypeOK
<1>2. CASE Fresh
  BY <1>1, <1>2 DEF Fresh, WalkRules
<1>3. CASE WalkEnds /\ walk' = [walk EXCEPT !["worker"] = NoWalk]
  BY <1>1, <1>3 DEF WalkRules
<1>4. ASSUME NEW s \in Place, WalkBegins(s), world[s] # 0,
             walk' = [walk EXCEPT !["worker"] =
                   [at |-> s, entry |-> [rules |-> settings.rules, seen |-> world[s]]]]
      PROVE  WalkRules'
  <2>1. worker' = "scan" /\ settings' = settings
    BY <1>4 DEF WalkBegins, outside
  <2>2. walk'["worker"].entry.rules = settings.rules
    BY <1>1, <1>4
  <2> QED
    BY <2>1, <2>2 DEF WalkRules
<1>5. CASE walk["worker"] = NoWalk /\ walk'["worker"] = NoWalk
  BY <1>5 DEF WalkRules
<1>6. CASE walk["worker"] # NoWalk /\ walk'["worker"] = walk["worker"]
  <2>1. worker = "scan" /\ \A s \in Place : ~WalkBegins(s)
    BY <1>6 DEF WalkRules, WalkBegins
  <2>2. CASE _on_settings_changed
    BY <1>1, <1>6, <2>1, <2>2, SettingsChange DEF WalkRules
  <2>3. CASE Fresh
    BY <1>1, <2>3 DEF Fresh, WalkRules
  <2>4. CASE ~Fresh /\ ~_on_settings_changed
    <3>1. worker' = "scan"
      BY <1>6, <2>1, <2>4, WorkerStep DEF WorkerFinishes
    <3>2. settings' = settings /\ missed \subseteq missed'
      BY <2>1, <2>4, CausesStep DEF GiveUp, RescanEnds, outside
    <3> QED
      BY <1>6, <3>1, <3>2 DEF WalkRules
  <2> QED
    BY <2>2, <2>3, <2>4
<1>7. \/ Fresh \/ walk'["worker"] = walk["worker"]
      \/ WalkEnds /\ walk' = [walk EXCEPT !["worker"] = NoWalk]
      \/ \E s \in Place :
               /\ WalkBegins(s) /\ world[s] # 0
               /\ walk' = [walk EXCEPT !["worker"] =
                     [at |-> s, entry |-> [rules |-> settings.rules, seen |-> world[s]]]]
  <2>1. \A w : walk' = [walk EXCEPT !["rescan"] = w] => walk'["worker"] = walk["worker"]
    BY <1>1
  <2> QED
    BY <2>1, WalkStep
<1> QED
  BY <1>2, <1>3, <1>4, <1>5, <1>6, <1>7

\* A source that keeps its entry and its cause stays as it was.
LEMMA StaysFollowed ==
  ASSUME NEW s, Followed(s), settings' = settings, index'[s] = index[s],
         s \in Source, s \in missed => s \in missed'
  PROVE  Followed(s)'
BY DEF Followed, Indexed

\* Each source follows the settings, or the worker will come to it.
LEMMA FollowedStep ==
  ASSUME TypeOK, Freshly, NamedShares, WalkRules, SettingsFollowed, [Next]_vars
  PROVE  SettingsFollowed'
<1> USE Names
<1>1. /\ settings.shares \subseteq Share /\ "worker" \in Thread
      /\ walk \in [Thread -> Walk] /\ index \in [Source -> Entry]
      /\ walk["worker"] # NoWalk => walk["worker"].at \in Place
      /\ walk["rescan"] # NoWalk => walk["rescan"].at \in Place
  BY DEF TypeOK, Config
<1>2. CASE Fresh /\ gui' = "down"
  BY <1>2 DEF SettingsFollowed, Up
<1>3. CASE _start_indexing_with_cache /\ worker' = "delay"
  BY <1>3 DEF SettingsFollowed
<1>4. CASE _on_settings_changed
  <2> SUFFICES ASSUME Up', worker' \in {"none", "scan", "ending"}, NEW s \in Place
               PROVE  Followed(s)' \/ Visiting(s)'
    BY DEF SettingsFollowed
  <2>1. index'[s] = index[s] /\ gui' = gui /\ walk' = walk
    BY <1>4, SettingsChange
  <2>2. CASE missed' = Place
    BY <2>2 DEF Followed
  <2>3. CASE /\ settings'.rules = settings.rules /\ settings'.shares = settings.shares
             /\ UNCHANGED <<missed, worker, cached, named, todo>>
    <3>1. Followed(s) \/ Visiting(s)
      BY <2>1, <2>3 DEF SettingsFollowed, Up
    <3> QED
      BY <2>1, <2>3, <3>1 DEF Followed, Visiting, Indexed
  <2> QED
    BY <1>4, <2>2, <2>3, SettingsChange
<1>5. ASSUME NEW p \in Place, WalkBegins(p)
      PROVE  SettingsFollowed'
  <2> SUFFICES ASSUME NEW s \in Place
               PROVE  Followed(s)' \/ Visiting(s)'
    BY DEF SettingsFollowed
  <2>1. /\ worker = "scan" /\ worker' = "scan" /\ walk["worker"] = NoWalk
        /\ Up /\ UNCHANGED <<settings, index>> /\ todo' = todo \ {p}
    BY <1>5 DEF WalkBegins, outside
  <2>2. Followed(s) \/ s \in todo
    BY <2>1 DEF SettingsFollowed, Visiting
  <2>3. CASE s # p
    <3>1. s \in missed => s \in missed'
      BY <1>5, <2>3 DEF WalkBegins
    <3> QED
      BY <2>1, <2>2, <2>3, <3>1, StaysFollowed DEF Visiting
  <2>4. CASE s = p
    <3>1. CASE world[p] = 0
      BY <1>5, <2>4, <3>1 DEF WalkBegins, Followed
    <3>2. CASE world[p] # 0
      <4>1. walk' = [walk EXCEPT !["worker"] =
                   [at |-> p, entry |-> [rules |-> settings.rules, seen |-> world[p]]]]
        BY <1>5, <3>2 DEF WalkBegins
      <4>2. walk'["worker"].at = p /\ walk'["worker"].entry.seen # 0
        BY <1>1, <3>2, <4>1
      <4> QED
        BY <2>1, <2>4, <4>2 DEF Visiting, NoWalk, Absent
    <3> QED
      BY <3>1, <3>2
  <2> QED
    BY <2>3, <2>4
<1>6. CASE WalkEnds
  <2> SUFFICES ASSUME NEW s \in Place
               PROVE  Followed(s)' \/ Visiting(s)'
    BY DEF SettingsFollowed
  <2> DEFINE w == walk["worker"]
  <2>1. /\ Up /\ w # NoWalk /\ UNCHANGED <<settings, todo, worker, missed>>
        /\ index' = [index EXCEPT ![w.at] =
              [rules |-> w.entry.rules, seen |-> IF cancelled THEN 0 ELSE w.entry.seen]]
    BY <1>6 DEF WalkEnds, outside, work, history
  <2>2. worker = "scan" /\ (w.entry.rules = settings.rules \/ w.at \in missed)
    BY <2>1 DEF WalkRules
  <2>3. CASE s = w.at
    <3>1. index'[s].rules = w.entry.rules
      BY <1>1, <2>1, <2>3
    <3> QED
      BY <2>1, <2>2, <2>3, <3>1 DEF Followed
  <2>4. CASE s # w.at
    <3>1. index'[s] = index[s]
      BY <1>1, <2>1, <2>4
    <3>2. Followed(s) \/ s \in todo
      BY <2>1, <2>2, <2>4 DEF SettingsFollowed, Visiting
    <3> QED
      BY <2>1, <2>2, <3>1, <3>2, StaysFollowed DEF Visiting
  <2> QED
    BY <2>3, <2>4
<1>7. CASE RescanEnds
  <2> SUFFICES ASSUME Up', worker' \in {"none", "scan", "ending"}, NEW s \in Place
               PROVE  Followed(s)' \/ Visiting(s)'
    BY DEF SettingsFollowed
  <2> DEFINE w == walk["rescan"]
  <2>1. /\ Up /\ w # NoWalk /\ UNCHANGED <<settings, todo, worker>>
        /\ index' = [index EXCEPT ![w.at] =
              [rules |-> w.entry.rules, seen |-> IF cancelled THEN 0 ELSE w.entry.seen]]
        /\ missed' = IF w.entry.rules = settings.rules THEN missed ELSE missed \cup {w.at}
        /\ walk' = [walk EXCEPT !["rescan"] = NoWalk]
    BY <1>7 DEF RescanEnds, outside, work
  <2>2. walk'["worker"] = walk["worker"]
    BY <1>1, <2>1
  <2>3. CASE s = w.at
    <3>1. index'[s].rules = w.entry.rules
      BY <1>1, <2>1, <2>3
    <3> QED
      BY <2>1, <2>3, <3>1 DEF Followed
  <2>4. CASE s # w.at
    <3>1. index'[s] = index[s]
      BY <1>1, <2>1, <2>4
    <3>2. Followed(s) \/ Visiting(s)
      BY <2>1 DEF SettingsFollowed
    <3>3. s \in missed => s \in missed'
      BY <2>1
    <3> QED
      BY <2>1, <2>2, <3>1, <3>2, <3>3, StaysFollowed DEF Visiting
  <2> QED
    BY <2>3, <2>4
<1>8. CASE GiveUp
  <2> SUFFICES ASSUME NEW s \in Place
               PROVE  Followed(s)' \/ Visiting(s)'
    BY DEF SettingsFollowed
  <2>1. /\ Up /\ worker = "scan" /\ worker' = "scan" /\ walk["worker"] = NoWalk
        /\ UNCHANGED <<settings, index, walk>> /\ missed' = missed \cup (todo \ todo')
    BY <1>8 DEF GiveUp, outside, memory
  <2>2. Followed(s) \/ s \in todo
    BY <2>1 DEF SettingsFollowed, Visiting
  <2>3. CASE s \in todo /\ s \notin todo'
    BY <2>1, <2>3 DEF Followed
  <2>4. CASE s \in todo'
    BY <2>1, <2>4 DEF Visiting
  <2>5. CASE Followed(s)
    <3>1. s \in missed => s \in missed'
      BY <2>1
    <3> QED
      BY <2>1, <2>5, <3>1, StaysFollowed
  <2> QED
    BY <2>2, <2>3, <2>4, <2>5
<1>9. CASE LoadEnds \/ ScanBegins
  <2> SUFFICES ASSUME NEW s \in Place
               PROVE  Followed(s)' \/ Visiting(s)'
    BY DEF SettingsFollowed
  <2>1. /\ worker # "none" /\ worker' = "scan" /\ UNCHANGED <<settings, missed, named>>
        /\ \A d \in Drive : index'[d] # Absent => d \in todo'
        /\ named \subseteq todo'
    <3>1. CASE LoadEnds
      <4>1. /\ index' = Loaded /\ todo' = {d \in Drive : Loaded[d] # Absent} \cup named
        BY <3>1 DEF LoadEnds
      <4> QED
        BY <3>1, <4>1 DEF LoadEnds, outside, history
    <3>2. CASE ScanBegins
      BY <3>2 DEF ScanBegins, outside, history
    <3> QED
      BY <1>9, <3>1, <3>2
  <2>2. CASE s \in todo'
    BY <2>1, <2>2 DEF Visiting
  <2>3. CASE s \in Drive /\ s \notin todo'
    <3>1. index'[s] = Absent /\ s \notin settings.shares
      BY <1>1, <2>1, <2>3, DesktopAssumption DEF DesktopAssumption
    <3> QED
      BY <2>1, <3>1 DEF Followed, Indexed
  <2>4. CASE s \in Share /\ s \notin todo'
    <3>1. s \in settings.shares => s \in missed
      BY <2>1, <2>4 DEF NamedShares
    <3> QED
      BY <2>1, <2>4, <3>1 DEF Followed
  <2> QED
    BY <2>2, <2>3, <2>4 DEF Place
<1>10. ASSUME settings' = settings, missed' = missed, Up' => Up,
              worker' \in {"none", "scan", "ending"} => worker \in {"none", "scan", "ending"},
              \A s \in Place : Visiting(s) => Visiting(s)',
              \A s \in Place : index'[s] = index[s]
       PROVE  SettingsFollowed'
  <2> SUFFICES ASSUME Up', worker' \in {"none", "scan", "ending"}, NEW s \in Place
               PROVE  Followed(s)' \/ Visiting(s)'
    BY DEF SettingsFollowed
  <2>1. Followed(s) \/ Visiting(s)
    BY <1>10 DEF SettingsFollowed
  <2> QED
    BY <1>10, <2>1, StaysFollowed
<1>11. CASE EfuTimer \/ _on_indexing_complete
  <2>1. /\ UNCHANGED <<settings, missed, gui, work, walk>>
    BY <1>11 DEF EfuTimer, _on_indexing_complete
  <2>2. \A s \in Place : index'[s] = index[s]
    BY <1>11, ListsStep, OutsideTyped DEF ListsMove
  <2> QED
    BY <1>10, <2>1, <2>2 DEF Visiting, Up, work
<1>12. CASE DelayEnds \/ LoadBegins \/ LoadRefused
  BY <1>12 DEF DelayEnds, LoadBegins, LoadRefused, SettingsFollowed
<1>13. CASE WorkerFinishes \/ WorkerEnds
  <2>1. UNCHANGED <<settings, missed, gui, index>> /\ \A s \in Place : ~Visiting(s)
    BY <1>13 DEF WorkerFinishes, WorkerEnds, Visiting, outside, memory, history
  <2>2. worker \in {"none", "scan", "ending"}
    BY <1>13 DEF WorkerFinishes, WorkerEnds
  <2> QED
    BY <1>10, <2>1, <2>2 DEF Up
<1>14. ASSUME NEW d \in Walked, RescanBegins(d)
       PROVE  SettingsFollowed'
  <2>1. /\ UNCHANGED <<settings, missed, gui, work, index>>
        /\ walk' = [walk EXCEPT !["rescan"] =
           [at |-> d, entry |-> [rules |-> settings.rules, seen |-> world[d]]]]
    BY <1>14 DEF RescanBegins, outside, history
  <2>2. walk'["worker"] = walk["worker"]
    BY <1>1, <2>1
  <2> QED
    BY <1>10, <2>1, <2>2 DEF Visiting, Up, work
<1>15. CASE \/ UNCHANGED vars \/ Boot \/ DamageDatabase \/ (\E s \in Source : ChangeSource(s))
            \/ _on_cache_loaded \/ _on_index_worker_done \/ _quit \/ WaitEnds
  <2>1. UNCHANGED <<settings, missed, worker, todo, index, walk>> /\ (Up' => Up)
    BY <1>15 DEF vars, outside, work, memory, history, Up, Boot, DamageDatabase, ChangeSource,
       _on_cache_loaded, _on_index_worker_done, save_to_cache, _quit, WaitEnds
  <2> QED
    BY <1>10, <2>1 DEF Visiting
<1>16. Crash \/ shutdown => Fresh /\ gui' = "down"
  BY DEF Crash, shutdown
<1>17. _start_indexing_with_cache => worker' = "delay"
  BY DEF _start_indexing_with_cache, StartWorker, Freshly, Up
<1> QED
  BY <1>2, <1>3, <1>4, <1>5, <1>6, <1>7, <1>8, <1>9, <1>11, <1>12, <1>13, <1>14, <1>15, <1>16,
     <1>17, StepKinds

-----------------------------------------------------------------------------
(* The rows of the database *)

\* The end of the worker is queued.
Announced == \E i \in DOMAIN events : events[i] = "done"

\* When the worker has ended and that was delivered, the rows are those of the index.
RowsSaved ==
    Up /\ healthy /\ worker \in {"none", "ending"} /\ ~Announced
        => \A s \in Source \ unsaved : disk[s] = index[s]

\* The signal goes away when it is delivered.
LEMMA AnnouncedStep ==
  ASSUME TypeOK, [Next]_vars, ~Announced'
  PROVE  /\ (Fresh /\ gui' = "down") \/ ~Announced \/ _on_index_worker_done
         /\ ~WorkerFinishes
<1>1. events \in Seq(Signals)
  BY DEF TypeOK
<1>2. ASSUME NEW more \in Seq(Signals), events' = events \o more
      PROVE  ~Announced /\ \A i \in DOMAIN more : more[i] # "done"
  <2>1. /\ \A i \in DOMAIN events : i \in DOMAIN events' /\ events'[i] = events[i]
        /\ \A i \in DOMAIN more : /\ Len(events) + i \in DOMAIN events'
                                  /\ events'[Len(events) + i] = more[i]
    BY <1>1, <1>2
  <2> QED
    BY <2>1 DEF Announced
<1>3. ASSUME events # << >>, Head(events) # "done", events' = Tail(events)
      PROVE  ~Announced
  <2> SUFFICES ASSUME NEW i \in DOMAIN events, events[i] = "done"
               PROVE  FALSE
    BY DEF Announced
  <2>1. i \in 2..Len(events)
    BY <1>1, <1>3
  <2>2. i - 1 \in DOMAIN events' /\ events'[i - 1] = events[i]
    BY <1>1, <1>3, <2>1
  <2> QED
    BY <2>2 DEF Announced
<1>4. ~WorkerFinishes
  <2> SUFFICES ASSUME WorkerFinishes PROVE  FALSE
    OBVIOUS
  <2>1. CASE events' = events \o <<"done">>
    <3>1. <<"done">> \in Seq(Signals) /\ 1 \in DOMAIN <<"done">> /\ <<"done">>[1] = "done"
      BY DEF Signals
    <3> QED
      BY <1>2, <2>1, <3>1
  <2>2. CASE events' = events \o <<"complete", "done">>
    <3>1. /\ <<"complete", "done">> \in Seq(Signals) /\ 2 \in DOMAIN <<"complete", "done">>
          /\ <<"complete", "done">>[2] = "done"
      BY DEF Signals
    <3> QED
      BY <1>2, <2>2, <3>1
  <2> QED
    BY <2>1, <2>2 DEF WorkerFinishes
<1>5. CASE LoadEnds
  <2>1. <<"complete", "loaded">> \in Seq(Signals) /\ events' = events \o <<"complete", "loaded">>
    BY <1>5 DEF LoadEnds, Signals
  <2> QED
    BY <1>2, <1>4, <2>1
<1>6. CASE _on_indexing_complete \/ _on_cache_loaded
  BY <1>3, <1>4, <1>6 DEF _on_indexing_complete, _on_cache_loaded
<1>7. CASE events' = events
  BY <1>4, <1>7 DEF Announced
<1>8. \/ Fresh /\ gui' = "down"
      \/ WorkerFinishes \/ LoadEnds \/ _on_indexing_complete \/ _on_cache_loaded
      \/ _on_index_worker_done \/ events' = events
  BY StepKinds DEF vars, Boot, Crash, shutdown, DamageDatabase,
     _start_indexing_with_cache, EfuTimer, _on_settings_changed, _quit, WaitEnds,
     DelayEnds, LoadBegins, LoadRefused, ScanBegins, GiveUp,
     WorkerEnds, WalkBegins, WalkEnds, RescanBegins, RescanEnds, ChangeSource
<1> QED
  BY <1>4, <1>5, <1>6, <1>7, <1>8

\* The rows follow the index from the delivery on.
LEMMA RowsSavedStep ==
  ASSUME TypeOK, Freshly, WalkRules, RowsSaved, [Next]_vars
  PROVE  RowsSaved'
<1> SUFFICES ASSUME Up', healthy', worker' \in {"none", "ending"}, ~Announced',
                    NEW s \in Source, s \notin unsaved'
             PROVE  disk'[s] = index'[s]
  BY DEF RowsSaved
<1>1. ~WorkerFinishes /\ (~Announced \/ _on_index_worker_done) /\ gui' # "down"
  BY AnnouncedStep DEF Up
<1>2. ~LoadRefused /\ ~LoadEnds /\ ~WalkEnds
  BY DEF LoadRefused, LoadEnds, WalkEnds, WalkRules, work
<1>3. worker \in {"none", "ending"}
  <2>1. CASE _on_settings_changed
    BY <2>1, SettingsChange
  <2> QED
    BY <1>1, <2>1, WorkerStep
<1>4. healthy
  BY <1>1, <1>2, HealthStep
<1>5. Up
  <2>1. ~_start_indexing_with_cache
    BY DEF _start_indexing_with_cache, StartWorker, Freshly, Up
  <2>2. ~Boot /\ ~Crash /\ ~shutdown
    BY <1>1 DEF Up, Boot, Crash, shutdown
  <2> QED
    BY <1>1, <1>2, <2>1, <2>2, StepKinds DEF Up, vars, DamageDatabase,
       EfuTimer, _on_settings_changed, _on_indexing_complete, _on_cache_loaded,
       _on_index_worker_done, _quit, WaitEnds, DelayEnds, LoadBegins, ScanBegins, GiveUp,
       WorkerEnds, WalkBegins, RescanBegins, RescanEnds, ChangeSource
<1>6. CASE _on_index_worker_done
  BY <1>4, <1>6 DEF _on_index_worker_done, save_to_cache, memory
<1>7. CASE ~Announced
  <2>1. \A u \in Source \ unsaved : disk[u] = index[u]
    BY <1>3, <1>4, <1>5, <1>7 DEF RowsSaved
  <2>2. CASE ListsMove
    BY <1>4, <2>1, <2>2 DEF ListsMove
  <2>3. CASE RescanEnds
    <3>1. /\ disk' = disk /\ unsaved' = unsaved \cup {walk["rescan"].at}
          /\ \E n : index' = [index EXCEPT ![walk["rescan"].at] = n]
      BY <2>3 DEF RescanEnds, outside
    <3>2. index \in [Source -> Entry]
      BY DEF TypeOK
    <3> QED
      BY <2>1, <3>1, <3>2
  <2>4. CASE UNCHANGED index /\ (save_to_cache(index) \/ UNCHANGED <<disk, unsaved>>)
    BY <1>4, <2>1, <2>4 DEF save_to_cache
  <2> QED
    BY <1>1, <1>2, <2>2, <2>3, <2>4, MemoryStep
<1> QED
  BY <1>1, <1>6, <1>7

\* Drives do not go away.
DrivesThere == \A s \in Drive : world[s] # 0

\* What a walk stores is something, unless it is cancelled.
WalkSees == \A t \in Thread : walk[t] # NoWalk => walk[t].entry.seen # 0

\* Until a quit nothing is cancelled, and nothing in the index was.
IndexWhole ==
    gui \in {"down", "boot", "idle"} =>
        ~cancelled /\ \A s \in Source : index[s] # Absent => index[s].seen # 0

\* Drives change, and stay.
LEMMA DrivesStep ==
  ASSUME TypeOK, DrivesThere, [Next]_vars
  PROVE  DrivesThere'
<1>1. ASSUME NEW s \in Source, ChangeSource(s)
      PROVE  DrivesThere'
  <2>1. changes \in Nat /\ world \in [Source -> Nat] /\ Drive \subseteq Source
    BY DEF TypeOK, Source
  <2>2. \/ world' = [world EXCEPT ![s] = changes + 2]
        \/ s \notin Drive /\ world' = [world EXCEPT ![s] = 0]
    BY <1>1 DEF ChangeSource
  <2>3. changes + 2 # 0
    BY <2>1
  <2>4. ASSUME NEW d \in Drive PROVE world'[d] # 0
    BY <2>1, <2>2, <2>3 DEF DrivesThere
  <2> QED
    BY <2>4 DEF DrivesThere
<1>2. (\E s \in Source : ChangeSource(s)) \/ world' = world
  BY StepKinds DEF vars, outside, medium, Boot, Crash, shutdown, DamageDatabase,
     _start_indexing_with_cache, EfuTimer, _on_settings_changed, _on_indexing_complete,
     _on_cache_loaded, _on_index_worker_done, _quit, WaitEnds, DelayEnds, LoadBegins,
     LoadRefused, LoadEnds, ScanBegins, GiveUp, WorkerFinishes, WorkerEnds, WalkBegins,
     WalkEnds, RescanBegins, RescanEnds
<1> QED
  BY <1>1, <1>2 DEF DrivesThere

\* Only what is there is walked.
LEMMA WalkSeesStep ==
  ASSUME TypeOK, DrivesThere, WalkSees, [Next]_vars
  PROVE  WalkSees'
<1>1. walk \in [Thread -> Walk] /\ Walked \subseteq Drive
  BY DesktopAssumption DEF TypeOK, DesktopAssumption
<1>2. ASSUME NEW t \in Thread, NEW w, w = NoWalk \/ w.entry.seen # 0,
             walk' = [walk EXCEPT ![t] = w]
      PROVE  WalkSees'
  BY <1>1, <1>2 DEF WalkSees
<1>3. CASE Fresh
  BY <1>3 DEF Fresh, WalkSees
<1>4. CASE walk' = walk
  BY <1>4 DEF WalkSees
<1>5. CASE \/ walk' = [walk EXCEPT !["worker"] = NoWalk]
           \/ walk' = [walk EXCEPT !["rescan"] = NoWalk]
  BY <1>2, <1>5, Names
<1>6. ASSUME NEW s, NEW t \in Thread, world[s] # 0,
             walk' = [walk EXCEPT ![t] =
                 [at |-> s, entry |-> [rules |-> settings.rules, seen |-> world[s]]]]
      PROVE  WalkSees'
  <2> DEFINE w == [at |-> s, entry |-> [rules |-> settings.rules, seen |-> world[s]]]
  <2>1. w.entry.seen # 0
    BY <1>6
  <2> QED
    BY <1>2, <1>6, <2>1
<1>7. \A d \in Walked : world[d] # 0
  BY <1>1 DEF DrivesThere
<1> QED
  BY <1>3, <1>4, <1>5, <1>6, <1>7, Names, WalkStep

\* A flag is set when the program quits, and it does not come back to idle.
LEMMA CancelStep ==
  ASSUME TypeOK, Freshly, IndexWhole, [Next]_vars, gui' \in {"down", "boot", "idle"}
  PROVE  ~cancelled' /\ (Fresh \/ gui \in {"down", "boot", "idle"})
<1>1. Fresh \/ (gui \in {"down", "boot", "idle"} /\ (cancelled' = cancelled \/ cancelled' = FALSE))
  BY StepKinds DEF vars, work, Boot, Crash, shutdown, DamageDatabase,
     _start_indexing_with_cache, EfuTimer, _on_settings_changed,
     _on_indexing_complete, _on_cache_loaded, _on_index_worker_done, _quit, WaitEnds,
     DelayEnds, LoadBegins, LoadRefused, LoadEnds, ScanBegins, GiveUp, WorkerFinishes,
     WorkerEnds, WalkBegins, WalkEnds, RescanBegins, RescanEnds, ChangeSource
<1> QED
  BY <1>1 DEF Fresh, IndexWhole

\* What the index holds before a quit was stored by a walk that was not cancelled.
LEMMA IndexWholeStep ==
  ASSUME TypeOK, Freshly, LoadingHealthy, WalkSees, SavedWhole, IndexWhole, [Next]_vars
  PROVE  IndexWhole'
<1> SUFFICES ASSUME gui' \in {"down", "boot", "idle"}
             PROVE  \A s \in Source : index'[s] # Absent => index'[s].seen # 0
  BY CancelStep DEF IndexWhole
<1>1. CASE Fresh
  BY <1>1 DEF Fresh
<1>2. CASE ~Fresh
  <2>1. ~cancelled /\ \A s \in Source : index[s] # Absent => index[s].seen # 0
    BY <1>2, CancelStep DEF IndexWhole
  <2>2. CASE ListsMove
    <3>1. ASSUME NEW s \in Source, index'[s] # Absent
          PROVE  index'[s].seen # 0
      <4>1. CASE s \in Place
        BY <2>1, <2>2, <3>1, <4>1 DEF ListsMove
      <4>2. CASE s \in List
        <5>1. \/ index'[s] = [rules |-> 0, seen |-> world[s]] /\ world[s] # 0
              \/ index'[s] = Absent
              \/ index'[s] = index[s]
          BY <2>2, <4>2 DEF ListsMove
        <5> QED
          BY <2>1, <3>1, <5>1
      <4> QED
        BY <4>1, <4>2, Names
    <3> QED
      BY <3>1
  <2>3. CASE LoadEnds
    <3>1. healthy /\ index' = [s \in Source |-> IF disk[s] # Absent THEN disk[s] ELSE index[s]]
      BY <2>3 DEF LoadEnds, Loaded, LoadingHealthy
    <3> QED
      BY <2>1, <3>1 DEF SavedWhole
  <2>4. CASE WalkEnds
    <3> DEFINE w == walk["worker"]
    <3>1. /\ w # NoWalk /\ index' = [index EXCEPT ![w.at] =
              [rules |-> w.entry.rules, seen |-> IF cancelled THEN 0 ELSE w.entry.seen]]
      BY <2>4 DEF WalkEnds
    <3>2. w.entry.seen # 0 /\ index \in [Source -> Entry]
      BY <3>1, Names DEF WalkSees, TypeOK
    <3> QED
      BY <2>1, <3>1, <3>2
  <2>5. CASE RescanEnds
    <3> DEFINE w == walk["rescan"]
    <3>1. /\ w # NoWalk /\ index' = [index EXCEPT ![w.at] =
              [rules |-> w.entry.rules, seen |-> IF cancelled THEN 0 ELSE w.entry.seen]]
      BY <2>5 DEF RescanEnds
    <3>2. w.entry.seen # 0 /\ index \in [Source -> Entry]
      BY <3>1, Names DEF WalkSees, TypeOK
    <3> QED
      BY <2>1, <3>1, <3>2
  <2>6. CASE index' = index
    BY <2>1, <2>6
  <2> QED
    BY <1>2, <2>2, <2>3, <2>4, <2>5, <2>6, MemoryStep DEF LoadRefused, memory
<1> QED
  BY <1>1, <1>2

\* The database gets what the index holds before a quit.
LEMMA SavedWholeStep ==
  ASSUME TypeOK, Freshly, IndexWhole, IndexWhole', SavedWhole, [Next]_vars
  PROVE  SavedWhole'
<1> SUFFICES ASSUME healthy', NEW s \in Source, disk'[s] # Absent
             PROVE  disk'[s].seen # 0
  BY DEF SavedWhole
<1>1. CASE LoadRefused /\ disk' = [u \in Source |-> Absent]
  BY <1>1
<1>2. CASE healthy
  <2>1. CASE disk' = disk
    BY <1>2, <2>1 DEF SavedWhole
  <2>2. CASE disk' = [u \in Source |-> Absent]
    BY <2>2
  <2>3. CASE disk' # disk /\ disk' # [u \in Source |-> Absent]
    <3>1. EfuTimer \/ _on_indexing_complete \/ _on_settings_changed
          \/ _on_index_worker_done \/ _quit
      BY <2>3, StepKinds DEF vars, outside, Boot, Crash, shutdown, DamageDatabase,
         _start_indexing_with_cache, _on_cache_loaded, WaitEnds, DelayEnds, LoadBegins,
         LoadRefused, recover_db, LoadEnds, ScanBegins, GiveUp, WorkerFinishes,
         WorkerEnds, WalkBegins, WalkEnds, RescanBegins, RescanEnds, ChangeSource
    <3>2. CASE EfuTimer \/ _on_indexing_complete \/ _on_settings_changed
      <4>1. disk' = index'
        BY <2>3, <3>2, ListsStep, OutsideTyped DEF ListsMove
      <4>2. gui' = "idle"
        BY <3>2 DEF EfuTimer, _on_indexing_complete, _on_settings_changed
      <4> QED
        BY <4>1, <4>2 DEF IndexWhole
    <3>3. CASE _on_index_worker_done \/ _quit
      <4>1. disk' = index /\ gui = "idle"
        BY <2>3, <3>3 DEF _on_index_worker_done, _quit, save_to_cache
      <4> QED
        BY <4>1 DEF IndexWhole
    <3> QED
      BY <3>1, <3>2, <3>3
  <2> QED
    BY <2>1, <2>2, <2>3
<1> QED
  BY <1>1, <1>2, HealthStep

-----------------------------------------------------------------------------
(* The theorems *)

\* The inductive invariant: the types; a process begins without memory and loads its
\* cache before anything else touches what that holds; which sources the worker will
\* still come to; when the rows were saved; and that only a quit cancels a walk.
DesktopInv ==
    /\ TypeOK /\ Freshly /\ StartAlone /\ LoadingHealthy /\ CacheAhead /\ ListsRemembered
    /\ NamedShares /\ WalkRules /\ SettingsFollowed /\ RowsSaved
    /\ DrivesThere /\ WalkSees /\ IndexWhole /\ SavedWhole

\* It holds when the program has never run.
LEMMA DesktopInit == Init => DesktopInv
<1> SUFFICES ASSUME Init PROVE  DesktopInv
  OBVIOUS
<1>1. TypeOK
  BY TypeInit
<1>2. Freshly /\ StartAlone /\ LoadingHealthy /\ CacheAhead
  BY DEF Init, Freshly, StartAlone, LoadingHealthy, CacheAhead, Starting, Up
<1>3. ListsRemembered /\ NamedShares /\ SettingsFollowed /\ RowsSaved
  BY DEF Init, ListsRemembered, NamedShares, SettingsFollowed, RowsSaved, Up
<1>4. WalkRules /\ WalkSees
  BY Names DEF Init, WalkRules, WalkSees
<1>5. DrivesThere /\ IndexWhole /\ SavedWhole
  BY Names DEF Init, DrivesThere, IndexWhole, SavedWhole, Source
<1> QED
  BY <1>1, <1>2, <1>3, <1>4, <1>5 DEF DesktopInv

\* Every step keeps it.
LEMMA DesktopStep == DesktopInv /\ [Next]_vars => DesktopInv'
<1> SUFFICES ASSUME DesktopInv, [Next]_vars PROVE  DesktopInv'
  OBVIOUS
<1>1. TypeOK' /\ Freshly' /\ StartAlone' /\ LoadingHealthy' /\ CacheAhead'
  BY TypeStep, FreshlyStep, StartAloneStep, LoadingStep, CacheStep DEF DesktopInv
<1>2. ListsRemembered' /\ NamedShares' /\ WalkRules' /\ SettingsFollowed' /\ RowsSaved'
  BY ListsRememberedStep, NamedStep, WalkRulesStep, FollowedStep, RowsSavedStep DEF DesktopInv
<1>3. DrivesThere' /\ WalkSees' /\ IndexWhole'
  BY DrivesStep, WalkSeesStep, IndexWholeStep DEF DesktopInv
<1>4. SavedWhole'
  BY <1>3, SavedWholeStep DEF DesktopInv
<1> QED
  BY <1>1, <1>2, <1>3, <1>4 DEF DesktopInv

\* Once a signal of the end was delivered and nothing is under way, every drive and
\* share of the index was walked under the settings, but for the causes that
\* IndexFollowsSettings names.
THEOREM SettingsAreFollowed == Spec => []IndexFollowsSettings
<1>1. DesktopInv => IndexFollowsSettings
  <2> SUFFICES ASSUME DesktopInv, Quiet, NEW s \in Indexed \cup settings.shares
               PROVE  \/ s \in List \cup missed
                      \/ s \in Share \ settings.shares
                      \/ index[s].rules = settings.rules
    BY DEF IndexFollowsSettings
  <2>1. s \in Place \/ s \in List
    BY Names DEF Indexed, DesktopInv, TypeOK, Config, Place
  <2>2. CASE s \in Place
    <3>1. Followed(s) \/ Visiting(s)
      BY <2>2 DEF DesktopInv, SettingsFollowed, Quiet, Up
    <3> QED
      BY <3>1 DEF Followed, Visiting, Quiet
  <2> QED
    BY <2>1, <2>2
<1> QED
  BY <1>1, DesktopInit, DesktopStep, PTL DEF Spec

\* Neither the load of the cache, in a thread of its own, nor a walk replaces a list
\* that _refresh_efu_files has loaded: what it remembers is what the index holds.
THEOREM ListsStayCurrent == Spec => []ListsCurrent
<1>1. DesktopInv => ListsCurrent
  BY DEF DesktopInv, ListsRemembered, Remembered, ListsCurrent
<1> QED
  BY <1>1, DesktopInit, DesktopStep, PTL DEF Spec

\* The rows are those of the index once the worker's end was delivered, but for drives
\* the rescan thread has stored since; and a walk that a quit has cancelled never
\* gets into the database, whenever it ends.
THEOREM RowsAreSound == Spec => []RowsSound
<1>1. DesktopInv => RowsSound
  <2> SUFFICES ASSUME DesktopInv PROVE  RowsFollowIndex
    BY DEF DesktopInv, RowsSound
  <2>1. Quiet => Up /\ worker = "none" /\ ~Announced
    BY DEF Quiet, Up, Announced
  <2> QED
    BY <2>1 DEF DesktopInv, RowsSaved, RowsFollowIndex
<1> QED
  BY <1>1, DesktopInit, DesktopStep, PTL DEF Spec
=============================================================================

----------------------------- MODULE SearchTabs -----------------------------
(***************************************************************************)
(* Search tabs of the main window (gui/main_window.py): one line edit and  *)
(* one debounce timer for all tabs, a search thread per tab, results       *)
(* posted to the event loop.                                               *)
(*                                                                         *)
(* A query is the number of the edit that made it: of its text, its match  *)
(* options, its filter or its workspace roots.  The event loop runs one    *)
(* handler at a time; the only handler that waits is _execute_search, for  *)
(* the thread it has cancelled.  How long the timer runs is left out.      *)
(***************************************************************************)
EXTENDS Integers, Sequences, FiniteSets

CONSTANTS Tab,
          Invalid,    \* edits that are no valid regular expression
          MaxEdits,   \* bound: edits and repeated searches
          MaxSwitches,\* bound: changes of the current tab
          MaxUpdates  \* bound: changes of the index

ASSUME SearchTabsAssumption ==
    /\ IsFiniteSet(Tab) /\ Tab # {} /\ Invalid \subseteq Nat
    /\ MaxEdits \in Nat /\ MaxSwitches \in Nat /\ MaxUpdates \in Nat

VARIABLES
    tabs,      \* MainWindow._tabs
    current,   \* the current tab
    text,      \* SearchTab.query and the options it is searched with
    shown,     \* the query whose results the tab's view holds
    edits, switches, updates,
    timer,     \* _search_timer is active
    waiting,   \* _execute_search waits for the thread it cancelled
    threads,   \* search threads that run
    latest,    \* SearchTab.search_worker
    started,   \* threads started so far; the last is MainWindow._search_worker
    posted,    \* results_ready signals the event loop has not delivered
    skipped,   \* history: queries not searched for, with a warning in the log
    left       \* history: queries whose tab was left

user == <<tabs, current, text, edits, switches>>
search == <<waiting, threads, latest, started, posted, skipped>>
tabsVars == <<user, search, shown, timer, updates, left>>

Running(t) == \E w \in threads : w.id = latest[t]

\* The thread w with its place and its flag changed.
Thread(w, pc, cancelled) ==
    [id |-> w.id, tab |-> w.tab, query |-> w.query, pc |-> pc, cancelled |-> cancelled]

-----------------------------------------------------------------------------
\* SearchWorker.run: search, look at the cancel flag, emit.

Search(w) ==
    /\ w \in threads /\ w.pc = "search"
    /\ threads' = (threads \ {w}) \cup
                  (IF w.cancelled THEN {} ELSE {Thread(w, "emit", FALSE)})
    /\ UNCHANGED <<user, shown, timer, updates, waiting, latest, started, posted, skipped, left>>

Emit(w) ==
    /\ w \in threads /\ w.pc = "emit"
    /\ threads' = threads \ {w}
    /\ posted' = Append(posted, [tab |-> w.tab, query |-> w.query])
    /\ UNCHANGED <<user, shown, timer, updates, waiting, latest, started, skipped, left>>

-----------------------------------------------------------------------------
\* The event loop

Free == ~waiting

\* The end of _execute_search: text is read after the wait.
Start(t) ==
    IF text'[t] \in Invalid THEN UNCHANGED <<threads, latest, started>>
    ELSE /\ started' = started + 1
         /\ latest' = [latest EXCEPT ![t] = started']
         /\ threads' = threads \cup
              {[id |-> started', tab |-> t, query |-> text'[t], pc |-> "search",
                cancelled |-> FALSE]}

Cancelled(t) == {Thread(w, w.pc, w.cancelled \/ w.id = latest[t]) : w \in threads}

\* _execute_search up to worker.wait(3000), or to its end where nothing runs.
_execute_search ==
    /\ timer' = FALSE
    /\ IF Running(current)
       THEN /\ threads' = Cancelled(current)
            /\ waiting' = TRUE
            /\ UNCHANGED <<latest, started>>
       ELSE Start(current) /\ UNCHANGED waiting
    /\ UNCHANGED <<shown, updates, posted, skipped, left>>

StartAnyway ==  \* mutant: a search that does not stop is not waited for
    /\ waiting /\ waiting' = FALSE
    /\ UNCHANGED <<user, shown, timer, updates, posted, skipped, left>>
    /\ Start(current)
Forget ==  \* mutant: the new search is not started after the wait
    /\ waiting /\ waiting' = FALSE
    /\ \/ ~Running(current) /\ UNCHANGED skipped
       \/ Running(current) /\ skipped' = skipped \cup {text[current]}
    /\ UNCHANGED <<user, shown, timer, updates, posted, threads, latest, started, left>>
\* The thread has ended, or three seconds have passed and the search is skipped.
WaitEnds ==
    /\ waiting /\ waiting' = FALSE
    /\ UNCHANGED <<user, shown, timer, updates, posted, left>>
    /\ \/ ~Running(current) /\ Start(current) /\ UNCHANGED skipped
       \/ /\ Running(current)
          /\ skipped' = skipped \cup {text[current]}
          /\ UNCHANGED <<threads, latest, started>>

TimerFires == Free /\ timer /\ UNCHANGED user /\ _execute_search

EditCurrent ==
    /\ Free /\ edits < MaxEdits
    /\ edits' = edits + 1
    /\ text' = [text EXCEPT ![current] = edits']
    /\ UNCHANGED <<tabs, current, switches>>

\* The query or its workspace roots are typed: search after the delay.
Typed == /\ EditCurrent
         /\ timer' = TRUE
         /\ UNCHANGED <<search, shown, updates, left>>
_on_search_text_changed == Typed
_on_workspace_roots_changed == Typed

\* An option, the filter, a bookmark or a hidden path: search at once.
EditAndSearch == EditCurrent /\ _execute_search
_on_search_option_changed == EditAndSearch
_on_filter_changed == EditAndSearch
_on_bookmark_activated == EditAndSearch
_hide_path_from_results == EditAndSearch

\* The end of indexing, a file list, a saved setting, ...: the query again.
_trigger_search ==
    /\ Free /\ edits < MaxEdits
    /\ edits' = edits + 1
    /\ UNCHANGED <<tabs, current, text, switches>>
    /\ _execute_search

_on_tab_changed(t) ==
    /\ Free /\ switches < MaxSwitches /\ t \in tabs \ {current}
    /\ switches' = switches + 1
    /\ current' = t
    /\ left' = left \cup {text[current]}
    /\ UNCHANGED <<tabs, text, edits, search, shown, timer, updates>>

\* Waits for a second at most; what the thread does then finds no tab.
_close_tab(t) ==
    /\ Free /\ switches < MaxSwitches /\ t \in tabs /\ tabs # {t}
    /\ switches' = switches + 1
    /\ tabs' = tabs \ {t}
    /\ current' \in IF t = current THEN tabs' ELSE {current}
    /\ left' = left \cup (IF t = current THEN {text[t]} ELSE {})
    /\ threads' = Cancelled(t)
    /\ UNCHANGED <<text, edits, shown, timer, updates, waiting, latest, started,
                   posted, skipped>>

_on_search_results ==
    /\ Free /\ posted # <<>>
    /\ posted' = Tail(posted)
    /\ LET r == Head(posted) IN
       shown' = IF r.tab \in tabs THEN [shown EXCEPT ![r.tab] = r.query] ELSE shown
    /\ UNCHANGED <<user, timer, updates, waiting, threads, latest, started, skipped, left>>

\* Skipped while the search started last runs.
_on_index_updated ==
    /\ Free /\ updates < MaxUpdates
    /\ updates' = updates + 1
    /\ timer' = (timer \/ ~\E w \in threads : w.id = started)
    /\ UNCHANGED <<user, search, shown, left>>

-----------------------------------------------------------------------------
TabsInit ==
    /\ tabs = Tab /\ current \in Tab
    /\ text = [t \in Tab |-> 0] /\ shown = [t \in Tab |-> 0]
    /\ edits = 0 /\ switches = 0 /\ updates = 0
    /\ timer = FALSE /\ waiting = FALSE /\ threads = {}
    /\ latest = [t \in Tab |-> 0] /\ started = 0 /\ posted = <<>>
    /\ skipped = {} /\ left = {}

ThreadStep == \E w \in threads : Search(w) \/ Emit(w)
LoopStep == WaitEnds \/ TimerFires \/ _on_search_results
Edit == \/ _on_search_text_changed \/ _on_workspace_roots_changed
        \/ _on_search_option_changed \/ _on_filter_changed
        \/ _on_bookmark_activated \/ _hide_path_from_results
TabsNext == \/ ThreadStep \/ LoopStep \/ Edit \/ _trigger_search
            \/ \E t \in Tab : _on_tab_changed(t) \/ _close_tab(t)
            \/ _on_index_updated

\* Threads run, the event loop turns and its timer fires.
TabsFairness == /\ WF_tabsVars(ThreadStep) /\ WF_tabsVars(WaitEnds)
                /\ WF_tabsVars(TimerFires) /\ WF_tabsVars(_on_search_results)

TabsSpec == TabsInit /\ [][TabsNext]_tabsVars
TabsFairSpec == TabsSpec /\ TabsFairness

-----------------------------------------------------------------------------
Query == 0..MaxEdits

\* A tab never goes back to the results of an earlier query: the search of that
\* query has ended, and its results are posted, before the next one starts.
ResultsInOrder == [][\A t \in Tab : shown'[t] >= shown[t]]_tabsVars

Answered(t, q) == shown[t] = q \/ text[t] # q \/ q \in skipped

\* A valid query gets its results, and keeps them, unless the user left its tab or
\* the search was skipped because the one before it would not stop.
CurrentQueryAnswered ==
    \A t \in Tab : \A q \in Query \ Invalid :
        text[t] = q ~> (Answered(t, q) \/ q \in left)
=============================================================================

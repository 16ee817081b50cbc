------------------------------- MODULE Launcher -------------------------------
(***************************************************************************)
(* The launcher popup (gui/launcher_popup.py): a line edit with a debounce *)
(* timer, a search thread per query, and the threads' signals, which the   *)
(* event loop delivers in the order they were posted.                      *)
(*                                                                         *)
(* A text is its edit's number; 0 is the empty text.  A worker is a Python *)
(* object around a QThread: once Qt has deleted the thread, a call of      *)
(* isRunning() raises.  quickfind.excepthook reports what a handler raises *)
(* and the event loop goes on, without the rest of that handler.           *)
(***************************************************************************)
EXTENDS Integers, Sequences, FiniteSets

CONSTANTS Calc,      \* texts that start with "=" or hold nothing but a prefix
          MaxEdits   \* bound: texts typed

VARIABLES
    text, typed,   \* _search_input, and the texts typed so far
    visible,       \* the popup is shown
    timer,         \* _debounce is active
    worker,        \* _worker; 0 is None
    pending,       \* _pending_workers
    threads,       \* search threads that run
    started,       \* workers made so far
    deleted,       \* workers whose QThread Qt has deleted
    posted,        \* signals and deferred deletions the event loop holds
    list           \* the text whose results the list shows; 0 when it is hidden

input == <<text, typed, visible>>
refs == <<worker, pending>>
objects == <<threads, started, deleted, posted>>
vars == <<input, timer, refs, objects, list>>

\* parse_launcher_query: a calculation has no query, and nor has the empty text.
Query(x) == IF x \in Calc THEN 0 ELSE x

Running(w) == \E t \in threads : t.id = w

\* _cancel_worker asks a deleted thread whether it runs.
Raises == worker \in deleted

\* _cancel_worker: the flag is set and the worker is kept, where its thread runs.
Cancelled == {IF t.id = worker THEN [t EXCEPT !.cancelled = TRUE] ELSE t : t \in threads}
CancelWorker ==
    pending' = IF Running(worker) THEN pending \cup {worker} ELSE pending

-----------------------------------------------------------------------------
\* _LauncherSearchWorker.run: search, look at the flag, emit, end.

Search(t) ==
    /\ t \in threads /\ t.pc = "search"
    /\ threads' = (threads \ {t}) \cup
                  {[t EXCEPT !.pc = IF t.cancelled THEN "end" ELSE "emit"]}
    /\ UNCHANGED <<input, timer, refs, started, deleted, posted, list>>

Emit(t) ==
    /\ t \in threads /\ t.pc = "emit"
    /\ threads' = (threads \ {t}) \cup {[t EXCEPT !.pc = "end"]}
    /\ posted' = Append(posted, [kind |-> "results", of |-> t.query])
    /\ UNCHANGED <<input, timer, refs, started, deleted, list>>

End(t) ==
    /\ t \in threads /\ t.pc = "end"
    /\ threads' = threads \ {t}
    /\ posted' = Append(posted, [kind |-> "finished", of |-> t.id])
    /\ UNCHANGED <<input, timer, refs, started, deleted, list>>

-----------------------------------------------------------------------------
\* Signals

_on_results_ready ==
    /\ posted # <<>> /\ Head(posted).kind = "results"
    /\ posted' = Tail(posted)
    /\ list' = IF Head(posted).of = Query(text) THEN Head(posted).of ELSE list
    /\ UNCHANGED <<input, timer, refs, threads, started, deleted>>

\* _worker keeps the wrapper of the thread deleteLater is called for.
_retire_worker ==
    /\ posted # <<>> /\ Head(posted).kind = "finished"
    /\ pending' = pending \ {Head(posted).of}
    /\ posted' = Append(Tail(posted), [kind |-> "delete", of |-> Head(posted).of])
    /\ UNCHANGED <<input, timer, worker, threads, started, deleted, list>>

DeferredDelete ==
    /\ posted # <<>> /\ Head(posted).kind = "delete"
    /\ posted' = Tail(posted)
    /\ deleted' = deleted \cup {Head(posted).of}
    /\ UNCHANGED <<input, timer, refs, threads, started, list>>

-----------------------------------------------------------------------------
\* The popup

_on_text_changed ==
    /\ visible /\ typed < MaxEdits
    /\ typed' = typed + 1 /\ text' = typed' /\ timer' = TRUE
    /\ UNCHANGED <<visible, refs, objects, list>>

_do_search ==
    /\ timer /\ timer' = FALSE
    /\ \/ Raises /\ UNCHANGED <<refs, objects, list>>
       \/ /\ ~Raises /\ Query(text) = 0
          /\ CancelWorker /\ threads' = Cancelled
          /\ worker' = 0 /\ list' = 0
          /\ UNCHANGED <<started, deleted, posted>>
       \/ /\ ~Raises /\ Query(text) # 0
          /\ CancelWorker
          /\ started' = started + 1 /\ worker' = started'
          /\ threads' = Cancelled \cup {[id |-> started', query |-> Query(text),
                                         pc |-> "search", cancelled |-> FALSE]}
          /\ UNCHANGED <<deleted, posted, list>>
    /\ UNCHANGED input

show_popup ==
    /\ ~visible /\ typed < MaxEdits /\ visible' = TRUE
    /\ text' = 0 /\ timer' = (timer \/ text # 0) /\ list' = 0
    /\ UNCHANGED <<typed, refs, objects>>

dismiss ==
    /\ visible
    /\ \/ Raises /\ UNCHANGED vars
       \/ /\ ~Raises
          /\ CancelWorker /\ threads' = Cancelled /\ worker' = 0
          /\ text' = 0 /\ timer' = (timer \/ text # 0) /\ list' = 0
          /\ visible' = FALSE
          /\ UNCHANGED <<typed, started, deleted, posted>>

\* What is opened changes nothing here.
_on_item_activated == list # 0 /\ dismiss

keyPressEvent == dismiss \/ _on_item_activated  \* Escape or Enter
_check_focus_lost == dismiss
_show_from_tray == show_popup \/ dismiss

-----------------------------------------------------------------------------
Init ==
    /\ text = 0 /\ typed = 0 /\ visible = FALSE /\ timer = FALSE
    /\ worker = 0 /\ pending = {} /\ threads = {} /\ started = 0
    /\ deleted = {} /\ posted = <<>> /\ list = 0

ThreadStep == \E t \in threads : Search(t) \/ Emit(t) \/ End(t)
Signal == _on_results_ready \/ _retire_worker \/ DeferredDelete
Next == \/ ThreadStep \/ Signal \/ _on_text_changed \/ _do_search
        \/ keyPressEvent \/ _check_focus_lost \/ _show_from_tray

\* Threads run, the event loop delivers and its timer fires.
Spec == Init /\ [][Next]_vars /\ WF_vars(ThreadStep) /\ WF_vars(Signal)
             /\ WF_vars(_do_search)

-----------------------------------------------------------------------------
\* "Run the query off the GUI thread; results are rendered when they arrive"
\* (launcher_popup.py:305): a text that stays gets its results.
InputAnswered ==
    \A x \in (1..MaxEdits) \ Calc : text = x ~> (list = x \/ text # x)
=============================================================================

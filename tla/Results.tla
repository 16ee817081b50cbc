------------------------------- MODULE Results --------------------------------
(***************************************************************************)
(* The results of the search tabs: the table and path-column models of     *)
(* gui/results_view.py, the selection, the preview panes it drives, and    *)
(* the deletion of selected files by threads of gui/main_window.py, while  *)
(* searches go on bringing new results.                                    *)
(*                                                                         *)
(* An entry is the file it stands for.  What a search finds, the order a   *)
(* sort gives and whether a file can be recycled are any the code can      *)
(* meet.  A search may bring a file that is gone: the index learns of a    *)
(* deletion from the monitor, later.                                       *)
(***************************************************************************)
EXTENDS Preview, SequencesExt

CONSTANTS Tab,
          Batch,    \* FETCH_BATCH_SIZE
          MaxRows,  \* bound: results of a search
          Budgets   \* bound: how often steps of each kind are taken, one of a set

ASSUME ResultsAssumption ==
    /\ IsFiniteSet(Tab) /\ Tab # {} /\ Batch \in Nat \ {0}
    /\ MaxRows \in Nat
    /\ Budgets \subseteq [{"results", "selects", "views", "deletes"} -> Nat]

VARIABLES
    tabs, current, \* _tabs and the current tab
    results,       \* per tab: ResultsTableModel._all_results
    loaded,        \* per tab: _loaded_count, the rows of the table
    columns,       \* per tab: the rows of PathColumnModel
    mode,          \* per tab: the view shown
    selected,      \* per tab and view: the selected rows
    label,         \* the number _result_count_label shows
    quick,         \* the quick preview is visible
    jobs,          \* deletions whose thread runs
    completed,     \* _delete_completed signals not delivered
    gone,          \* files in the Recycle Bin
    chosen,        \* history, per tab and view: the files of the rows last selected
    reported,      \* history: files a completed deletion has reported
    fresh,         \* history, per tab: files found by a search since
    budget         \* how often a step of each kind may still be taken

models == <<results, loaded, columns, mode, selected, label, chosen, fresh>>
deletion == <<jobs, completed, gone, reported>>
vars == <<panes, tabs, current, models, quick, deletion, budget>>

Spend(k) == budget[k] > 0 /\ budget' = [budget EXCEPT ![k] = @ - 1]

View == {"table", "columns"}
NoRows == [v \in View |-> {}]

\* entry_at of the two models
Row(t, v, i) == IF v = "table" THEN results[t][i] ELSE columns[t][i]
Rows(t, v) == 1..IF v = "table" THEN loaded[t] ELSE Len(columns[t])

\* ResultsView.selected_entries: those of the view that is shown, the first one first
Selected(t) == selected[t][mode[t]]
SelectedEntries(t) == {Row(t, mode[t], i) : i \in Selected(t)}

-----------------------------------------------------------------------------
\* ResultsView.set_results, for the tabs in ts.  A model that resets clears the
\* selection of its view and signals nothing.

FirstBatch(r) == IF Len(r) < Batch THEN Len(r) ELSE Batch
PathRows(r) == SubSeq(r, 1, FirstBatch(r))

set_results(ts, new) ==
    /\ results' = [t \in Tab |-> IF t \in ts THEN new[t] ELSE results[t]]
    /\ loaded' = [t \in Tab |-> IF t \in ts THEN FirstBatch(new[t]) ELSE loaded[t]]
    /\ columns' = [t \in Tab |-> IF t \in ts THEN PathRows(new[t]) ELSE columns[t]]
    /\ selected' = [t \in Tab |-> IF t \in ts THEN NoRows ELSE selected[t]]

_on_search_results(t) ==
    /\ Spend("results")
    /\ t \in tabs
    /\ \E found \in UNION {kSubset(n, File) : n \in 0..MaxRows} : \E r \in SetToSeqs(found) :
        /\ set_results({t}, [x \in Tab |-> r])
        /\ label' = IF t = current THEN Len(r) ELSE label
        /\ fresh' = [fresh EXCEPT ![t] = found]
    /\ UNCHANGED <<panes, tabs, current, mode, quick, deletion, chosen>>

\* ResultsTableModel.fetchMore, when the view is scrolled to its end
fetchMore(t) ==
    /\ mode[t] = "table" /\ loaded[t] < Len(results[t])
    /\ loaded' = [loaded EXCEPT ![t] =
           IF Len(results[t]) < @ + Batch THEN Len(results[t]) ELSE @ + Batch]
    /\ UNCHANGED <<panes, tabs, current, results, columns, mode, selected, label, chosen,
                   fresh, quick, deletion, budget>>

Sorted(t) ==
    /\ Spend("views") /\ t = current /\ mode[t] = "table"
    /\ \E r \in SetToSeqs(ToSet(results[t])) : results' = [results EXCEPT ![t] = r]
    /\ UNCHANGED <<panes, tabs, current, loaded, columns, mode, label, chosen, fresh, quick,
                   deletion>>
SortKeepsRows(t) == Sorted(t) /\ UNCHANGED selected  \* mutant: the model is not reset
\* ResultsTableModel.sort: the path columns keep their order and their selection.
sort(t) == Sorted(t) /\ selected' = [selected EXCEPT ![t]["table"] = {}]

_set_view_mode(t) ==
    /\ Spend("views") /\ t = current
    /\ mode' = [mode EXCEPT ![t] = IF @ = "table" THEN "columns" ELSE "table"]
    /\ UNCHANGED <<panes, tabs, current, results, loaded, columns, selected, label, chosen,
                   fresh, quick, deletion>>

-----------------------------------------------------------------------------
\* Tabs

_add_new_tab(t) ==
    /\ Spend("views") /\ t \notin tabs
    /\ tabs' = tabs \cup {t} /\ current' = t
    /\ set_results({t}, [x \in Tab |-> <<>>])
    /\ label' = 0
    /\ mode' = [mode EXCEPT ![t] = "table"]
    /\ fresh' = [fresh EXCEPT ![t] = {}] /\ chosen' = [chosen EXCEPT ![t] = NoRows]
    /\ UNCHANGED <<panes, quick, deletion>>

_on_tab_changed(t) ==
    /\ Spend("views") /\ t \in tabs \ {current}
    /\ current' = t
    /\ label' = Len(results[t])
    /\ UNCHANGED <<panes, tabs, results, loaded, columns, mode, selected, chosen, fresh,
                   quick, deletion>>

\* removeTab emits currentChanged: _on_tab_changed runs inside it.
_close_tab(t) ==
    /\ Spend("views") /\ t \in tabs /\ tabs # {t}
    /\ tabs' = tabs \ {t}
    /\ current' \in IF t = current THEN tabs' ELSE {current}
    /\ label' = Len(results[current'])
    /\ UNCHANGED <<panes, results, loaded, columns, mode, selected, chosen, fresh, quick,
                   deletion>>

-----------------------------------------------------------------------------
\* Selection and preview

\* The two panes after a selection: the popover follows it while it is shown.
Previews(f) ==
    \E side \in Finds(panes["side"]), pop \in Finds(panes["quick"]) :
        /\ ~quick \/ f = None => pop = <<"gone", <<>>>> \/ pop = <<"runs", <<>>>>
        /\ panes' = [side |-> preview_entry(panes["side"], f, side),
                     quick |-> IF ~quick THEN panes["quick"]
                               ELSE IF f = None THEN hideEvent(panes["quick"])
                               ELSE preview_entry(panes["quick"], f, pop)]
        /\ quick' = (quick /\ f # None)

\* A row, all rows (Ctrl+A), or nothing; the first row goes to the preview.
_on_selection_changed(t) ==
    LET v == mode[t] IN
    /\ Spend("selects") /\ t = current
    /\ \E sel \in {{}, Rows(t, v)} \cup {{i} : i \in Rows(t, v)} :
        /\ sel # selected[t][v]
        /\ selected' = [selected EXCEPT ![t][v] = sel]
        /\ chosen' = [chosen EXCEPT ![t][v] = {Row(t, v, i) : i \in sel}]
        /\ Previews(IF sel = {} THEN None ELSE Row(t, v, Min(sel)))
    /\ UNCHANGED <<tabs, current, results, loaded, columns, mode, label, fresh, deletion>>

\* The space bar, or Escape in the popover
_toggle_quick_preview(t) ==
    /\ Spend("selects") /\ t = current
    /\ \/ /\ ~quick /\ Selected(t) # {} /\ quick' = TRUE
          /\ \E how \in Finds(panes["quick"]) :
                 panes' = [panes EXCEPT !["quick"] =
                               preview_entry(@, Row(t, mode[t], Min(Selected(t))), how)]
       \/ /\ quick /\ quick' = FALSE
          /\ panes' = [panes EXCEPT !["quick"] = hideEvent(@)]
    /\ UNCHANGED <<tabs, current, models, deletion>>

-----------------------------------------------------------------------------
\* Deletion

\* The Delete key and the context menu are those of the table.
CanDelete(t) == t = current /\ mode[t] = "table" /\ Selected(t) # {}

_on_delete_requested(t) ==
    /\ Spend("deletes") /\ CanDelete(t)
    /\ jobs' = jobs \cup {[id |-> budget["deletes"], paths |-> SelectedEntries(t)]}
    /\ UNCHANGED <<panes, tabs, current, models, quick, completed, gone, reported>>

\* _do_delete, on its own thread: a file that is gone cannot be recycled.
_delete_to_recycle(j) ==
    /\ jobs' = jobs \ {j}
    /\ \E ok \in SUBSET (j.paths \ gone) :
        gone' = gone \cup ok /\ completed' = Append(completed, ok)
    /\ UNCHANGED <<panes, tabs, current, models, quick, reported, budget>>

\* The rows without the files in ok, in their order
Kept(t, ok) == {i \in DOMAIN results[t] : results[t][i] \notin ok}
Removed(t, ok) ==
    LET Nth(n) == CHOOSE i \in Kept(t, ok) : Cardinality({j \in Kept(t, ok) : j <= i}) = n
    IN  [n \in 1..Cardinality(Kept(t, ok)) |-> results[t][Nth(n)]]

_remove_deleted_result_paths(ts, ok) ==
    /\ completed' = Tail(completed)
    /\ set_results(ts, [t \in Tab |-> Removed(t, ok)])
    /\ reported' = reported \cup ok
    /\ fresh' = [t \in Tab |-> fresh[t] \ ok]
    /\ UNCHANGED <<panes, tabs, current, mode, quick, jobs, gone, budget, chosen>>

_refresh_tab_result_count(ts) ==
    label' = IF current \in ts THEN Len(results'[current]) ELSE label

CurrentOnly ==  \* mutant: only the current tab loses the files
    LET ok == Head(completed)
        ts == {t \in {current} : ToSet(results[t]) \cap ok # {}} IN
    /\ completed # <<>>
    /\ _remove_deleted_result_paths(ts, ok)
    /\ _refresh_tab_result_count(ts)
\* Every tab that shows one of the files gets the rest as its results.
_on_delete_completed ==
    LET ok == Head(completed)
        ts == {t \in tabs : ToSet(results[t]) \cap ok # {}} IN
    /\ completed # <<>>
    /\ _remove_deleted_result_paths(ts, ok)
    /\ _refresh_tab_result_count(ts)

-----------------------------------------------------------------------------
Init ==
    /\ panes = [p \in Pane |-> Nothing]
    /\ current \in Tab /\ tabs = {current}
    /\ results = [t \in Tab |-> <<>>] /\ columns = [t \in Tab |-> <<>>]
    /\ loaded = [t \in Tab |-> 0] /\ selected = [t \in Tab |-> NoRows]
    /\ mode = [t \in Tab |-> "table"]
    /\ label = 0 /\ quick = FALSE
    /\ jobs = {} /\ completed = <<>> /\ gone = {}
    /\ chosen = [t \in Tab |-> NoRows] /\ reported = {} /\ fresh = [t \in Tab |-> {}]
    /\ budget \in Budgets

PaneStep == PreviewStep /\ UNCHANGED <<tabs, current, models, quick, deletion, budget>>
TabStep(t) ==
    \/ _on_search_results(t) \/ fetchMore(t) \/ sort(t) \/ _set_view_mode(t)
    \/ _add_new_tab(t) \/ _on_tab_changed(t) \/ _close_tab(t)
    \/ _on_selection_changed(t) \/ _toggle_quick_preview(t) \/ _on_delete_requested(t)
Next ==
    \/ PaneStep \/ (\E t \in Tab : TabStep(t))
    \/ (\E j \in jobs : _delete_to_recycle(j)) \/ _on_delete_completed

Spec == Init /\ [][Next]_vars

-----------------------------------------------------------------------------
\* The file at a selected row is one the user selected, whatever a search, a sort, a
\* fetch or a deletion has done to the rows since: Delete, Enter and the context
\* menu take the files of the selected rows.
SelectionHeld ==
    \A t \in tabs, v \in View : \A i \in selected[t][v] :
        i \in Rows(t, v) /\ Row(t, v, i) \in chosen[t][v]

\* A file reported as moved to the Recycle Bin is in no tab's table, but for a search
\* that has brought it since: the index may not know of the deletion yet.
DeletedLeave ==
    \A t \in tabs : ToSet(results[t]) \cap reported \subseteq fresh[t]

\* ... and the count in the status bar is that of the current tab's results.
CountShown == label = Len(results[current])

\* What is deleted leaves every tab, and the count shown is that of the current one.
ResultsShown == DeletedLeave /\ CountShown

=============================================================================

------------------------------- MODULE Preview --------------------------------
(***************************************************************************)
(* Preview panes (gui/preview_pane.py): the pane beside the results and    *)
(* the one in the quick preview popover.  A pane starts a loader thread    *)
(* for a text or an image, shows what the thread's signals bring, and      *)
(* keeps a reference to each thread that has not ended: Qt aborts the      *)
(* process when the last reference to a running QThread goes.              *)
(*                                                                         *)
(* The words a text is searched for, and what the files hold, are left     *)
(* out.                                                                    *)
(***************************************************************************)
EXTENDS Integers, Sequences, FiniteSets, FiniteSetsExt

CONSTANTS File,
          Text, Image,  \* files that a loader reads; the others show their details
          None

ASSUME PreviewAssumption == Text \subseteq File /\ Image \subseteq File
                            /\ Text \cap Image = {} /\ None \notin File

Pane == {"side", "quick"}

\* A pane: _current_path, _stack's page, what the pages hold, _loader_thread,
\* _pending_loaders, the threads that run and the signals not delivered yet.
VARIABLE panes

Nothing == [path |-> None, page |-> "info", info |-> None, text |-> None,
            image |-> None, details |-> None, loader |-> 0, pending |-> {},
            threads |-> {}, posted |-> <<>>]

-----------------------------------------------------------------------------
\* TextPreviewLoader.run, ImagePreviewLoader.run: one signal, then the end.

Signals(l) == IF l.pc = "load" THEN {<<[kind |-> k, of |-> l.path]>> : k \in {"loaded", "error"}}
              ELSE {<<>>}

Load(p, l) ==
    /\ l \in panes[p].threads /\ l.pc = "load"
    /\ \E s \in Signals(l) :
           panes' = [panes EXCEPT ![p].threads = (@ \ {l}) \cup {[l EXCEPT !.pc = "end"]},
                                  ![p].posted = @ \o s]

\* finished is connected to _discard_pending_loader once the loader is parked.
End(p, l) ==
    /\ l \in panes[p].threads /\ l.pc = "end"
    /\ panes' = [panes EXCEPT
           ![p].threads = @ \ {l},
           ![p].posted = IF l.parked THEN Append(@, [kind |-> "finished", of |-> l.id])
                         ELSE @]

-----------------------------------------------------------------------------
\* Event loop

\* How _cleanup_loader finds the loader: not running; still running when the 200 ms it
\* waits are over; or running then, and ended before its finished is connected.  One
\* that ends while it waits is one that ended before.
Mine(s) == {l \in s.threads : l.id = s.loader}
Finds(s) ==
    IF Mine(s) = {} THEN {<<"gone", <<>>>>}
    ELSE ({"late"} \X UNION {Signals(l) : l \in Mine(s)}) \cup {<<"runs", <<>>>>}

DropRunning(s, how) ==  \* mutant: a loader that still runs is not kept
    [s EXCEPT !.loader = 0,
              !.threads = IF how[1] = "runs" THEN @ ELSE @ \ Mine(s),
              !.posted = @ \o how[2]]
\* _cleanup_loader
Cleaned(s, how) ==
    [s EXCEPT !.loader = 0,
              !.pending = @ \cup (IF how[1] = "gone" THEN {} ELSE {s.loader}),
              !.threads = (@ \ Mine(s)) \cup (IF how[1] = "late" THEN {} ELSE
                              {[l EXCEPT !.parked = TRUE] : l \in Mine(s)}),
              !.posted = @ \o how[2]]

NewId(s) == LET taken == {l.id : l \in s.threads} \cup s.pending
            IN  Min((1..(Cardinality(taken) + 1)) \ taken)
Started(s, f) ==
    LET id == NewId(s) IN
    [s EXCEPT !.loader = id,
              !.threads = @ \cup {[id |-> id, path |-> f, pc |-> "load", parked |-> FALSE]}]

_load_text_preview(s, f) == Started([s EXCEPT !.text = None, !.page = "text"], f)
_load_image_preview(s, f) == Started([s EXCEPT !.image = None, !.page = "image"], f)
\* _show_file_info, _show_dir_info
ShowDetails(s, f) == [s EXCEPT !.details = f, !.page = "details"]

\* What preview_entry makes of the pane s.
preview_entry(s, f, how) ==
    LET c == [Cleaned(s, how) EXCEPT !.path = f] IN
    CASE f = None -> [c EXCEPT !.page = "info"]
      [] f \in Text -> _load_text_preview(c, f)
      [] f \in Image -> _load_image_preview(c, f)
      [] OTHER -> ShowDetails(c, f)

\* Clears the pages; the loader goes on.
clear(s) == [s EXCEPT !.path = None, !.page = "info", !.info = None, !.text = None,
                      !.image = None]

\* The popover is hidden: by its keys, or because nothing is selected.
hideEvent(s) == clear(s)

AnyPath(s, m) == [s EXCEPT !.text = m.of]  \* mutant: a superseded text is shown
_on_text_loaded(s, m) == IF m.of = s.path THEN [s EXCEPT !.text = m.of] ELSE s
_on_image_loaded(s, m) == IF m.of = s.path THEN [s EXCEPT !.image = m.of] ELSE s
_on_preview_error(s, m) ==
    IF m.of # s.path THEN s ELSE [s EXCEPT !.info = m.of, !.page = "info"]

_discard_pending_loader(s, m) == [s EXCEPT !.pending = @ \ {m.of}]

Deliver(p) ==
    LET m == Head(panes[p].posted)
        s == [panes[p] EXCEPT !.posted = Tail(@)] IN
    /\ panes[p].posted # <<>>
    /\ panes' = [panes EXCEPT ![p] =
           CASE m.kind = "loaded" /\ m.of \in Text -> _on_text_loaded(s, m)
             [] m.kind = "loaded" /\ m.of \in Image -> _on_image_loaded(s, m)
             [] m.kind = "error" -> _on_preview_error(s, m)
             [] OTHER -> _discard_pending_loader(s, m)]

PreviewStep == \E p \in Pane : Deliver(p) \/ \E l \in panes[p].threads : Load(p, l) \/ End(p, l)

-----------------------------------------------------------------------------
\* No thread runs without a reference: the process would be aborted.
RunningReferenced ==
    \A p \in Pane : \A l \in panes[p].threads :
        l.id = panes[p].loader \/ l.id \in panes[p].pending

Content(s) == CASE s.page = "info" -> s.info [] s.page = "text" -> s.text
                [] s.page = "image" -> s.image [] OTHER -> s.details

\* A pane that has a file shows that file, or is loading it: not what the loader of
\* a file selected earlier brings late.
PreviewCurrent ==
    \A p \in Pane : panes[p].path # None =>
        \/ Content(panes[p]) = panes[p].path
        \/ Content(panes[p]) = None
=============================================================================

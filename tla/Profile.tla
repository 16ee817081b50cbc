------------------------------- MODULE Profile -------------------------------
(***************************************************************************)
(* The user's profile: settings.json, bookmarks.json, hidden_paths.json    *)
(* and filters.json, the objects that hold their contents in memory, the   *)
(* settings dialog that edits a copy, and the imports from Everything that *)
(* write a file behind its owner.  All of it runs on the GUI thread; a     *)
(* save takes several steps because the process may die, or the disk       *)
(* refuse, between any two (src/gui/settings_dialog.py,                    *)
(* src/gui/bookmarks.py, src/core/hidden_paths.py, src/gui/filters.py,     *)
(* src/core/everything_import.py).                                         *)
(*                                                                         *)
(* The settings are abstracted to the network folders and the file lists   *)
(* they name, the other stores to the set of their records.                *)
(***************************************************************************)
EXTENDS Integers, FiniteSets

CONSTANTS Root,        \* network folders that may be configured
          ShareOf,     \* the share of each: credentials are kept per share
          List,        \* EFU lists, content roots: paths the settings name
          Mark,        \* records of the other stores
          Managed,     \* the stores of the managers: bookmarks, hidden paths
          MaxDamage,   \* bound on the files damaged from outside
          MaxStarts,   \* bound on the starts of the program
          MaxSaves     \* bound on the saves begun

ASSUME ProfileAssumption ==
    /\ Root \cap List = {} /\ Managed \subseteq {"bookmarks", "hidden"}
    /\ MaxDamage \in Nat /\ MaxStarts \in Nat /\ MaxSaves \in Nat

Store == {"settings", "filters"} \cup Managed
Item(s) == IF s = "settings" THEN Root \cup List ELSE Mark
Content == (SUBSET (Root \cup List)) \cup (SUBSET Mark)

ASSUME MarksApart ==
    {"missing", "damaged", "torn", "nothing"} \cap (Root \cup List \cup Mark) = {}

Missing == {"missing"}      \* no file
Damaged == {"damaged"}      \* json.load raises
Torn == {"torn"}            \* part of a file, or one that is not read again
Nothing == {"nothing"}      \* no save under way

VARIABLES
    file,       \* what each file holds
    tmp,        \* the temporary file last written
    kept,       \* what the latest backup settings.json.<stamp>.bak holds
    old,        \* settings.json has an older schema version
    up,         \* the program runs
    mem,        \* what the program holds in memory of each store
    saving,     \* the store being saved, or "none"
    step,       \* the next step of the save: backup, open, fill, replace
    data,       \* what is being saved
    how,        \* save, migrate, or reload: memory follows the file afterwards
    there,      \* the paths of List that exist
    creds,      \* the shares with a credential in the Credential Manager
    dialog,     \* the settings dialog is open
    shown,      \* what its widgets show
    draft,      \* its own Settings object
    shared,     \* the main window holds that same object
    noticed,    \* the network folders the last indexing was started for
    wanted,     \* history: what the user made each store hold
    failed,     \* history: stores whose last save failed, memory running ahead
    budget      \* files still to be damaged, starts and saves still to come

disk == <<file, tmp, kept, old>>
save == <<saving, step, data, how>>
window == <<dialog, shown, draft, shared>>
vars == <<disk, save, window, up, mem, there, creds, noticed, wanted, failed, budget>>

-----------------------------------------------------------------------------
Loaded(c) == IF c \in {Missing, Damaged} THEN {} ELSE c
sanitize(c) == c \ (List \ there)
Roots(c) == c \cap Root
idle == up /\ saving = "none"

TypeOK ==
    /\ file \in [Store -> Content \cup {Missing, Damaged}]
    /\ tmp \in Content \cup {Torn} /\ kept \in Content \cup {Missing, Damaged}
    /\ old \in BOOLEAN /\ up \in BOOLEAN
    /\ mem \in [Store -> Content] /\ wanted \in [Store -> Content]
    /\ \A s \in Store :
          /\ mem[s] \in SUBSET Item(s) /\ wanted[s] \in SUBSET Item(s)
          /\ file[s] \in (SUBSET Item(s)) \cup {Missing, Damaged}
          /\ saving = s => data \in SUBSET Item(s)
    /\ saving \in Store \cup {"none"}
    /\ step \in {"none", "backup", "open", "fill", "replace"}
    /\ data \in Content \cup {Nothing} /\ how \in {"none", "save", "migrate", "reload"}
    /\ there \subseteq List /\ creds \subseteq {ShareOf[r] : r \in Root}
    /\ dialog \in BOOLEAN /\ shared \in BOOLEAN
    /\ shown \subseteq Root \cup List /\ draft \subseteq Root \cup List
    /\ noticed \subseteq Root /\ failed \subseteq Store
    /\ budget \in [{"damage", "start", "save"} -> Nat]

Init ==
    /\ there = List /\ creds \in SUBSET {ShareOf[r] : r \in Root}
    /\ file \in [Store -> {{}, Missing}]
    /\ tmp = Torn /\ kept = Missing
    /\ old \in BOOLEAN /\ (old => file["settings"] # Missing)
    /\ up = FALSE /\ mem = [s \in Store |-> {}]
    /\ saving = "none" /\ step = "none" /\ data = Nothing /\ how = "none"
    /\ dialog = FALSE /\ shown = {} /\ draft = {} /\ shared = FALSE
    /\ noticed = {} /\ wanted = [s \in Store |-> {}] /\ failed = {}
    /\ budget = [b \in {"damage", "start", "save"} |->
                    CASE b = "damage" -> MaxDamage [] b = "start" -> MaxStarts
                      [] b = "save" -> MaxSaves]

-----------------------------------------------------------------------------
(* A save.  Only the settings are copied first, and only if there is a file. *)

\* Mutant: no backup is made.
BacksUpNever(s) == FALSE

BacksUp(s) == s = "settings" /\ file[s] # Missing

Begin(s, mode, c) ==
    /\ saving' = s /\ how' = mode /\ data' = c
    /\ step' = IF BacksUp(s) THEN "backup" ELSE "open"

\* The same, by the user: counted.
Update(s, mode, c) ==
    /\ budget["save"] > 0 /\ budget' = [budget EXCEPT !["save"] = @ - 1]
    /\ Begin(s, mode, c)

Finish == saving' = "none" /\ step' = "none" /\ data' = Nothing /\ how' = "none"

Backup ==
    /\ step = "backup"
    /\ kept' = file["settings"] /\ step' = "open"
    /\ UNCHANGED <<file, tmp, old, saving, data, how, window, up, mem, there, creds>>
    /\ UNCHANGED <<noticed, wanted, failed, budget>>

\* The file written: the temporary one.
OpenTmp ==
    /\ step = "open"
    /\ tmp' = Torn /\ step' = "fill"
    /\ UNCHANGED <<file, kept, old, saving, data, how, window, up, mem, there, creds>>
    /\ UNCHANGED <<noticed, wanted, failed, budget>>

Fill ==
    /\ step = "fill"
    /\ tmp' = data /\ step' = "replace"
    /\ UNCHANGED <<file, kept, old, saving, data, how, window, up, mem, there, creds>>
    /\ UNCHANGED <<noticed, wanted, failed, budget>>

\* Mutant: the owner is not told.
RereadNever(s, c) == mem

\* What the owner of a store reads again when another part of the program
\* has written it: the imports call _load() or rebuild the filter list.
Reread(s, c) == IF how = "reload" THEN [mem EXCEPT ![s] = c] ELSE mem

Replace ==
    /\ step = "replace"
    /\ file' = [file EXCEPT ![saving] = tmp]
    /\ mem' = Reread(saving, tmp)
    /\ wanted' = IF how = "reload" THEN [wanted EXCEPT ![saving] = data] ELSE wanted
    /\ failed' = failed \ {saving}
    /\ old' = (old /\ saving # "settings")
    /\ tmp' = Torn /\ Finish
    /\ UNCHANGED <<kept, window, up, there, creds, noticed, budget>>

\* An OSError at any step.  A save from memory is logged only, and memory
\* runs ahead of the file; a migration that cannot be written falls back to
\* the defaults; an import or the filter dialog leaves everything as it was.
Fail ==
    /\ saving # "none"
    /\ mem' = IF how = "migrate" THEN [mem EXCEPT !["settings"] = {}] ELSE mem
    /\ noticed' = IF how = "migrate" THEN {} ELSE noticed
    /\ wanted' = IF how = "migrate" THEN [wanted EXCEPT !["settings"] = {}] ELSE wanted
    /\ failed' = IF how = "reload" THEN failed ELSE failed \cup {saving}
    /\ tmp' = Torn /\ Finish
    /\ UNCHANGED <<file, kept, old, window, up, there, creds, budget>>

-----------------------------------------------------------------------------
(* Starting and stopping. *)

Closed == /\ dialog' = FALSE /\ shown' = {} /\ draft' = {} /\ shared' = FALSE

\* A file of an older schema, which is migrated.
Outdated == old /\ file["settings"] # Damaged

\* The managers and Settings.load read their files; a file of an older
\* schema is written again at once.  Then the index is built.
Start ==
    LET now == [s \in Store |->
                   IF s = "settings" THEN sanitize(Loaded(file[s])) ELSE Loaded(file[s])]
    IN /\ ~up /\ budget["start"] > 0
       /\ up' = TRUE /\ budget' = [budget EXCEPT !["start"] = @ - 1]
       /\ mem' = now /\ noticed' = Roots(now["settings"])
       /\ wanted' = [s \in Store |->
                        IF file[s] = Damaged THEN {}
                        ELSE IF s = "settings" THEN sanitize(wanted[s]) ELSE wanted[s]]
       /\ failed' = {s \in Store : file[s] = Damaged} \cup
                    (IF now["settings"] = Loaded(file["settings"]) THEN {} ELSE {"settings"})
       /\ IF Outdated
          THEN Begin("settings", "migrate", now["settings"])
          ELSE UNCHANGED save
       /\ UNCHANGED <<disk, window, there, creds>>

\* The process ends, by its own exit or not, at any step of a save.  What
\* was in memory only is lost; an update that was being saved is not one the
\* user has been shown as done.
Stop ==
    /\ up /\ up' = FALSE
    /\ mem' = [s \in Store |-> {}]
    /\ wanted' = [s \in Store |-> IF s \in failed \cup {saving}
                                  THEN Loaded(file[s]) ELSE wanted[s]]
    /\ failed' = {} /\ noticed' = {}
    /\ tmp' = Torn /\ Closed /\ Finish
    /\ UNCHANGED <<file, kept, old, there, creds, budget>>

-----------------------------------------------------------------------------
(* The records of the other stores. *)

\* BookmarkManager and HiddenPathsManager: memory first, then the file.
Edit(s, c) ==
    /\ idle /\ ~dialog /\ s \in Managed /\ c # mem[s]
    /\ mem' = [mem EXCEPT ![s] = c] /\ wanted' = [wanted EXCEPT ![s] = c]
    /\ Update(s, "save", c)
    /\ UNCHANGED <<disk, window, up, there, creds, noticed, failed>>

AddRecord(s, m) == Edit(s, mem[s] \cup {m})
RemoveRecord(s, m) == Edit(s, mem[s] \ {m})

\* The filter dialog edits what it has just read from the file.
FilterEdits(m) == {Loaded(file["filters"]) \cup {m}, Loaded(file["filters"]) \ {m}}

ManageFilters(m) ==
    /\ idle /\ ~dialog
    /\ \E c \in FilterEdits(m) : Update("filters", "reload", c)
    /\ UNCHANGED <<disk, window, up, mem, there, creds, noticed, wanted, failed>>

\* Everything's CSV files are merged with what the file holds; a file that
\* cannot be read is left alone.
Merged(s, m) == Loaded(file[s]) \cup {m}

Import(s, m) ==
    /\ idle /\ ~dialog /\ s \in {"filters", "bookmarks"} \cap Store /\ file[s] # Damaged
    /\ Update(s, "reload", Merged(s, m))
    /\ UNCHANGED <<disk, window, up, mem, there, creds, noticed, wanted, failed>>

_import_filters_csv(m) == Import("filters", m)
_import_bookmarks_csv(m) == Import("bookmarks", m)

-----------------------------------------------------------------------------
(* The settings. *)

\* A save of the settings as they are: the columns, the window at quit.
SaveSettings ==
    /\ idle /\ ~dialog
    /\ mem' = [mem EXCEPT !["settings"] = sanitize(@)]
    /\ wanted' = [wanted EXCEPT !["settings"] = sanitize(@)]
    /\ Update("settings", "save", sanitize(mem["settings"]))
    /\ UNCHANGED <<disk, window, up, there, creds, noticed, failed>>

OpenDialog ==
    /\ idle /\ ~dialog /\ dialog' = TRUE
    /\ draft' = mem["settings"] /\ shown' = mem["settings"] /\ shared' = FALSE
    /\ UNCHANGED <<disk, save, up, mem, there, creds, noticed, wanted, failed, budget>>

save_network_credential(r) == creds' = creds \cup {ShareOf[r]}

\* _add_network_share: a credential is saved at once, whatever happens to
\* the dialog afterwards.
AddShare(r) ==
    /\ idle /\ dialog /\ shown' = shown \cup {r}
    /\ save_network_credential(r) \/ UNCHANGED creds
    /\ UNCHANGED <<disk, save, up, mem, there, noticed, wanted, failed, budget>>
    /\ UNCHANGED <<dialog, draft, shared>>

AddList(l) ==
    /\ idle /\ dialog /\ l \in there /\ shown' = shown \cup {l}
    /\ UNCHANGED <<disk, save, up, mem, there, creds, noticed, wanted, failed, budget>>
    /\ UNCHANGED <<dialog, draft, shared>>

RemoveRow(x) ==
    /\ idle /\ dialog /\ x \in shown /\ shown' = shown \ {x}
    /\ UNCHANGED <<disk, save, up, mem, there, creds, noticed, wanted, failed, budget>>
    /\ UNCHANGED <<dialog, draft, shared>>

\* _import_settings: a profile read from a file replaces the copy.
ImportSettings(c) ==
    /\ idle /\ dialog
    /\ draft' = sanitize(c) /\ shown' = sanitize(c)
    /\ shared' = FALSE
    /\ UNCHANGED <<disk, save, up, mem, there, creds, noticed, wanted, failed, budget>>
    /\ UNCHANGED dialog

\* The credentials of the folders taken off the list are deleted first.
Deleted == {ShareOf[r] : r \in Roots(draft) \ shown}

\* Mutant: it carries the object itself.
EmitsTheDraft == TRUE

\* settings_changed carries a copy of the dialog's object.
EmitsOwn == FALSE

\* _apply, up to the values that sanitize() refuses: the dialog shows what
\* is left of them and nothing is applied.
ApplyRefused ==
    /\ idle /\ dialog /\ sanitize(shown) # shown
    /\ creds' = creds \ Deleted
    /\ draft' = sanitize(shown) /\ shown' = sanitize(shown)
    /\ mem' = IF shared THEN [mem EXCEPT !["settings"] = sanitize(shown)] ELSE mem
    /\ UNCHANGED <<disk, save, up, there, noticed, wanted, failed, budget>>
    /\ UNCHANGED <<dialog, shared>>

\* _apply and _on_settings_changed: the window compares its settings with
\* the new ones, saves them, and indexes again if the folders differ.  The
\* dialog stays open after Apply (and export), and closes after OK.
Apply(stays) ==
    LET held == IF shared THEN shown ELSE mem["settings"]
    IN /\ idle /\ dialog /\ sanitize(shown) = shown
       /\ creds' = creds \ Deleted
       /\ IF stays
          THEN /\ draft' = shown /\ shared' = EmitsOwn
               /\ UNCHANGED <<dialog, shown>>
          ELSE Closed
       /\ mem' = [mem EXCEPT !["settings"] = shown]
       /\ wanted' = [wanted EXCEPT !["settings"] = shown]
       /\ noticed' = IF Roots(held) # Roots(shown) THEN Roots(shown) ELSE noticed
       /\ Update("settings", "save", shown)
       /\ UNCHANGED <<disk, up, there, failed>>

Cancel ==
    /\ idle /\ dialog /\ Closed
    /\ UNCHANGED <<disk, save, up, mem, there, creds, noticed, wanted, failed, budget>>

-----------------------------------------------------------------------------
(* The world outside. *)

\* A path of the settings comes or goes (a drive is unplugged).
MovePath(l) ==
    /\ saving = "none" /\ (up => dialog)
    /\ there' = IF l \in there THEN there \ {l} ELSE there \cup {l}
    /\ UNCHANGED <<disk, save, window, up, mem, creds, noticed, wanted, failed, budget>>

\* A file is damaged, or edited by hand into something json cannot read.
DamageFile(s) ==
    /\ ~up /\ budget["damage"] > 0 /\ file[s] # Missing
    /\ file' = [file EXCEPT ![s] = Damaged]
    /\ budget' = [budget EXCEPT !["damage"] = @ - 1]
    /\ old' = (old /\ s # "settings")
    /\ UNCHANGED <<tmp, kept, save, window, up, mem, there, creds, noticed, wanted, failed>>

Next ==
    \/ Backup \/ OpenTmp \/ Fill \/ Replace \/ Fail
    \/ Start \/ Stop \/ SaveSettings
    \/ \E s \in Managed, m \in Mark : AddRecord(s, m) \/ RemoveRecord(s, m)
    \/ \E m \in Mark : ManageFilters(m)
    \/ \E m \in Mark : _import_filters_csv(m) \/ _import_bookmarks_csv(m)
    \/ OpenDialog \/ ApplyRefused \/ Cancel
    \/ \E r \in Root : AddShare(r)
    \/ \E l \in List : AddList(l) \/ MovePath(l)
    \/ \E x \in Root \cup List : RemoveRow(x)
    \/ \E c \in SUBSET (Root \cup List) : ImportSettings(c)
    \/ \E stays \in BOOLEAN : Apply(stays)
    \/ \E s \in Store : DamageFile(s)

Spec == Init /\ [][Next]_vars

-----------------------------------------------------------------------------
(* What holds. *)

\* Whatever step the process dies at or the disk refuses, every file holds
\* the whole of a content that was to be saved (tmp.replace after the dump),
\* and settings.json is replaced only after a copy of it was made: the
\* profile implements AtomicConfig (settings_dialog.py:258-273,
\* bookmarks.py:84-95, hidden_paths.py:32-40, everything_import.py:155-173).
Config == INSTANCE AtomicConfig WITH
    Backed <- {"settings"},
    value <- file,
    kept <- [s \in {"settings"} |-> kept],
    asked <- [s \in Store |-> IF s = saving THEN data ELSE Nothing]

FilesAtomic == Config!Spec

\* No update of a store is lost: between saves memory and file hold what the
\* user made the store hold, over edits, imports that write the file behind
\* its owner, and restarts - except a store whose last save failed or whose
\* file could not be read.
UpdatesKept ==
    idle => \A s \in Store \ failed : mem[s] = wanted[s] /\ Loaded(file[s]) = wanted[s]

\* The index is built for the folders the settings name: no change of them,
\* over any number of Apply in one dialog, escapes the comparison of
\* _on_settings_changed (main_window.py:2338-2358, settings_dialog.py:877-880).
ChangesNoticed == idle => noticed = Roots(mem["settings"])

=============================================================================

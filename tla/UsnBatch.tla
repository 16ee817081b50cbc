------------------------------ MODULE UsnBatch ------------------------------
(***************************************************************************)
(* What the records of the change journal do to the entries and to the     *)
(* rows of one drive: _apply_usn_changes (core/index.py), db_batch_apply   *)
(* and save_cache (core/cache.py), path resolution and its cache.          *)
(*                                                                         *)
(* A tree maps the file records in use to nodes.  `fs` is the volume, mem  *)
(* the entries, rows the database.  Windows collects the reasons of the    *)
(* changes made through an open handle (held) and the record that counts   *)
(* is the one written when it is closed.  The file record number of a      *)
(* deleted file is used again, and QuickFind drops the sequence number     *)
(* that would tell the two files apart.                                    *)
(***************************************************************************)
EXTENDS Integers, Sequences, FiniteSets

CONSTANTS Frn,      \* file record numbers
          Dirs,     \* those of directories
          Root,     \* the root directory's record
          Name,     \* file names
          Worlds    \* what may happen, and bounds on it

\* reuse: the number of a deleted file is used again; hold: files appear in a
\* directory whose creation is still open; search: other threads ask for paths;
\* fail: a commit or the write of a checkpoint may fail; ops bounds the changes on the
\* volume, runs the starts of the program.
World == [reuse : BOOLEAN, hold : BOOLEAN, search : BOOLEAN, fail : BOOLEAN,
          ops : Nat, runs : Nat \ {0}]

ASSUME UsnBatchAssumption ==
    /\ Dirs \subseteq Frn /\ IsFiniteSet(Frn) /\ Root \notin Frn
    /\ Worlds \subseteq World

VARIABLES
    world,  \* one of Worlds
    fs,     \* the volume: parent, name and data version of each file
    held,   \* per file, the reasons collected since its handle was opened
    ops,    \* changes made so far; the version they leave in the data
    log,    \* records with the CLOSE reason
    mem,    \* FileIndex._entries[drive]
    cached, \* FileEntry._path of the entries that have one
    done,   \* records applied to mem
    left,   \* records of the batch still to apply
    todo,   \* db_inserts, db_updates and db_deletes
    column, \* the paths beside them, of files whose path is written
    stage,  \* where _apply_usn_changes is
    shown,  \* the path another thread has resolved and not stored yet, if any
    hung,   \* _invalidate_subtree_paths does not return
    rows,   \* entries table
    stored, \* its path column
    ckpt,   \* drives.next_usn: records the rows are taken to reflect
    behind, \* history: the run whose rows lost something that no save made good
    raced,  \* history: entries given a path that a rename had outdated
    runs

volume == <<world, fs, held, ops, log>>
entries == <<mem, cached>>
batch == <<done, left, todo, column, stage>>
store == <<rows, stored, ckpt, behind, runs>>
vars == <<volume, entries, batch, shown, hung, store, raced>>

NoPaths == [f \in {} |-> f]
Nothing == [ins |-> {}, upd |-> {}, gone |-> {}]

Without(tree, f) == [g \in DOMAIN tree \ {f} |-> tree[g]]
With(tree, f, node) == [g \in DOMAIN tree \cup {f} |->
                            IF g = f THEN node ELSE tree[g]]

-----------------------------------------------------------------------------
\* Paths

Children(tree, f) == {g \in DOMAIN tree : tree[g].parent = f}

\* What the stack of _invalidate_subtree_paths holds at some time: the least set
\* with the children of f and the children of its members.
Closed(tree, S) == \A g \in S : Children(tree, g) \subseteq S
Descendants(tree, f) ==
    LET Covers == {S \in SUBSET DOMAIN tree : Children(tree, f) \subseteq S /\ Closed(tree, S)}
    IN {g \in DOMAIN tree : \A S \in Covers : g \in S}

\* The stack never empties when f is below itself.
Endless(tree, f) == f \in Descendants(tree, f)

\* The parents and names of a file and of what is above it: all that resolve_path reads.
Above(tree, f) == {d \in DOMAIN tree : f \in Descendants(tree, d)}
Line(tree, f) == [g \in Above(tree, f) \cup ({f} \cap DOMAIN tree) |->
                     <<tree[g].parent, tree[g].name>>]

\* The names up to the root, or up to a parent that is missing or visited.
resolve_path(tree, f) ==
    LET line == Line(tree, f)
        Climb[g \in Frn \cup {Root}, visited \in SUBSET Frn] ==
            IF g \notin DOMAIN line \ visited THEN <<>>
            ELSE Append(Climb[line[g][1], visited \cup {g}], line[g][2])
    IN Climb[f, {}]

ClearOne(tree, paths, f) ==  \* mutant: children only
    [g \in DOMAIN paths \ Children(tree, f) |-> paths[g]]
_invalidate_subtree_paths(tree, paths, f) ==
    LET below == Descendants(tree, f) IN [g \in DOMAIN paths \ below |-> paths[g]]

\* FileEntry.get_path of entries without a path caches what it resolves.
get_path(tree, paths, S) ==
    [f \in DOMAIN paths \cup S |-> IF f \in DOMAIN paths THEN paths[f]
                                 ELSE resolve_path(tree, f)]

-----------------------------------------------------------------------------
\* The volume

FreeName(p, n, f) == \A g \in DOMAIN fs \ {f} : fs[g].parent # p \/ fs[g].name # n
CanHold(p) == \/ p = Root
              \/ p \in Dirs \cap DOMAIN fs /\ (world.hold \/ "create" \notin held[p])
Version == ops + 1

Change(f, reason, node) ==
    /\ ops < world.ops
    /\ ops' = ops + 1
    /\ fs' = With(fs, f, node)
    /\ held' = [held EXCEPT ![f] = @ \cup {reason}]
    /\ UNCHANGED <<world, log, entries, batch, shown, hung, store, raced>>

Create(f, p, n) ==
    /\ f \notin DOMAIN fs /\ CanHold(p) /\ FreeName(p, n, f)
    /\ world.reuse \/ \A i \in DOMAIN log : log[i].frn # f
    /\ Change(f, "create", [parent |-> p, name |-> n, data |-> Version])

Move(f, p, n) ==
    /\ f \in DOMAIN fs /\ CanHold(p) /\ FreeName(p, n, f)
    /\ <<p, n>> # <<fs[f].parent, fs[f].name>>
    /\ Change(f, "rename", [fs[f] EXCEPT !.parent = p, !.name = n])
    /\ p \notin Descendants(fs, f) \cup {f}

Write(f) ==
    /\ f \in DOMAIN fs \ Dirs
    /\ Change(f, "modify", [fs[f] EXCEPT !.data = Version])

Record(f, reason) == [frn |-> f, parent |-> fs[f].parent, name |-> fs[f].name,
                      data |-> fs[f].data, reason |-> reason]

Close(f) ==
    /\ held[f] # {}
    /\ log' = Append(log, Record(f, held[f]))
    /\ held' = [held EXCEPT ![f] = {}]
    /\ UNCHANGED <<world, fs, ops, entries, batch, shown, hung, store, raced>>

DeleteAndClose(f) ==
    /\ ops < world.ops
    /\ f \in DOMAIN fs /\ Children(fs, f) = {}
    /\ ops' = ops + 1
    /\ fs' = Without(fs, f)
    /\ log' = Append(log, Record(f, held[f] \cup {"delete"}))
    /\ held' = [held EXCEPT ![f] = {}]
    /\ UNCHANGED <<world, entries, batch, shown, hung, store, raced>>

-----------------------------------------------------------------------------
\* _apply_usn_changes: under the lock, one record after the other in journal order.

\* A read of the journal returns the next n records.
_apply_usn_changes(n) ==
    /\ stage = "idle"
    /\ stage' = "records"
    /\ left' = n
    /\ UNCHANGED <<volume, entries, done, todo, column, shown, hung, store, raced>>

\* What a thread has resolved for an entry that was replaced is of no use.
Replaced(f) == shown' = {s \in shown : s.frn # f}

Delete(r) ==
    /\ UNCHANGED <<column, hung>>
    /\ IF r.frn \notin DOMAIN mem THEN UNCHANGED <<entries, todo, shown>>
       ELSE /\ mem' = Without(mem, r.frn)
            /\ cached' = Without(cached, r.frn)
            /\ todo' = [todo EXCEPT !.gone = @ \cup {r.frn}]
            /\ Replaced(r.frn)

Entry(r) == [parent |-> r.parent, name |-> r.name, data |-> r.data]

Insert(r) ==
    /\ mem' = With(mem, r.frn, Entry(r))
    /\ cached' = get_path(mem', Without(cached, r.frn), {r.frn})
    /\ todo' = [todo EXCEPT !.ins = @ \cup {r.frn}]
    /\ column' = With(column, r.frn, cached'[r.frn])
    /\ Replaced(r.frn)
    /\ UNCHANGED hung

Rename(r) ==
    LET kept == Without(cached, r.frn) IN
    /\ mem' = With(mem, r.frn, [parent |-> r.parent, name |-> r.name,
                                data |-> mem[r.frn].data])
    /\ hung' = (r.frn \in Dirs /\ Endless(mem', r.frn))
    /\ cached' = get_path(mem',
                          IF r.frn \in Dirs
                          THEN _invalidate_subtree_paths(mem', kept, r.frn)
                          ELSE kept,
                          {r.frn})
    /\ todo' = [todo EXCEPT !.upd = @ \cup {r.frn}]
    /\ column' = With(column, r.frn, cached'[r.frn])
    /\ UNCHANGED shown

SizeInRowOnly(r) ==  \* mutant: the entry keeps its size and date
    /\ todo' = [todo EXCEPT !.upd = @ \cup {r.frn}]
    /\ UNCHANGED <<entries, column, shown, hung>>
\* The date and the size; its row keeps its path.
Modify(r) ==
    /\ mem' = [mem EXCEPT ![r.frn].data = r.data]
    /\ todo' = [todo EXCEPT !.upd = @ \cup {r.frn}]
    /\ UNCHANGED <<cached, column, shown, hung>>

Ignore == UNCHANGED <<entries, todo, column, shown, hung>>

CreateFirst(r) ==  \* mutant: the delete branch comes second
    IF "create" \in r.reason THEN Insert(r)
    ELSE IF "delete" \in r.reason THEN Delete(r)
    ELSE IF "rename" \in r.reason
         THEN IF r.frn \in DOMAIN mem THEN Rename(r) ELSE Insert(r)
    ELSE IF r.frn \in DOMAIN mem THEN Modify(r) ELSE Ignore
ApplyRecord(r) ==
    IF "delete" \in r.reason THEN Delete(r)
    ELSE IF "create" \in r.reason THEN Insert(r)
    ELSE IF "rename" \in r.reason
         THEN IF r.frn \in DOMAIN mem THEN Rename(r) ELSE Insert(r)
    ELSE IF r.frn \in DOMAIN mem THEN Modify(r) ELSE Ignore

ApplyNext ==
    /\ stage = "records" /\ ~hung
    /\ ApplyRecord(log[done + 1])
    /\ done' = done + 1
    /\ left' = left - 1
    /\ stage' = IF left = 1 /\ ~hung' THEN "rows" ELSE "records"
    /\ UNCHANGED <<volume, store, raced>>

\* INSERT OR REPLACE for every insert, then every DELETE, then every UPDATE,
\* which changes nothing where there is no row.
UpdatesOnly == DOMAIN rows \ todo.gone  \* mutant: UPDATE for INSERT OR REPLACE
RowsAfterBatch == (DOMAIN rows \cup todo.ins) \ todo.gone

KeepPath(f) ==  \* mutant: an update leaves the path
    IF f \in DOMAIN rows THEN stored[f] ELSE column[f]
\* An update without a path leaves the old one.
PathColumn(f) == IF f \in DOMAIN column THEN column[f] ELSE stored[f]

\* Files both deleted and inserted: their number was used again within the batch.
Dropped == todo.ins \cap todo.gone \cap DOMAIN mem
Loses == behind' = IF behind = 0 THEN runs ELSE behind

db_batch_apply ==
    /\ stage = "rows"
    /\ \/ /\ rows' = [f \in RowsAfterBatch |->
                         IF f \in todo.ins \cup todo.upd THEN mem[f] ELSE rows[f]]
          /\ stored' = [f \in RowsAfterBatch |->
                           IF f \in todo.ins \cup todo.upd THEN PathColumn(f)
                           ELSE stored[f]]
          /\ stage' = "checkpoint"
          /\ IF Dropped # {} THEN Loses ELSE UNCHANGED behind
       \/ /\ world.fail /\ todo.ins \cup todo.upd \cup todo.gone # {}
          /\ stage' = "idle"
          /\ Loses
          /\ UNCHANGED <<rows, stored>>
    /\ todo' = Nothing /\ column' = NoPaths
    /\ UNCHANGED <<volume, entries, done, left, shown, hung, ckpt, runs, raced>>

\* Skipped without a position, or its UPDATE fails.
_persist_usn_checkpoints ==
    /\ stage = "checkpoint"
    /\ stage' = "idle"
    /\ ckpt' \in {done} \cup (IF world.fail THEN {ckpt} ELSE {})
    /\ UNCHANGED <<volume, entries, done, left, todo, column, shown, hung, rows, stored,
                   behind, runs, raced>>

-----------------------------------------------------------------------------
\* Other threads ask for the path of an entry that has none; resolve_path waits for
\* the lock that a batch holds.
Unresolved(f) == stage # "records" /\ f \in DOMAIN mem \ DOMAIN cached

\* The event loop shows it.
ShowPath(f) ==
    /\ Unresolved(f)
    /\ cached' = get_path(mem, cached, {f})
    /\ UNCHANGED <<volume, mem, batch, shown, hung, store, raced>>

\* A search resolves it...
ResolvePath(f) ==
    /\ world.search /\ shown = {} /\ Unresolved(f)
    /\ shown' = {[frn |-> f, path |-> resolve_path(mem, f)]}
    /\ UNCHANGED <<volume, entries, batch, hung, store, raced>>

\* ... and stores it, without the lock, maybe in the middle of a batch.
StorePath == \E s \in shown :
    /\ cached' = With(cached, s.frn, s.path)
    /\ shown' = {}
    /\ raced' = IF s.path = resolve_path(mem, s.frn) THEN raced ELSE raced \cup {s.frn}
    /\ UNCHANGED <<volume, mem, batch, hung, store>>

save_cache ==
    /\ stage = "idle"
    /\ cached' = get_path(mem, cached, DOMAIN mem)
    /\ rows' = mem
    /\ stored' = cached'
    /\ ckpt' = done
    /\ behind' = IF behind = runs THEN 0 ELSE behind
    /\ UNCHANGED <<volume, mem, batch, shown, hung, runs, raced>>

\* The process dies and starts again: rows become entries, with their paths,
\* and the catchup resumes at the checkpoint.
Restart ==
    /\ runs < world.runs
    /\ runs' = runs + 1
    /\ mem' = rows
    /\ cached' = stored
    /\ done' = ckpt
    /\ left' = 0
    /\ todo' = Nothing /\ column' = NoPaths
    /\ stage' = "idle" /\ shown' = {} /\ hung' = FALSE
    /\ UNCHANGED <<volume, rows, stored, ckpt, behind, raced>>

-----------------------------------------------------------------------------
Nodes == [parent : Dirs \cup {Root}, name : Name, data : {0}]
Trees == UNION {[S -> Nodes] : S \in SUBSET Frn}
WellFormed(tree) ==
    /\ \A f \in DOMAIN tree : /\ tree[f].parent \in DOMAIN tree \cup {Root}
                              /\ ~Endless(tree, f)
    /\ \A f, g \in DOMAIN tree : f # g => \/ tree[f].parent # tree[g].parent
                                          \/ tree[f].name # tree[g].name

\* A drive that has been indexed and saved.
Init ==
    /\ world \in Worlds
    /\ fs \in {tree \in Trees : WellFormed(tree)}
    /\ held = [f \in Frn |-> {}] /\ ops = 0 /\ log = <<>>
    /\ mem = fs /\ cached = get_path(fs, NoPaths, DOMAIN fs)
    /\ rows = mem /\ stored = cached
    /\ done = 0 /\ left = 0 /\ ckpt = 0
    /\ todo = Nothing /\ column = NoPaths /\ stage = "idle"
    /\ shown = {} /\ hung = FALSE
    /\ behind = 0 /\ raced = {} /\ runs = 1

Volume == \E f \in Frn :
    \/ \E p \in Dirs \cup {Root}, n \in Name : Create(f, p, n) \/ Move(f, p, n)
    \/ Write(f) \/ Close(f) \/ DeleteAndClose(f)

Program == \/ \E n \in 1..(Len(log) - done) : _apply_usn_changes(n)
           \/ ApplyNext \/ db_batch_apply \/ _persist_usn_checkpoints
           \/ (\E f \in Frn : ShowPath(f) \/ ResolvePath(f))
           \/ StorePath
           \/ save_cache \/ Restart

Next == Volume \/ Program
Spec == Init /\ [][Next]_vars

-----------------------------------------------------------------------------
\* Every handle is closed and every record applied.
Settled == (\A f \in Frn : held[f] = {}) /\ done = Len(log) /\ ~hung

\* Whatever the order of handles, however the journal is cut into batches and
\* replayed after a crash: in the end the index holds the files of the volume,
\* under their names.  In the run whose rows fell behind the entries are right still.
Place(tree) == [f \in DOMAIN tree |-> <<tree[f].parent, tree[f].name>>]
NamesMatchVolume == Settled /\ behind \in {0, runs} => Place(mem) = Place(fs)

\* A modification reaches the index, whichever run reads its record, unless the
\* handle it was made through also renamed the file: then one record tells both, and
\* is taken as a rename.
Overlooked(r) == {"modify", "rename"} \subseteq r.reason
ModificationsReachIndex ==
    Settled /\ behind \in {0, runs} => \A f \in DOMAIN mem \cap DOMAIN fs :
        \/ mem[f].data = fs[f].data
        \/ \E i \in DOMAIN log : log[i].frn = f /\ Overlooked(log[i])

\* With nothing in flight the rows are the entries, unless a commit failed or a batch
\* deleted the row of a file it inserted, and no save has made that good.
RowsFollow == stage = "idle" /\ behind = 0 => rows = mem

\* The record of a directory above the file came after its own record or that of a
\* directory between: a path was resolved without it.
Orphaned(f) ==
    LET above == Above(fs, f)
    IN \E i, j \in DOMAIN log : /\ i < j /\ log[i].frn \in above \cup {f}
                               /\ log[j].frn \in above /\ "create" \in log[j].reason
Renamed(d) == \E i \in DOMAIN log : log[i].frn = d /\ "rename" \in log[i].reason

\* Within a run every path the index shows is the file's path on the volume, unless a
\* search stored one a rename had outdated, or a directory's record came too late.
\* So is the path of its row, unless a directory above it was renamed, which rewrites
\* the directory's own row only, or a record number was used again.
PathsMatchVolume ==
    Settled => \A f \in DOMAIN fs \ raced : Orphaned(f) \/
        /\ runs = 1 /\ f \in DOMAIN mem \cap DOMAIN cached =>
               cached[f] = resolve_path(fs, f)
        /\ stage = "idle" /\ behind = 0 /\ ~world.reuse /\ f \in DOMAIN rows =>
               stored[f] = resolve_path(fs, f) \/ \E d \in Above(fs, f) : Renamed(d)
=============================================================================

--------------------------- MODULE UsnBatchProofs ---------------------------
(***************************************************************************)
(* Theorems about UsnBatch: what replaying the journal makes of entries    *)
(* and rows, for any volume, any batches, crashes and failures.            *)
(*                                                                         *)
(* The argument follows one file and one aspect of it, its name or its     *)
(* data, at a time.  What mem shows of the file is Ready at some position  *)
(* of the journal, at done or after it: it is what the file was like when  *)
(* the records up to there had been written.  A record that sets the       *)
(* aspect brings it to the record's own position, one that does not says   *)
(* that the file has not changed.  Past the last record of a file whose    *)
(* handles are closed, what is Ready is what the volume holds.             *)
(*                                                                         *)
(* A path depends on the file and on all directories above it, so that it  *)
(* can be wrong though every entry it was made from is right at its own    *)
(* position.  HistoryInv says what the journal tells of where files are:   *)
(* what is seen somewhere is there unless it moves later, and what is seen *)
(* in a directory whose creation or deletion is told only then has a move  *)
(* still to be told.  In the first run mem is what the volume was at done  *)
(* (ExactInv), and a path is the one that mem gives or it is Excused: a    *)
(* move above is still to come, or a directory's record came too late      *)
(* (CachedInv).  A restart replays records over newer rows, and mem need   *)
(* not have been a tree the volume ever had.  There a path is Right, for   *)
(* the file's node on the volume as it is, or Unsure (MemPaths, RowPaths), *)
(* which needs that the directories of a Sound tree are those of some      *)
(* later position, its Cut.                                                *)
(***************************************************************************)
EXTENDS UsnBatch, TLAPS

Reason == {"create", "rename", "modify"}
Node == [parent : Dirs \cup {Root}, name : Name, data : Nat]
Tree == UNION {[S -> Node] : S \in SUBSET Frn}
JournalRecord == [frn : Frn, parent : Dirs \cup {Root}, name : Name, data : Nat,
                  reason : SUBSET (Reason \cup {"delete"})]
Todo == [ins : SUBSET Frn, upd : SUBSET Frn, gone : SUBSET Frn]

\* Types of all but the paths, whose text a recursive function computes.
TypeOK ==
    /\ world \in World
    /\ fs \in Tree /\ mem \in Tree /\ rows \in Tree
    /\ held \in [Frn -> SUBSET Reason]
    /\ log \in Seq(JournalRecord)
    /\ ops \in Nat /\ done \in Nat /\ left \in Nat /\ ckpt \in Nat
    /\ todo \in Todo
    /\ stage \in {"idle", "records", "rows", "checkpoint"}
    /\ hung \in BOOLEAN
    /\ behind \in Nat /\ runs \in Nat \ {0}

\* Where the positions are, and when the lists of operations are empty.
PositionInv ==
    /\ ckpt <= done /\ done + left <= Len(log)
    /\ stage = "records" /\ ~hung => left > 0
    /\ stage # "records" => left = 0
    /\ stage \in {"idle", "checkpoint"} => todo = Nothing
    /\ behind <= runs

-----------------------------------------------------------------------------
\* Trees

\* A tree maps some of the file records to nodes.
LEMMA TreeFacts ==
    ASSUME NEW tree \in Tree
    PROVE  /\ DOMAIN tree \subseteq Frn
           /\ tree = [f \in DOMAIN tree |-> tree[f]]
           /\ \A f \in DOMAIN tree : tree[f] \in Node
BY DEF Tree

\* Any such map is a tree.
LEMMA TreeMade ==
    ASSUME NEW S \in SUBSET Frn, NEW tree \in [S -> Node]
    PROVE  tree \in Tree
BY DEF Tree

\* Adding or replacing a node.
LEMMA WithTree ==
    ASSUME NEW tree \in Tree, NEW f \in Frn, NEW node \in Node
    PROVE  /\ With(tree, f, node) \in Tree
           /\ DOMAIN With(tree, f, node) = DOMAIN tree \cup {f}
           /\ With(tree, f, node)[f] = node
           /\ \A g \in DOMAIN tree \ {f} : With(tree, f, node)[g] = tree[g]
<1>1. With(tree, f, node) \in [DOMAIN tree \cup {f} -> Node]
  BY TreeFacts DEF With
<1>2. DOMAIN tree \cup {f} \in SUBSET Frn
  BY TreeFacts
<1> QED
  BY <1>1, <1>2, TreeMade DEF With

\* Removing a node.
LEMMA WithoutTree ==
    ASSUME NEW tree \in Tree, NEW f \in Frn
    PROVE  /\ Without(tree, f) \in Tree
           /\ DOMAIN Without(tree, f) = DOMAIN tree \ {f}
           /\ \A g \in DOMAIN tree \ {f} : Without(tree, f)[g] = tree[g]
<1>1. Without(tree, f) \in [DOMAIN tree \ {f} -> Node]
  BY TreeFacts DEF Without
<1>2. DOMAIN tree \ {f} \in SUBSET Frn
  BY TreeFacts
<1> QED
  BY <1>1, <1>2, TreeMade DEF Without

\* Replacing the data of a node.
LEMMA DataTree ==
    ASSUME NEW tree \in Tree, NEW f \in DOMAIN tree, NEW d \in Nat
    PROVE  /\ [tree EXCEPT ![f].data = d] \in Tree
           /\ DOMAIN [tree EXCEPT ![f].data = d] = DOMAIN tree
           /\ [tree EXCEPT ![f].data = d][f] =
                  [parent |-> tree[f].parent, name |-> tree[f].name, data |-> d]
           /\ \A g \in DOMAIN tree \ {f} : [tree EXCEPT ![f].data = d][g] = tree[g]
<1>1. tree[f] \in Node /\ tree = [g \in DOMAIN tree |-> tree[g]]
  BY TreeFacts
<1>2. [tree[f] EXCEPT !.data = d] =
          [parent |-> tree[f].parent, name |-> tree[f].name, data |-> d]
  BY <1>1 DEF Node
<1>3. [parent |-> tree[f].parent, name |-> tree[f].name, data |-> d] \in Node
  BY <1>1 DEF Node
<1>4. [tree EXCEPT ![f].data = d] \in [DOMAIN tree -> Node]
  BY <1>1, <1>2, <1>3, TreeFacts
<1> QED
  BY <1>1, <1>2, <1>4, TreeFacts, TreeMade

-----------------------------------------------------------------------------
\* One file and one aspect of it

\* An aspect is named by the reason that changes it.
Aspect == {"rename", "modify"}
Seen(node, a) == IF a = "rename" THEN <<node.parent, node.name>> ELSE node.data
\* What a tree shows of a file, {} when it has none.
Look(tree, f, a) == IF f \in DOMAIN tree THEN {Seen(tree[f], a)} ELSE {}
\* What is seen of a file once its record r is written.
After(r, a) == IF "delete" \in r.reason THEN {} ELSE {Seen(r, a)}

\* What was seen of a file before the reasons R were collected, if now is seen after.
Fits(before, R, now, a) ==
    IF "create" \in R THEN before = {}
    ELSE IF "delete" \in R THEN before # {}
    ELSE (before = {} <=> now = {}) /\ (a \notin R => before = now)

\* No record of f in the journal lg at the positions after k and before j.
Untouched(lg, f, k, j) == \A i \in (k + 1)..(j - 1) : lg[i].frn # f

\* What is seen of f once the first k records of lg are written: the next record of f
\* tells how f has changed since or, where there is none, the reasons h that its open
\* handle has collected and what is seen now.
Tells(lg, h, now, f, k, seen, a) ==
    /\ \A j \in (k + 1)..Len(lg) :
          lg[j].frn = f /\ Untouched(lg, f, k, j) =>
              Fits(seen, lg[j].reason, {Seen(lg[j], a)}, a)
    /\ Untouched(lg, f, k, Len(lg) + 1) => Fits(seen, h, now, a)

Ready(f, k, seen, a) == Tells(log, held[f], Look(fs, f, a), f, k, seen, a)

\* A file that is not there has no open handle.
HandleInv == \A f \in Frn : f \notin DOMAIN fs => held[f] = {}

\* Every record tells what is seen of its file when it is written.
LogInv == \A j \in 1..Len(log), a \in Aspect :
              Ready(log[j].frn, j, After(log[j], a), a)

\* The data of a file is known unless a record that told it was taken as a rename.
Known(f, a) ==
    a = "modify" => \A i \in 1..Len(log) : log[i].frn = f => ~Overlooked(log[i])

\* What tree shows is Ready at n or at a later position.
Current(tree, n) ==
    \A f \in Frn, a \in Aspect :
        Known(f, a) => \E k \in n..Len(log) : Ready(f, k, Look(tree, f, a), a)

MemInv == behind \in {0, runs} => Current(mem, done)
RowInv == behind = 0 => Current(rows, ckpt)

\* What is written to the rows are entries.
ListInv == \A f \in Frn : f \in (todo.ins \cup todo.upd) \ todo.gone => f \in DOMAIN mem

\* What the rows lack of the entries is in the lists of operations.
TodoInv ==
    behind = 0 => \A f \in Frn :
        /\ f \in todo.gone \ todo.ins => f \notin DOMAIN mem
        /\ f \notin todo.ins \cup todo.gone => (f \in DOMAIN rows <=> f \in DOMAIN mem)
        /\ f \in DOMAIN mem /\ f \notin todo.ins \cup todo.upd \cup todo.gone =>
              f \in DOMAIN rows /\ rows[f] = mem[f]

-----------------------------------------------------------------------------
\* Types

\* What the records, the rows and the positions are about: all but the paths.
core == <<world, fs, held, ops, log, mem, done, left, todo, stage, hung, rows, ckpt,
          behind, runs>>

\* The steps that only resolve or store a path.
LEMMA PathSteps ==
    /\ \A f \in Frn : ShowPath(f) \/ ResolvePath(f) => UNCHANGED core
    /\ StorePath => UNCHANGED core
    /\ UNCHANGED vars => UNCHANGED core
<1>1. \A f \in Frn : ShowPath(f) \/ ResolvePath(f) => UNCHANGED core
  BY DEF ShowPath, ResolvePath, core, volume, entries, batch, store
<1>2. StorePath => UNCHANGED core
  BY DEF StorePath, core, volume, entries, batch, store
<1>3. UNCHANGED vars => UNCHANGED core
  BY DEF core, vars, volume, entries, batch, store
<1> QED
  BY <1>1, <1>2, <1>3

\* What the records of a batch do to the entries and the lists, whatever they do to
\* the paths.
Deletes(r) == IF r.frn \notin DOMAIN mem THEN UNCHANGED <<mem, todo>>
              ELSE /\ mem' = Without(mem, r.frn)
                   /\ todo' = [todo EXCEPT !.gone = @ \cup {r.frn}]
Inserts(r) == /\ mem' = With(mem, r.frn, Entry(r))
              /\ todo' = [todo EXCEPT !.ins = @ \cup {r.frn}]
Renames(r) == /\ r.frn \in DOMAIN mem
              /\ mem' = With(mem, r.frn, [parent |-> r.parent, name |-> r.name,
                                          data |-> mem[r.frn].data])
              /\ todo' = [todo EXCEPT !.upd = @ \cup {r.frn}]
Modifies(r) == /\ r.frn \in DOMAIN mem
               /\ mem' = [mem EXCEPT ![r.frn].data = r.data]
               /\ todo' = [todo EXCEPT !.upd = @ \cup {r.frn}]

\* One of five things happens for a record.
LEMMA RecordCases ==
    ASSUME NEW r, ApplyRecord(r)
    PROVE  \/ "delete" \in r.reason /\ Deletes(r)
           \/ "delete" \notin r.reason /\ Inserts(r)
           \/ /\ "delete" \notin r.reason /\ "create" \notin r.reason
              /\ "rename" \in r.reason /\ Renames(r)
           \/ /\ r.reason \cap {"delete", "create", "rename"} = {} /\ Modifies(r)
           \/ /\ r.reason \cap {"delete", "create", "rename"} = {}
              /\ r.frn \notin DOMAIN mem /\ UNCHANGED <<mem, todo>>
<1>1. CASE "delete" \in r.reason
  BY <1>1 DEF ApplyRecord, Delete, Deletes, entries
<1>2. CASE "delete" \notin r.reason /\ Insert(r)
  BY <1>2 DEF Insert, Inserts
<1>3. CASE "delete" \notin r.reason /\ "create" \notin r.reason /\ "rename" \in r.reason
           /\ r.frn \in DOMAIN mem
  BY <1>3 DEF ApplyRecord, Rename, Renames
<1>4. CASE r.reason \cap {"delete", "create", "rename"} = {} /\ r.frn \in DOMAIN mem
  BY <1>4 DEF ApplyRecord, Modify, Modifies
<1>5. CASE r.reason \cap {"delete", "create", "rename"} = {} /\ r.frn \notin DOMAIN mem
  BY <1>5 DEF ApplyRecord, Ignore, entries
<1> QED
  BY <1>1, <1>2, <1>3, <1>4, <1>5 DEF ApplyRecord

\* The record that ApplyNext applies.
LEMMA NextRecord ==
    ASSUME TypeOK, PositionInv, ApplyNext
    PROVE  /\ done + 1 \in 1..Len(log)
           /\ log[done + 1] \in JournalRecord
           /\ ApplyRecord(log[done + 1])
<1>1. left > 0 /\ left \in Nat /\ done \in Nat /\ done + left <= Len(log)
  BY DEF TypeOK, PositionInv, ApplyNext
<1>2. done + 1 \in 1..Len(log) /\ log \in Seq(JournalRecord)
  BY <1>1 DEF TypeOK
<1> QED
  BY <1>2 DEF ApplyNext

\* A drive that has been indexed and saved has all types and positions.
LEMMA TypeInit ==
    ASSUME Init
    PROVE  TypeOK /\ PositionInv /\ HandleInv
<1>1. world \in World
  BY UsnBatchAssumption DEF Init
<1>2. fs \in Tree
  <2>1. PICK S \in SUBSET Frn : fs \in [S -> Nodes]
    BY DEF Init, Trees
  <2>2. \A n \in Nodes : n \in Node
    BY DEF Nodes, Node
  <2>3. fs \in [S -> Node]
    BY <2>1, <2>2
  <2> QED
    BY <2>3, TreeMade
<1>3. todo \in Todo /\ todo = Nothing
  BY DEF Init, Todo, Nothing
<1>4. held \in [Frn -> SUBSET Reason] /\ log \in Seq(JournalRecord) /\ Len(log) = 0
  BY DEF Init
<1>5. hung \in BOOLEAN /\ mem = fs /\ rows = fs
  BY DEF Init
<1>6. TypeOK
  BY <1>1, <1>2, <1>3, <1>4, <1>5 DEF Init, TypeOK
<1>7. PositionInv
  BY <1>3, <1>4 DEF Init, PositionInv
<1>8. HandleInv
  BY DEF Init, HandleInv
<1> QED
  BY <1>6, <1>7, <1>8

\* A change on the volume, whatever it is.
Changed(f, reason, node) ==
    /\ f \in Frn /\ node \in Node /\ reason \in Reason
    /\ Change(f, reason, node)
    /\ reason = "create" <=> f \notin DOMAIN fs
    /\ \A a \in Aspect : a # reason /\ reason # "create" =>
          Seen(node, a) = Seen(fs[f], a)
    /\ reason # "modify" => node.parent \in DOMAIN fs \cup {Root}
    /\ reason = "create" /\ ~world.reuse => \A i \in 1..Len(log) : log[i].frn # f

\* The volume changes a file, or writes a record of one.
LEMMA VolumeSteps ==
    ASSUME TypeOK, Volume
    PROVE  \/ \E f, node, reason : Changed(f, reason, node)
           \/ \E f \in Frn : Close(f) \/ DeleteAndClose(f)
<1>. /\ Root \notin Frn /\ Dirs \subseteq Frn
     /\ DOMAIN fs \subseteq Frn /\ (\A f \in DOMAIN fs : fs[f] \in Node)
     /\ ops \in Nat /\ DOMAIN log = 1..Len(log)
     /\ \A p : CanHold(p) => p \in DOMAIN fs \cup {Root}
  BY UsnBatchAssumption, TreeFacts DEF TypeOK, CanHold
<1>1. ASSUME NEW f \in Frn, NEW p \in Dirs \cup {Root}, NEW n \in Name, Create(f, p, n)
      PROVE  Changed(f, "create", [parent |-> p, name |-> n, data |-> Version])
  <2>1. [parent |-> p, name |-> n, data |-> Version] \in Node
    BY DEF Node, Version
  <2> QED
    BY <1>1, <2>1 DEF Create, Changed, Reason
<1>2. ASSUME NEW f \in Frn, NEW p \in Dirs \cup {Root}, NEW n \in Name, Move(f, p, n)
      PROVE  Changed(f, "rename", [fs[f] EXCEPT !.parent = p, !.name = n])
  <2> DEFINE node == [fs[f] EXCEPT !.parent = p, !.name = n]
  <2>1. f \in DOMAIN fs /\ fs[f] \in Node /\ Change(f, "rename", node)
    BY <1>2 DEF Move
  <2>2. node \in Node /\ node.data = fs[f].data /\ node.parent \in DOMAIN fs \cup {Root}
    BY <1>2, <2>1 DEF Node, Move
  <2>3. \A a \in Aspect : a # "rename" => Seen(node, a) = Seen(fs[f], a)
    BY <2>2 DEF Aspect, Seen
  <2> QED
    BY <2>1, <2>2, <2>3 DEF Changed, Reason
<1>3. ASSUME NEW f \in Frn, Write(f)
      PROVE  Changed(f, "modify", [fs[f] EXCEPT !.data = Version])
  <2> DEFINE node == [fs[f] EXCEPT !.data = Version]
  <2>1. f \in DOMAIN fs /\ fs[f] \in Node /\ Change(f, "modify", node)
    BY <1>3 DEF Write
  <2>2. node \in Node /\ node.parent = fs[f].parent /\ node.name = fs[f].name
    BY <2>1 DEF Node, Version
  <2>3. \A a \in Aspect : a # "modify" => Seen(node, a) = Seen(fs[f], a)
    BY <2>2 DEF Aspect, Seen
  <2> QED
    BY <2>1, <2>2, <2>3 DEF Changed, Reason
<1> QED
  BY <1>1, <1>2, <1>3 DEF Volume

\* What changes and what closing leave alone.
index == <<mem, done, left, todo, stage, hung, rows, ckpt, behind, runs, world>>

\* What the volume does leaves the index alone.
LEMMA VolumeTypes ==
    ASSUME TypeOK, PositionInv
    PROVE  /\ \A f, node, reason : Changed(f, reason, node) =>
                 /\ fs' \in Tree /\ held' \in [Frn -> SUBSET Reason]
                 /\ ops' \in Nat /\ log' = log /\ UNCHANGED index
           /\ \A f \in Frn : Close(f) \/ DeleteAndClose(f) =>
                 /\ fs' \in Tree /\ held' = [held EXCEPT ![f] = {}]
                 /\ ops' \in Nat /\ UNCHANGED index
<1>1. ASSUME NEW f, NEW node, NEW reason, Changed(f, reason, node)
      PROVE  /\ fs' \in Tree /\ held' \in [Frn -> SUBSET Reason]
             /\ ops' \in Nat /\ log' = log /\ UNCHANGED index
  <2>1. fs' = With(fs, f, node) /\ held' = [held EXCEPT ![f] = @ \cup {reason}]
    BY <1>1 DEF Changed, Change
  <2>2. fs' \in Tree
    BY <1>1, <2>1, WithTree DEF Changed, TypeOK
  <2>3. held' \in [Frn -> SUBSET Reason]
    BY <1>1, <2>1 DEF Changed, TypeOK
  <2>4. ops' \in Nat /\ log' = log /\ UNCHANGED index
    BY <1>1 DEF Changed, Change, TypeOK, index, entries, batch, store
  <2> QED
    BY <2>2, <2>3, <2>4
<1>2. ASSUME NEW f \in Frn, Close(f)
      PROVE  /\ fs' \in Tree /\ held' = [held EXCEPT ![f] = {}]
             /\ ops' \in Nat /\ UNCHANGED index
  BY <1>2 DEF Close, TypeOK, index, entries, batch, store
<1>3. ASSUME NEW f \in Frn, DeleteAndClose(f)
      PROVE  /\ fs' \in Tree /\ held' = [held EXCEPT ![f] = {}]
             /\ ops' \in Nat /\ UNCHANGED index
  <2>1. fs' = Without(fs, f)
    BY <1>3 DEF DeleteAndClose
  <2>2. fs' \in Tree
    BY <2>1, WithoutTree DEF TypeOK
  <2> QED
    BY <1>3, <2>2 DEF DeleteAndClose, TypeOK, index, entries, batch, store
<1> QED
  BY <1>1, <1>2, <1>3

\* A record is written: of a file whose handles are closed, or that is deleted.
Written(f, r) ==
    /\ f \in DOMAIN fs /\ r \in JournalRecord /\ r.frn = f
    /\ log' = Append(log, r)
    /\ held' = [held EXCEPT ![f] = {}]
    /\ world' = world
    /\ \A a \in Aspect : Seen(r, a) = Seen(fs[f], a)
    /\ \/ r.reason = held[f] /\ held[f] # {} /\ fs' = fs
       \/ /\ r.reason = held[f] \cup {"delete"} /\ fs' = Without(fs, f)
          /\ Children(fs, f) = {}

\* A close and a delete write the record Written speaks of.
LEMMA ClosingSteps ==
    ASSUME TypeOK, HandleInv, NEW f \in Frn, Close(f) \/ DeleteAndClose(f)
    PROVE  \E r : Written(f, r)
<1>. held[f] \in SUBSET Reason
  BY DEF TypeOK
<1>1. ASSUME f \in DOMAIN fs, NEW R \in SUBSET (Reason \cup {"delete"})
      PROVE  /\ Record(f, R) \in JournalRecord
             /\ Record(f, R).frn = f /\ Record(f, R).reason = R
             /\ \A a \in Aspect : Seen(Record(f, R), a) = Seen(fs[f], a)
  <2>1. fs[f] \in Node
    BY <1>1, TreeFacts DEF TypeOK
  <2>2. Record(f, R) \in JournalRecord
    BY <2>1 DEF Record, JournalRecord, Node
  <2> QED
    BY <2>2 DEF Record, Seen
<1>2. CASE Close(f)
  <2>1. f \in DOMAIN fs /\ held[f] # {} /\ log' = Append(log, Record(f, held[f]))
    BY <1>2 DEF Close, HandleInv
  <2>2. held[f] \in SUBSET (Reason \cup {"delete"})
    OBVIOUS
  <2>3. Written(f, Record(f, held[f]))
    BY <1>1, <1>2, <2>1, <2>2 DEF Close, Written
  <2> QED
    BY <2>3
<1>3. CASE DeleteAndClose(f)
  <2>1. f \in DOMAIN fs /\ log' = Append(log, Record(f, held[f] \cup {"delete"}))
    BY <1>3 DEF DeleteAndClose
  <2>2. held[f] \cup {"delete"} \in SUBSET (Reason \cup {"delete"})
    OBVIOUS
  <2>3. Written(f, Record(f, held[f] \cup {"delete"}))
    BY <1>1, <1>3, <2>1, <2>2 DEF DeleteAndClose, Written
  <2> QED
    BY <2>3
<1> QED
  BY <1>2, <1>3

\* What a record does to the types.
LEMMA RecordTypes ==
    ASSUME TypeOK, NEW r \in JournalRecord, ApplyRecord(r)
    PROVE  mem' \in Tree /\ todo' \in Todo
<1>1. /\ r.frn \in Frn /\ Entry(r) \in Node
      /\ todo \in Todo /\ mem \in Tree
  BY DEF JournalRecord, Entry, Node, TypeOK
<1>2. CASE Deletes(r)
  <2>1. CASE r.frn \notin DOMAIN mem
    BY <1>1, <1>2, <2>1 DEF Deletes
  <2>2. CASE r.frn \in DOMAIN mem
    <3>1. mem' = Without(mem, r.frn) /\ todo' = [todo EXCEPT !.gone = @ \cup {r.frn}]
      BY <1>2, <2>2 DEF Deletes
    <3> QED
      BY <1>1, <3>1, WithoutTree DEF Todo
  <2> QED
    BY <2>1, <2>2
<1>3. CASE Inserts(r)
  BY <1>1, <1>3, WithTree DEF Inserts, Todo
<1>4. CASE Renames(r)
  <2>1. [parent |-> r.parent, name |-> r.name, data |-> mem[r.frn].data] \in Node
    BY <1>1, <1>4, TreeFacts DEF Renames, Node, JournalRecord
  <2> QED
    BY <1>1, <1>4, <2>1, WithTree DEF Renames, Todo
<1>5. CASE Modifies(r)
  <2>1. r.data \in Nat
    BY DEF JournalRecord
  <2> QED
    BY <1>1, <1>5, <2>1, DataTree DEF Modifies, Todo
<1>6. CASE UNCHANGED <<mem, todo>>
  BY <1>1, <1>6
<1> QED
  BY <1>2, <1>3, <1>4, <1>5, <1>6, RecordCases

\* A batch's rows are written, or fail to be.
LEMMA CommitSteps ==
    ASSUME TypeOK, db_batch_apply
    PROVE  /\ stage = "rows" /\ todo' = Nothing
           /\ UNCHANGED <<world, fs, held, ops, log, mem, done, left, hung, ckpt, runs>>
           /\ behind' \in {behind, IF behind = 0 THEN runs ELSE behind}
           /\ \/ /\ rows' = [f \in RowsAfterBatch |->
                       IF f \in todo.ins \cup todo.upd THEN mem[f] ELSE rows[f]]
                 /\ stage' = "checkpoint"
                 /\ behind' = 0 => todo.ins \cap todo.gone \cap DOMAIN mem = {}
              \/ rows' = rows /\ stage' = "idle" /\ behind' # 0
<1>0. behind \in Nat /\ runs \in Nat \ {0}
  BY DEF TypeOK
<1>1. /\ stage = "rows" /\ todo' = Nothing
      /\ UNCHANGED <<world, fs, held, ops, log, mem, done, left, hung, ckpt, runs>>
  BY DEF db_batch_apply, volume, entries
<1>2. \/ /\ rows' = [f \in RowsAfterBatch |->
               IF f \in todo.ins \cup todo.upd THEN mem[f] ELSE rows[f]]
         /\ stage' = "checkpoint"
         /\ IF Dropped # {} THEN Loses ELSE UNCHANGED behind
      \/ rows' = rows /\ stage' = "idle" /\ Loses
  BY DEF db_batch_apply
<1>3. Loses => behind' = (IF behind = 0 THEN runs ELSE behind) /\ behind' # 0
  BY <1>0 DEF Loses
<1> QED
  BY <1>1, <1>2, <1>3 DEF Dropped

\* A save makes the rows the entries and the checkpoint the position.
LEMMA SaveSteps ==
    ASSUME save_cache
    PROVE  /\ stage = "idle" /\ rows' = mem /\ ckpt' = done
           /\ behind' = IF behind = runs THEN 0 ELSE behind
           /\ UNCHANGED <<world, fs, held, ops, log, mem, done, left, todo, stage, hung,
                          runs>>
BY DEF save_cache, volume, batch

\* A start takes the entries and the position from the database.
LEMMA RestartSteps ==
    ASSUME Restart
    PROVE  /\ runs' = runs + 1 /\ mem' = rows /\ done' = ckpt /\ left' = 0
           /\ todo' = Nothing /\ stage' = "idle" /\ hung' = FALSE
           /\ UNCHANGED <<world, fs, held, ops, log, rows, ckpt, behind>>
BY DEF Restart, volume

\* A checkpoint is written, or not.
LEMMA CheckpointSteps ==
    ASSUME _persist_usn_checkpoints
    PROVE  /\ stage = "checkpoint" /\ stage' = "idle" /\ ckpt' \in {ckpt, done}
           /\ UNCHANGED <<world, fs, held, ops, log, mem, done, left, todo, hung, rows,
                          behind, runs>>
BY DEF _persist_usn_checkpoints, volume, entries

\* A batch begins with nothing but a number of records.
LEMMA BatchSteps ==
    ASSUME NEW n \in 1..(Len(log) - done), _apply_usn_changes(n)
    PROVE  /\ stage = "idle" /\ stage' = "records" /\ left' = n
           /\ UNCHANGED <<world, fs, held, ops, log, mem, done, todo, hung, rows, ckpt,
                          behind, runs>>
BY DEF _apply_usn_changes, volume, entries, store

\* A record of the batch is counted as applied.
LEMMA ApplySteps ==
    ASSUME TypeOK, PositionInv, ApplyNext
    PROVE  /\ stage = "records" /\ done' = done + 1 /\ left' = left - 1 /\ ~hung
           /\ stage' = IF left = 1 /\ ~hung' THEN "rows" ELSE "records"
           /\ hung' \in BOOLEAN
           /\ UNCHANGED <<world, fs, held, ops, log, rows, ckpt, behind, runs>>
<1>1. hung' \in BOOLEAN
  <2>. hung \in BOOLEAN
    BY DEF TypeOK
  <2>1. ASSUME NEW r, ApplyRecord(r) PROVE hung' \in BOOLEAN
    BY <2>1 DEF ApplyRecord, Delete, Insert, Rename, Modify, Ignore
  <2> QED
    BY <2>1, NextRecord
<1> QED
  BY <1>1 DEF ApplyNext, volume, store

\* The invariant that the other invariants rest on.
BaseInv == TypeOK /\ PositionInv /\ HandleInv /\ ListInv

\* A record that is to be written to the rows has an entry.
LEMMA RecordLists ==
    ASSUME TypeOK, ListInv, NEW r \in JournalRecord, ApplyRecord(r)
    PROVE  ListInv'
<1>1. r.frn \in Frn /\ todo \in Todo /\ mem \in Tree
  BY DEF JournalRecord, TypeOK
<1>2. CASE Deletes(r)
  <2>1. CASE r.frn \notin DOMAIN mem
    BY <1>2, <2>1 DEF Deletes, ListInv
  <2>2. CASE r.frn \in DOMAIN mem
    <3>1. mem' = Without(mem, r.frn) /\ todo' = [todo EXCEPT !.gone = @ \cup {r.frn}]
      BY <1>2, <2>2 DEF Deletes
    <3>2. /\ todo'.ins = todo.ins /\ todo'.upd = todo.upd
          /\ todo'.gone = todo.gone \cup {r.frn}
      BY <1>1, <3>1 DEF Todo
    <3>3. DOMAIN mem' = DOMAIN mem \ {r.frn}
      BY <3>1 DEF Without
    <3> QED
      BY <3>2, <3>3 DEF ListInv
  <2> QED
    BY <2>1, <2>2
<1>3. CASE Inserts(r)
  <2>1. DOMAIN mem' = DOMAIN mem \cup {r.frn}
    BY <1>3 DEF Inserts, With
  <2>2. /\ todo'.ins = todo.ins \cup {r.frn} /\ todo'.upd = todo.upd
        /\ todo'.gone = todo.gone
    BY <1>1, <1>3 DEF Inserts, Todo
  <2> QED
    BY <2>1, <2>2 DEF ListInv
<1>4. CASE Renames(r) \/ Modifies(r)
  <2>1. DOMAIN mem' = DOMAIN mem /\ r.frn \in DOMAIN mem
    BY <1>4 DEF Renames, Modifies, With
  <2>2. /\ todo'.ins = todo.ins /\ todo'.upd = todo.upd \cup {r.frn}
        /\ todo'.gone = todo.gone
    BY <1>1, <1>4 DEF Renames, Modifies, Todo
  <2> QED
    BY <2>1, <2>2 DEF ListInv
<1>5. CASE UNCHANGED <<mem, todo>>
  BY <1>5 DEF ListInv
<1> QED
  BY <1>2, <1>3, <1>4, <1>5, RecordCases

\* Lists that are empty.
LEMMA NothingListed ==
    /\ Nothing \in Todo
    /\ Nothing.ins = {} /\ Nothing.upd = {} /\ Nothing.gone = {}
BY DEF Nothing, Todo

\* The rows of a batch are a tree.
LEMMA CommitTypes ==
    ASSUME BaseInv, db_batch_apply
    PROVE  rows' \in Tree
<1>1. CASE rows' = rows
  BY <1>1 DEF BaseInv, TypeOK
<1>2. CASE rows' = [f \in RowsAfterBatch |->
               IF f \in todo.ins \cup todo.upd THEN mem[f] ELSE rows[f]]
  <2>0. rows \in Tree /\ mem \in Tree /\ todo \in Todo
    BY DEF BaseInv, TypeOK
  <2>1. RowsAfterBatch \in SUBSET Frn
    BY <2>0, TreeFacts DEF RowsAfterBatch, Todo
  <2>2. \A f \in RowsAfterBatch :
           (IF f \in todo.ins \cup todo.upd THEN mem[f] ELSE rows[f]) \in Node
    <3> TAKE f \in RowsAfterBatch
    <3>1. CASE f \in todo.ins \cup todo.upd
      <4>1. f \in DOMAIN mem
        BY <2>1, <3>1 DEF RowsAfterBatch, BaseInv, ListInv
      <4> QED
        BY <2>0, <3>1, <4>1, TreeFacts
    <3>2. CASE f \notin todo.ins \cup todo.upd
      <4>1. f \in DOMAIN rows
        BY <3>2 DEF RowsAfterBatch
      <4> QED
        BY <2>0, <3>2, <4>1, TreeFacts
    <3> QED
      BY <3>1, <3>2
  <2>3. rows' \in [RowsAfterBatch -> Node]
    BY <1>2, <2>2
  <2> QED
    BY <2>1, <2>3, TreeMade
<1> QED
  BY <1>1, <1>2, CommitSteps DEF BaseInv

-----------------------------------------------------------------------------
\* Types, positions, handles and lists are kept

\* The volume keeps the types, and a file that is gone has no handle.
LEMMA VolumeBase ==
    ASSUME BaseInv, Volume
    PROVE  BaseInv'
<1>. TypeOK /\ PositionInv /\ HandleInv /\ ListInv
  BY DEF BaseInv
<1>1. ASSUME NEW f, NEW node, NEW reason, Changed(f, reason, node)
      PROVE  BaseInv'
  <2>1. TypeOK' /\ PositionInv' /\ ListInv'
    BY <1>1, VolumeTypes DEF TypeOK, PositionInv, ListInv, index
  <2>2. fs' = With(fs, f, node) /\ held' = [held EXCEPT ![f] = @ \cup {reason}]
    BY <1>1 DEF Changed, Change
  <2>3. DOMAIN fs' = DOMAIN fs \cup {f}
    BY <2>2 DEF With
  <2>4. \A g \in Frn \ {f} : held'[g] = held[g]
    BY <2>2 DEF TypeOK
  <2>5. HandleInv'
    BY <2>3, <2>4 DEF HandleInv
  <2> QED
    BY <2>1, <2>5 DEF BaseInv
<1>2. ASSUME NEW f \in Frn, Close(f) \/ DeleteAndClose(f)
      PROVE  BaseInv'
  <2>1. PICK r : Written(f, r)
    BY <1>2, ClosingSteps
  <2>2. log' \in Seq(JournalRecord) /\ Len(log') = Len(log) + 1
    BY <2>1 DEF Written, TypeOK
  <2>3. /\ fs' \in Tree /\ held' = [held EXCEPT ![f] = {}]
        /\ ops' \in Nat /\ UNCHANGED index
    BY <1>2, VolumeTypes
  <2>4. TypeOK' /\ PositionInv' /\ ListInv'
    BY <2>2, <2>3 DEF TypeOK, PositionInv, ListInv, index
  <2>5. \A g \in Frn \ {f} : held'[g] = held[g] /\ (g \in DOMAIN fs' <=> g \in DOMAIN fs)
    BY <2>1 DEF Written, TypeOK, Without
  <2>6. held'[f] = {}
    BY <2>3 DEF TypeOK
  <2>7. HandleInv'
    BY <2>5, <2>6 DEF HandleInv
  <2> QED
    BY <2>4, <2>7 DEF BaseInv
<1> QED
  BY <1>1, <1>2, VolumeSteps

\* So does a record, whose position stays in the journal.
LEMMA ApplyBase ==
    ASSUME BaseInv, ApplyNext
    PROVE  BaseInv'
<1>. TypeOK /\ PositionInv /\ HandleInv /\ ListInv
  BY DEF BaseInv
<1>1. /\ done + 1 \in 1..Len(log) /\ log[done + 1] \in JournalRecord
      /\ ApplyRecord(log[done + 1])
  BY NextRecord
<1>2. mem' \in Tree /\ todo' \in Todo /\ ListInv'
  BY <1>1, RecordTypes, RecordLists
<1>3. /\ stage = "records" /\ done' = done + 1 /\ left' = left - 1 /\ ~hung
      /\ stage' = IF left = 1 /\ ~hung' THEN "rows" ELSE "records"
      /\ hung' \in BOOLEAN
      /\ UNCHANGED <<world, fs, held, ops, log, rows, ckpt, behind, runs>>
  BY ApplySteps
<1>4. left > 0 /\ left \in Nat /\ done \in Nat /\ ckpt \in Nat
  BY <1>3 DEF PositionInv, TypeOK
<1>5. left' \in Nat /\ done' \in Nat /\ stage' \in {"rows", "records"}
  BY <1>3, <1>4
<1>6. TypeOK'
  BY <1>2, <1>3, <1>5 DEF TypeOK
<1>7. ckpt' <= done' /\ done' + left' <= Len(log') /\ behind' <= runs'
  BY <1>3, <1>4 DEF PositionInv
<1>8. /\ stage' = "records" /\ ~hung' => left' > 0
      /\ stage' # "records" => left' = 0
  BY <1>3, <1>4
<1>9. PositionInv'
  BY <1>5, <1>7, <1>8 DEF PositionInv
<1>10. HandleInv'
  BY <1>3 DEF HandleInv
<1> QED
  BY <1>2, <1>6, <1>9, <1>10 DEF BaseInv

\* So does every step.
LEMMA BaseStep ==
    ASSUME BaseInv, [Next]_vars
    PROVE  BaseInv'
<1>. TypeOK /\ PositionInv /\ HandleInv /\ ListInv
  BY DEF BaseInv
<1>1. CASE Volume
  BY <1>1, VolumeBase
<1>2. CASE UNCHANGED core
  BY <1>2 DEF BaseInv, TypeOK, PositionInv, HandleInv, ListInv, core
<1>3. ASSUME NEW n \in 1..(Len(log) - done), _apply_usn_changes(n)
      PROVE  BaseInv'
  <2>1. n \in Nat /\ n > 0 /\ done + n <= Len(log)
    BY DEF TypeOK
  <2> QED
    BY <1>3, <2>1, BatchSteps DEF BaseInv, TypeOK, PositionInv, HandleInv, ListInv
<1>4. CASE ApplyNext
  BY <1>4, ApplyBase
<1>5. CASE db_batch_apply
  <2>1. rows' \in Tree
    BY <1>5, CommitTypes
  <2>2. /\ stage = "rows" /\ stage' \in {"idle", "checkpoint"} /\ todo' = Nothing
        /\ UNCHANGED <<world, fs, held, ops, log, mem, done, left, hung, ckpt, runs>>
        /\ behind' \in {behind, runs}
    BY <1>5, CommitSteps
  <2>3. TypeOK'
    BY <2>1, <2>2, NothingListed DEF TypeOK
  <2>4. PositionInv'
    BY <2>2 DEF PositionInv, TypeOK
  <2>5. HandleInv' /\ ListInv'
    BY <2>2, NothingListed DEF HandleInv, ListInv
  <2> QED
    BY <2>3, <2>4, <2>5 DEF BaseInv
<1>6. CASE _persist_usn_checkpoints
  BY <1>6, CheckpointSteps DEF BaseInv, TypeOK, PositionInv, HandleInv, ListInv
<1>7. CASE save_cache
  <2>1. /\ stage = "idle" /\ rows' = mem /\ ckpt' = done
        /\ behind' \in {0, behind}
        /\ UNCHANGED <<world, fs, held, ops, log, mem, done, left, todo, stage, hung,
                       runs>>
    BY <1>7, SaveSteps
  <2>2. TypeOK'
    BY <2>1 DEF TypeOK
  <2>3. PositionInv'
    BY <2>1 DEF TypeOK, PositionInv
  <2> QED
    BY <2>1, <2>2, <2>3 DEF BaseInv, HandleInv, ListInv
<1>8. CASE Restart
  <2>1. /\ runs' = runs + 1 /\ mem' = rows /\ done' = ckpt /\ left' = 0
        /\ todo' = Nothing /\ stage' = "idle" /\ hung' = FALSE
        /\ UNCHANGED <<world, fs, held, ops, log, rows, ckpt, behind>>
    BY <1>8, RestartSteps
  <2>2. runs' \in Nat \ {0}
    BY <2>1 DEF TypeOK
  <2>3. TypeOK'
    BY <2>1, <2>2, NothingListed DEF TypeOK
  <2>4. PositionInv'
    BY <2>1 DEF TypeOK, PositionInv
  <2>5. HandleInv' /\ ListInv'
    BY <2>1, NothingListed DEF HandleInv, ListInv
  <2> QED
    BY <2>3, <2>4, <2>5 DEF BaseInv
<1> QED
  BY <1>1, <1>2, <1>3, <1>4, <1>5, <1>6, <1>7, <1>8, PathSteps DEF Next, Program

-----------------------------------------------------------------------------
\* What the journal tells of one file

\* Past the record of another file, what is told of f stays true.
LEMMA SkipRecord ==
    ASSUME NEW lg \in Seq(JournalRecord), NEW h, NEW now, NEW f, NEW seen, NEW a,
           NEW k \in Nat, k + 1 \in 1..Len(lg), lg[k + 1].frn # f,
           Tells(lg, h, now, f, k, seen, a)
    PROVE  Tells(lg, h, now, f, k + 1, seen, a)
<1>1. \A j \in Nat : Untouched(lg, f, k + 1, j) => Untouched(lg, f, k, j)
  BY DEF Untouched
<1>2. \A j \in (k + 2)..Len(lg) : j \in Nat /\ j \in (k + 1)..Len(lg)
  OBVIOUS
<1> QED
  BY <1>1, <1>2 DEF Tells

\* The next record tells how its file has changed since.
LEMMA FirstRecord ==
    ASSUME NEW lg \in Seq(JournalRecord), NEW h, NEW now, NEW f, NEW seen, NEW a,
           NEW k \in Nat, k + 1 \in 1..Len(lg), lg[k + 1].frn = f,
           Tells(lg, h, now, f, k, seen, a)
    PROVE  Fits(seen, lg[k + 1].reason, {Seen(lg[k + 1], a)}, a)
<1>1. Untouched(lg, f, k, k + 1)
  BY DEF Untouched
<1>2. k + 1 \in (k + 1)..Len(lg)
  OBVIOUS
<1> QED
  BY <1>1, <1>2 DEF Tells

\* Past the last record, what tells is the open handle and the volume.
LEMMA LastRecord ==
    ASSUME NEW lg \in Seq(JournalRecord), NEW h, NEW now, NEW f, NEW seen, NEW a
    PROVE  Tells(lg, h, now, f, Len(lg), seen, a) <=> Fits(seen, h, now, a)
<1>1. Untouched(lg, f, Len(lg), Len(lg) + 1)
  BY DEF Untouched
<1>2. (Len(lg) + 1)..Len(lg) = {}
  OBVIOUS
<1> QED
  BY <1>1, <1>2 DEF Tells

\* A handle that collects a reason tells no less than before.
LEMMA HandleChanges ==
    ASSUME NEW lg, NEW f, NEW seen, NEW a, NEW k,
           NEW h, NEW now, NEW h2, NEW now2,
           Fits(seen, h, now, a) => Fits(seen, h2, now2, a),
           Tells(lg, h, now, f, k, seen, a)
    PROVE  Tells(lg, h2, now2, f, k, seen, a)
BY DEF Tells

\* A record of another file at the end of the journal tells nothing of f.
LEMMA OthersRecord ==
    ASSUME NEW lg \in Seq(JournalRecord), NEW r \in JournalRecord,
           NEW h, NEW now, NEW f, NEW seen, NEW a, NEW k \in 0..Len(lg),
           r.frn # f, Tells(lg, h, now, f, k, seen, a)
    PROVE  Tells(Append(lg, r), h, now, f, k, seen, a)
<1> DEFINE lg2 == Append(lg, r)
<1>1. /\ lg2 \in Seq(JournalRecord) /\ Len(lg2) = Len(lg) + 1
      /\ lg2[Len(lg) + 1] = r /\ \A i \in 1..Len(lg) : lg2[i] = lg[i]
  OBVIOUS
<1> HIDE DEF lg2
<1>2. ASSUME NEW j \in 0..(Len(lg) + 1), Untouched(lg2, f, k, j)
      PROVE  Untouched(lg, f, k, j)
  <2>1. \A i \in (k + 1)..(j - 1) : i \in 1..Len(lg)
    OBVIOUS
  <2> QED
    BY <1>1, <1>2, <2>1 DEF Untouched
<1>3. ASSUME NEW j \in (k + 1)..Len(lg2), lg2[j].frn = f, Untouched(lg2, f, k, j)
      PROVE  Fits(seen, lg2[j].reason, {Seen(lg2[j], a)}, a)
  <2>1. j \in (k + 1)..Len(lg) /\ j \in 0..(Len(lg) + 1) /\ lg2[j] = lg[j]
    BY <1>1, <1>3
  <2>2. Untouched(lg, f, k, j)
    BY <1>2, <1>3, <2>1
  <2> QED
    BY <1>3, <2>1, <2>2 DEF Tells
<1>4. ASSUME Untouched(lg2, f, k, Len(lg2) + 1)
      PROVE  Fits(seen, h, now, a)
  <2>1. Untouched(lg, f, k, Len(lg) + 1)
    BY <1>1, <1>4 DEF Untouched
  <2> QED
    BY <2>1 DEF Tells
<1>5. Tells(lg2, h, now, f, k, seen, a)
  BY <1>3, <1>4 DEF Tells
<1> QED
  BY <1>5 DEF lg2

\* A record at the end of the journal tells of its file what the handle told.
LEMMA OwnRecord ==
    ASSUME NEW lg \in Seq(JournalRecord), NEW r \in JournalRecord,
           NEW h, NEW now, NEW h2, NEW now2,
           NEW f, NEW seen, NEW a, NEW k \in 0..Len(lg),
           r.frn = f, Tells(lg, h, now, f, k, seen, a),
           Fits(seen, h, now, a) => Fits(seen, r.reason, {Seen(r, a)}, a)
    PROVE  Tells(Append(lg, r), h2, now2, f, k, seen, a)
<1> DEFINE lg2 == Append(lg, r)
<1>1. /\ lg2 \in Seq(JournalRecord) /\ Len(lg2) = Len(lg) + 1
      /\ lg2[Len(lg) + 1] = r /\ \A i \in 1..Len(lg) : lg2[i] = lg[i]
  OBVIOUS
<1> HIDE DEF lg2
<1>2. ASSUME NEW j \in 0..(Len(lg) + 1), Untouched(lg2, f, k, j)
      PROVE  Untouched(lg, f, k, j)
  <2>1. \A i \in (k + 1)..(j - 1) : i \in 1..Len(lg)
    OBVIOUS
  <2> QED
    BY <1>1, <1>2, <2>1 DEF Untouched
<1>3. ASSUME NEW j \in (k + 1)..Len(lg2), lg2[j].frn = f, Untouched(lg2, f, k, j)
      PROVE  Fits(seen, lg2[j].reason, {Seen(lg2[j], a)}, a)
  <2>1. CASE j \in (k + 1)..Len(lg)
    <3>1. lg2[j] = lg[j] /\ Untouched(lg, f, k, j)
      BY <1>1, <1>2, <1>3, <2>1
    <3> QED
      BY <1>3, <2>1, <3>1 DEF Tells
  <2>2. CASE j = Len(lg) + 1
    <3>1. Untouched(lg, f, k, Len(lg) + 1)
      BY <1>2, <1>3, <2>2
    <3>2. Fits(seen, h, now, a)
      BY <3>1 DEF Tells
    <3> QED
      BY <1>1, <2>2, <3>2
  <2> QED
    BY <1>1, <2>1, <2>2
<1>4. ~Untouched(lg2, f, k, Len(lg2) + 1)
  BY <1>1 DEF Untouched
<1>5. Tells(lg2, h2, now2, f, k, seen, a)
  BY <1>3, <1>4 DEF Tells
<1> QED
  BY <1>5 DEF lg2

-----------------------------------------------------------------------------
\* The volume changes

\* A change of a file is among the reasons its handle has collected.
LEMMA ChangeFits ==
    ASSUME BaseInv, NEW f, NEW node, NEW reason, Changed(f, reason, node),
           NEW a \in Aspect, NEW seen, Fits(seen, held[f], Look(fs, f, a), a)
    PROVE  Fits(seen, held'[f], Look(fs', f, a), a)
<1>1. /\ f \in Frn /\ reason \in Reason
      /\ fs' = With(fs, f, node) /\ held' = [held EXCEPT ![f] = @ \cup {reason}]
      /\ reason = "create" <=> f \notin DOMAIN fs
      /\ a # reason /\ reason # "create" => Seen(node, a) = Seen(fs[f], a)
  BY DEF Changed, Change
<1>2. held[f] \in SUBSET Reason /\ held'[f] = held[f] \cup {reason}
  BY <1>1 DEF BaseInv, TypeOK
<1>3. Look(fs', f, a) = {Seen(node, a)}
  BY <1>1 DEF Look, With
<1>4. CASE reason = "create"
  <2>1. held[f] = {} /\ Look(fs, f, a) = {}
    BY <1>1, <1>4 DEF BaseInv, HandleInv, Look
  <2>2. seen = {}
    BY <2>1 DEF Fits, Aspect
  <2> QED
    BY <1>2, <1>4, <2>2 DEF Fits
<1>5. CASE reason # "create"
  <2>1. f \in DOMAIN fs /\ Look(fs, f, a) = {Seen(fs[f], a)}
    BY <1>1, <1>5 DEF Look
  <2>2. "delete" \notin held[f] /\ "delete" \notin held'[f]
    BY <1>1, <1>2 DEF Reason
  <2>3. CASE "create" \in held[f]
    BY <1>2, <2>3 DEF Fits
  <2>4. CASE "create" \notin held[f]
    <3>1. seen # {} /\ (a \notin held[f] => seen = {Seen(fs[f], a)})
      BY <2>1, <2>2, <2>4 DEF Fits
    <3>2. "create" \notin held'[f] /\ (a \notin held'[f] => a # reason /\ a \notin held[f])
      BY <1>2, <1>5, <2>4
    <3> QED
      BY <1>1, <1>3, <1>5, <2>2, <3>1, <3>2 DEF Fits
  <2> QED
    BY <2>3, <2>4
<1> QED
  BY <1>4, <1>5

\* A record has the reasons of its handle, and the file as it is or was last.
LEMMA WrittenFits ==
    ASSUME BaseInv, NEW f \in Frn, NEW r, Written(f, r),
           NEW a \in Aspect, NEW seen
    PROVE  /\ Fits(seen, held[f], Look(fs, f, a), a) =>
                  Fits(seen, r.reason, {Seen(r, a)}, a)
           /\ Fits(After(r, a), held'[f], Look(fs', f, a), a)
<1>1. /\ f \in DOMAIN fs /\ held' = [held EXCEPT ![f] = {}]
      /\ Seen(r, a) = Seen(fs[f], a)
      /\ \/ r.reason = held[f] /\ held[f] # {} /\ fs' = fs
         \/ r.reason = held[f] \cup {"delete"} /\ fs' = Without(fs, f)
  BY DEF Written
<1>2. held[f] \in SUBSET Reason /\ held'[f] = {}
  BY <1>1 DEF BaseInv, TypeOK
<1>3. "delete" \notin held[f] /\ Look(fs, f, a) = {Seen(r, a)}
  BY <1>1, <1>2 DEF Reason, Look
<1>4. CASE r.reason = held[f] /\ fs' = fs
  BY <1>2, <1>3, <1>4 DEF Fits, After
<1>5. CASE r.reason = held[f] \cup {"delete"} /\ fs' = Without(fs, f)
  <2>1. Look(fs', f, a) = {} /\ After(r, a) = {}
    BY <1>5 DEF Look, Without, After
  <2> QED
    BY <1>2, <1>3, <1>5, <2>1 DEF Fits
<1> QED
  BY <1>1, <1>4, <1>5

\* Whatever the volume does, what is Ready stays Ready.
LEMMA VolumeReady ==
    ASSUME BaseInv, Volume, NEW g \in Frn, NEW a \in Aspect, NEW k \in 0..Len(log),
           NEW seen, Ready(g, k, seen, a)
    PROVE  Tells(log', held'[g], Look(fs', g, a), g, k, seen, a)
<1>. TypeOK /\ HandleInv /\ log \in Seq(JournalRecord) /\ held \in [Frn -> SUBSET Reason]
  BY DEF BaseInv, TypeOK
<1>0. Tells(log, held[g], Look(fs, g, a), g, k, seen, a)
  BY DEF Ready
<1>1. ASSUME NEW f, NEW node, NEW reason, Changed(f, reason, node)
      PROVE  Tells(log', held'[g], Look(fs', g, a), g, k, seen, a)
  <2>1. /\ log' = log /\ fs' = With(fs, f, node)
        /\ held' = [held EXCEPT ![f] = @ \cup {reason}]
    BY <1>1 DEF Changed, Change
  <2>2. CASE g = f
    <3>1. Fits(seen, held[g], Look(fs, g, a), a) => Fits(seen, held'[g], Look(fs', g, a), a)
      BY <1>1, <2>2, ChangeFits
    <3> QED
      BY <1>0, <2>1, <3>1, HandleChanges
  <2>3. CASE g # f
    <3>1. held'[g] = held[g] /\ Look(fs', g, a) = Look(fs, g, a)
      BY <2>1, <2>3 DEF Look, With
    <3> QED
      BY <1>0, <2>1, <3>1
  <2> QED
    BY <2>2, <2>3
<1>2. ASSUME NEW f \in Frn, NEW r, Written(f, r)
      PROVE  Tells(log', held'[g], Look(fs', g, a), g, k, seen, a)
  <2>1. /\ log' = Append(log, r) /\ r \in JournalRecord /\ r.frn = f
        /\ held' = [held EXCEPT ![f] = {}] /\ (fs' = fs \/ fs' = Without(fs, f))
    BY <1>2 DEF Written
  <2>2. CASE g = f
    <3>1. Fits(seen, held[g], Look(fs, g, a), a) => Fits(seen, r.reason, {Seen(r, a)}, a)
      BY <1>2, <2>2, WrittenFits
    <3> QED
      BY <1>0, <2>1, <2>2, <3>1, OwnRecord
  <2>3. CASE g # f
    <3>1. held'[g] = held[g] /\ Look(fs', g, a) = Look(fs, g, a)
      BY <2>1, <2>3 DEF Look, Without
    <3> QED
      BY <1>0, <2>1, <2>3, <3>1, OthersRecord
  <2> QED
    BY <2>2, <2>3
<1> QED
  BY <1>1, <1>2, VolumeSteps, ClosingSteps

\* The journal only grows.
LEMMA VolumeLog ==
    ASSUME BaseInv, Volume
    PROVE  /\ Len(log) \in Nat /\ Len(log') \in Nat /\ Len(log) <= Len(log')
           /\ \A i \in 1..Len(log) : log'[i] = log[i]
           /\ UNCHANGED index
<1>. TypeOK /\ PositionInv /\ HandleInv /\ log \in Seq(JournalRecord)
  BY DEF BaseInv, TypeOK
<1>1. ASSUME NEW f \in Frn, NEW r, Written(f, r)
      PROVE  /\ Len(log) \in Nat /\ Len(log') \in Nat /\ Len(log) <= Len(log')
             /\ \A i \in 1..Len(log) : log'[i] = log[i]
  BY <1>1 DEF Written
<1>2. ASSUME log' = log
      PROVE  /\ Len(log) \in Nat /\ Len(log') \in Nat /\ Len(log) <= Len(log')
             /\ \A i \in 1..Len(log) : log'[i] = log[i]
  BY <1>2
<1> QED
  BY <1>1, <1>2, VolumeSteps, VolumeTypes, ClosingSteps

\* So a tree that is Current stays so, whatever the volume does.
LEMMA VolumeCurrent ==
    ASSUME BaseInv, Volume, NEW tree, NEW n \in Nat, Current(tree, n)
    PROVE  \A f \in Frn, a \in Aspect : Known(f, a)' =>
              \E k \in n..Len(log') :
                  Tells(log', held'[f], Look(fs', f, a), f, k, Look(tree, f, a), a)
<1> TAKE f \in Frn, a \in Aspect
<1> HAVE Known(f, a)'
<1>1. Known(f, a)
  BY VolumeLog DEF Known
<1>2. PICK k \in n..Len(log) : Ready(f, k, Look(tree, f, a), a)
  BY <1>1 DEF Current
<1>3. k \in 0..Len(log) /\ k \in n..Len(log')
  BY VolumeLog
<1> QED
  BY <1>2, <1>3, VolumeReady

\* A new record is Ready at its position, an old one stays so.
LEMMA VolumeLogInv ==
    ASSUME BaseInv, LogInv, Volume
    PROVE  LogInv'
<1>. TypeOK /\ PositionInv /\ HandleInv /\ log \in Seq(JournalRecord)
  BY DEF BaseInv, TypeOK
<1>1. ASSUME NEW j \in 1..Len(log), NEW a \in Aspect
      PROVE  Ready(log[j].frn, j, After(log[j], a), a)'
  <2>0. log[j] \in JournalRecord
    OBVIOUS
  <2>1. log[j].frn \in Frn /\ j \in 0..Len(log)
    BY <2>0 DEF JournalRecord
  <2>2. Ready(log[j].frn, j, After(log[j], a), a) /\ log'[j] = log[j]
    BY VolumeLog DEF LogInv
  <2>3. Tells(log', held'[log[j].frn], Look(fs', log[j].frn, a), log[j].frn, j,
              After(log[j], a), a)
    BY <2>1, <2>2, VolumeReady
  <2> QED
    BY <2>2, <2>3 DEF Ready
<1>2. CASE log' = log
  BY <1>1, <1>2 DEF LogInv
<1>3. ASSUME NEW f \in Frn, NEW r, Written(f, r)
      PROVE  LogInv'
  <2>1. /\ log' = Append(log, r) /\ r \in JournalRecord /\ r.frn = f
    BY <1>3 DEF Written
  <2>2. /\ log' \in Seq(JournalRecord) /\ Len(log') = Len(log) + 1
        /\ log'[Len(log) + 1] = r
        /\ \A j \in 1..Len(log') : j \in 1..Len(log) \/ j = Len(log')
        /\ \A j \in 1..Len(log) : log'[j] = log[j]
    BY <2>1
  <2>3. ASSUME NEW a \in Aspect
        PROVE  Ready(f, Len(log), After(r, a), a)'
    <3>1. Fits(After(r, a), held'[f], Look(fs', f, a), a)
      BY <1>3, WrittenFits
    <3>2. Tells(log', held'[f], Look(fs', f, a), f, Len(log'), After(r, a), a)
      BY <2>2, <3>1, LastRecord
    <3> QED
      BY <3>2 DEF Ready
  <2> QED
    BY <1>1, <2>1, <2>2, <2>3 DEF LogInv
<1> QED
  BY <1>2, <1>3, VolumeSteps, VolumeTypes, ClosingSteps

-----------------------------------------------------------------------------
\* A record is applied

\* One aspect of the record's own file: what mem shows then is Ready at the record.
LEMMA OwnFile ==
    ASSUME BaseInv, LogInv, NEW j \in 1..Len(log), j = done + 1,
           ApplyRecord(log[j]), NEW a \in Aspect,
           Known(log[j].frn, a),
           NEW k \in done..Len(log), Ready(log[j].frn, k, Look(mem, log[j].frn, a), a)
    PROVE  \E n \in j..Len(log) : Ready(log[j].frn, n, Look(mem', log[j].frn, a), a)
<1> DEFINE r == log[j]
           f == r.frn
<1>. done \in Nat /\ log \in Seq(JournalRecord) /\ mem \in Tree
  BY DEF BaseInv, TypeOK
<1>1. r \in JournalRecord
  OBVIOUS
<1>2. f \in Frn /\ r.reason \in SUBSET (Reason \cup {"delete"}) /\ r.data \in Nat
  BY <1>1 DEF JournalRecord
<1>3. Ready(f, j, After(r, a), a) /\ j \in j..Len(log)
  BY DEF LogInv
<1>4. Look(mem', f, a) = After(r, a) =>
         \E n \in j..Len(log) : Ready(f, n, Look(mem', f, a), a)
  BY <1>3
\* A record that does not change the aspect.
<1>5. ASSUME Look(mem', f, a) = Look(mem, f, a), a \notin r.reason,
             "create" \notin r.reason, "delete" \notin r.reason
      PROVE  \E n \in j..Len(log) : Ready(f, n, Look(mem', f, a), a)
  <2>1. CASE k >= j
    BY <1>5, <2>1
  <2>2. CASE k < j
    <3>1. k = done /\ k + 1 = j /\ k \in Nat
      BY <2>2
    <3>2. Fits(Look(mem, f, a), r.reason, {Seen(r, a)}, a)
      BY <3>1, FirstRecord DEF Ready
    <3>3. Look(mem, f, a) = After(r, a)
      BY <1>5, <3>2 DEF Fits, After
    <3> QED
      BY <1>4, <1>5, <3>3
  <2> QED
    BY <2>1, <2>2
<1>6. CASE "delete" \in r.reason /\ Deletes(r)
  <2>1. Look(mem', f, a) = {}
    BY <1>6 DEF Deletes, Look, Without
  <2> QED
    BY <1>4, <1>6, <2>1 DEF After
<1>7. CASE "delete" \notin r.reason /\ Inserts(r)
  <2>1. Look(mem', f, a) = {Seen(r, a)}
    BY <1>7 DEF Inserts, Look, With, Seen, Entry
  <2> QED
    BY <1>4, <1>7, <2>1 DEF After
<1>8. CASE /\ "delete" \notin r.reason /\ "create" \notin r.reason
           /\ "rename" \in r.reason /\ Renames(r)
  <2>0. /\ f \in DOMAIN mem /\ f \in DOMAIN mem'
        /\ mem'[f] = [parent |-> r.parent, name |-> r.name, data |-> mem[f].data]
    BY <1>8 DEF Renames, With
  <2>1. CASE a = "rename"
    <3>1. Look(mem', f, a) = {Seen(r, a)}
      BY <2>0, <2>1 DEF Look, Seen
    <3> QED
      BY <1>4, <1>8, <3>1 DEF After
  <2>2. CASE a = "modify"
    <3>1. a \notin r.reason
      BY <1>8, <2>2 DEF Known, Overlooked
    <3>2. Look(mem', f, a) = Look(mem, f, a)
      BY <2>0, <2>2 DEF Look, Seen
    <3> QED
      BY <1>5, <1>8, <3>1, <3>2
  <2> QED
    BY <2>1, <2>2 DEF Aspect
<1>9. CASE r.reason \cap {"delete", "create", "rename"} = {} /\ Modifies(r)
  <2>0. /\ f \in DOMAIN mem /\ DOMAIN mem' = DOMAIN mem
        /\ mem'[f] = [parent |-> mem[f].parent, name |-> mem[f].name, data |-> r.data]
    BY <1>2, <1>9, DataTree DEF Modifies
  <2>1. CASE a = "modify"
    <3>1. Look(mem', f, a) = {Seen(r, a)}
      BY <2>0, <2>1 DEF Look, Seen
    <3> QED
      BY <1>4, <1>9, <3>1 DEF After
  <2>2. CASE a = "rename"
    <3>1. Look(mem', f, a) = Look(mem, f, a)
      BY <2>0, <2>2 DEF Look, Seen
    <3> QED
      BY <1>5, <1>9, <2>2, <3>1
  <2> QED
    BY <2>1, <2>2 DEF Aspect
<1>10. CASE /\ r.reason \cap {"delete", "create", "rename"} = {}
            /\ f \notin DOMAIN mem /\ UNCHANGED <<mem, todo>>
  <2>1. Look(mem, f, a) = {} /\ Look(mem', f, a) = {}
    BY <1>10 DEF Look
  <2>2. CASE k >= j
    BY <2>1, <2>2
  <2>3. CASE k < j
    <3>1. k = done /\ k + 1 = j /\ k \in Nat
      BY <2>3
    <3>2. Fits(Look(mem, f, a), r.reason, {Seen(r, a)}, a)
      BY <3>1, FirstRecord DEF Ready
    <3> QED
      BY <1>10, <2>1, <3>2 DEF Fits
  <2> QED
    BY <2>2, <2>3
<1> QED
  BY <1>6, <1>7, <1>8, <1>9, <1>10, RecordCases

\* A record leaves the entries of other files alone.
LEMMA OtherFiles ==
    ASSUME NEW r, ApplyRecord(r), mem \in Tree, r \in JournalRecord
    PROVE  \A g \in Frn : g # r.frn =>
              /\ g \in DOMAIN mem' <=> g \in DOMAIN mem
              /\ g \in DOMAIN mem => mem'[g] = mem[g]
<1>0. r.frn \in Frn /\ r.data \in Nat
  BY DEF JournalRecord
<1>1. CASE Deletes(r)
  BY <1>1 DEF Deletes, Without
<1>2. CASE Inserts(r)
  BY <1>2 DEF Inserts, With
<1>3. CASE Renames(r)
  BY <1>3 DEF Renames, With
<1>4. CASE Modifies(r)
  BY <1>0, <1>4, DataTree DEF Modifies
<1>5. CASE UNCHANGED <<mem, todo>>
  BY <1>5
<1> QED
  BY <1>1, <1>2, <1>3, <1>4, <1>5, RecordCases

\* A record brings every file of mem to its position or leaves it at a later one.
LEMMA ApplyCurrent ==
    ASSUME BaseInv, LogInv, Current(mem, done), ApplyNext
    PROVE  Current(mem', done + 1)
<1> DEFINE j == done + 1
<1>. TypeOK /\ PositionInv /\ log \in Seq(JournalRecord) /\ mem \in Tree /\ done \in Nat
  BY DEF BaseInv, TypeOK
<1>1. j \in 1..Len(log) /\ log[j] \in JournalRecord /\ ApplyRecord(log[j])
  BY NextRecord
<1> HIDE DEF j
<1>2. ASSUME NEW f \in Frn, NEW a \in Aspect, Known(f, a)
      PROVE  \E n \in j..Len(log) : Ready(f, n, Look(mem', f, a), a)
  <2>1. PICK k \in done..Len(log) : Ready(f, k, Look(mem, f, a), a)
    BY <1>2 DEF Current
  <2>2. CASE f = log[j].frn
    BY <1>1, <1>2, <2>1, <2>2, OwnFile DEF j
  <2>3. CASE f # log[j].frn
    <3>1. Look(mem', f, a) = Look(mem, f, a)
      BY <1>1, <2>3, OtherFiles DEF Look
    <3>2. CASE k >= j
      BY <2>1, <3>1, <3>2
    <3>3. CASE k < j
      <4>1. k \in Nat /\ k + 1 = j
        BY <3>3 DEF j
      <4>2. Ready(f, j, Look(mem, f, a), a)
        BY <1>1, <2>1, <2>3, <4>1, SkipRecord DEF Ready
      <4>3. j \in j..Len(log)
        BY <1>1
      <4> QED
        BY <3>1, <4>2, <4>3
    <3> QED
      BY <3>2, <3>3 DEF j
  <2> QED
    BY <2>2, <2>3
<1> QED
  BY <1>2 DEF Current, j

\* What a record changes of the entries, it puts in the lists.
LEMMA RecordTodo ==
    ASSUME BaseInv, TodoInv, NEW r \in JournalRecord, ApplyRecord(r), rows' = rows,
           behind' = behind
    PROVE  TodoInv'
<1>. mem \in Tree /\ todo \in Todo
  BY DEF BaseInv, TypeOK
<1>0. r.frn \in Frn
  BY DEF JournalRecord
<1> DEFINE Good(f, t, m) ==
        /\ f \in t.gone \ t.ins => f \notin DOMAIN m
        /\ f \notin t.ins \cup t.gone => (f \in DOMAIN rows <=> f \in DOMAIN m)
        /\ f \in DOMAIN m /\ f \notin t.ins \cup t.upd \cup t.gone =>
              f \in DOMAIN rows /\ rows[f] = m[f]
<1>1. SUFFICES ASSUME behind = 0, NEW f \in Frn, Good(f, todo, mem)
               PROVE  Good(f, todo', mem')
  BY DEF TodoInv
<1>2. CASE f # r.frn
  <2>1. /\ f \in todo'.ins <=> f \in todo.ins
        /\ f \in todo'.upd <=> f \in todo.upd
        /\ f \in todo'.gone <=> f \in todo.gone
    <3>1. CASE Deletes(r)
      <4>1. todo' = todo \/ todo' = [todo EXCEPT !.gone = @ \cup {r.frn}]
        BY <3>1 DEF Deletes
      <4> QED
        BY <1>2, <4>1 DEF Todo
    <3>2. CASE Inserts(r)
      BY <1>2, <3>2 DEF Inserts, Todo
    <3>3. CASE Renames(r) \/ Modifies(r)
      <4>1. todo' = [todo EXCEPT !.upd = @ \cup {r.frn}]
        BY <3>3 DEF Renames, Modifies
      <4> QED
        BY <1>2, <4>1 DEF Todo
    <3>4. CASE UNCHANGED <<mem, todo>>
      BY <3>4
    <3> QED
      BY <3>1, <3>2, <3>3, <3>4, RecordCases
  <2>2. /\ f \in DOMAIN mem' <=> f \in DOMAIN mem
        /\ f \in DOMAIN mem => mem'[f] = mem[f]
    BY <1>2, OtherFiles
  <2> QED
    BY <1>1, <2>1, <2>2
<1>3. CASE f = r.frn /\ Deletes(r)
  <2>1. CASE f \notin DOMAIN mem
    BY <1>1, <1>3, <2>1 DEF Deletes
  <2>2. CASE f \in DOMAIN mem
    <3>1. mem' = Without(mem, f) /\ todo' = [todo EXCEPT !.gone = @ \cup {f}]
      BY <1>3, <2>2 DEF Deletes
    <3>2. f \notin DOMAIN mem' /\ f \in todo'.gone
      BY <3>1 DEF Without, Todo
    <3> QED
      BY <3>2
  <2> QED
    BY <2>1, <2>2
<1>4. CASE f = r.frn /\ Inserts(r)
  <2>1. f \in todo'.ins /\ f \in DOMAIN mem'
    BY <1>4 DEF Inserts, With, Todo
  <2> QED
    BY <2>1
<1>5. CASE f = r.frn /\ (Renames(r) \/ Modifies(r))
  <2>1. DOMAIN mem' = DOMAIN mem
    BY <1>5 DEF Renames, Modifies, With
  <2>2. todo'.ins = todo.ins /\ todo'.gone = todo.gone /\ f \in todo'.upd
    BY <1>5 DEF Renames, Modifies, Todo
  <2> QED
    BY <1>1, <2>1, <2>2
<1>6. CASE UNCHANGED <<mem, todo>>
  BY <1>1, <1>6
<1> QED
  BY <1>2, <1>3, <1>4, <1>5, <1>6, RecordCases

\* With empty lists the rows are the entries.
LEMMA RowsAreEntries ==
    ASSUME BaseInv, TodoInv, behind = 0, todo = Nothing
    PROVE  rows = mem
<1>1. /\ rows \in Tree /\ mem \in Tree
      /\ rows = [f \in DOMAIN rows |-> rows[f]] /\ mem = [f \in DOMAIN mem |-> mem[f]]
      /\ DOMAIN rows \subseteq Frn /\ DOMAIN mem \subseteq Frn
  BY TreeFacts DEF BaseInv, TypeOK
<1>2. \A f \in Frn : /\ f \in DOMAIN rows <=> f \in DOMAIN mem
                     /\ f \in DOMAIN mem => rows[f] = mem[f]
  BY NothingListed DEF TodoInv
<1>3. DOMAIN rows = DOMAIN mem
  BY <1>1, <1>2
<1> QED
  BY <1>1, <1>2, <1>3

\* Rows that are the entries lack nothing.
LEMMA SameRows ==
    ASSUME rows = mem, todo = Nothing
    PROVE  TodoInv
BY NothingListed DEF TodoInv

\* The transaction makes the rows the entries, unless a file was deleted and inserted.
LEMMA CommittedRows ==
    ASSUME BaseInv, TodoInv, db_batch_apply, behind' = 0
    PROVE  rows' = mem
<1>0. /\ rows \in Tree /\ mem \in Tree /\ todo \in Todo
      /\ mem = [f \in DOMAIN mem |-> mem[f]]
      /\ DOMAIN rows \subseteq Frn /\ DOMAIN mem \subseteq Frn
  BY TreeFacts DEF BaseInv, TypeOK
<1>1. behind = 0
  BY CommitSteps DEF BaseInv, TypeOK
<1>2. /\ rows' = [f \in RowsAfterBatch |->
                    IF f \in todo.ins \cup todo.upd THEN mem[f] ELSE rows[f]]
      /\ todo.ins \cap todo.gone \cap DOMAIN mem = {}
  BY CommitSteps DEF BaseInv
<1>3. \A f \in Frn :
        /\ f \in (todo.ins \cup todo.upd) \ todo.gone => f \in DOMAIN mem
        /\ f \in todo.gone \ todo.ins => f \notin DOMAIN mem
        /\ f \notin todo.ins \cup todo.gone => (f \in DOMAIN rows <=> f \in DOMAIN mem)
        /\ f \in DOMAIN mem /\ f \notin todo.ins \cup todo.upd \cup todo.gone =>
              f \in DOMAIN rows /\ rows[f] = mem[f]
  BY <1>1 DEF TodoInv, BaseInv, ListInv
<1>4. \A f \in Frn : f \in RowsAfterBatch <=> f \in DOMAIN mem
  BY <1>2, <1>3 DEF RowsAfterBatch
<1>5. RowsAfterBatch = DOMAIN mem
  BY <1>0, <1>4 DEF RowsAfterBatch, Todo
<1>6. \A f \in DOMAIN mem :
        (IF f \in todo.ins \cup todo.upd THEN mem[f] ELSE rows[f]) = mem[f]
  BY <1>0, <1>3, <1>4 DEF RowsAfterBatch
<1> QED
  BY <1>0, <1>2, <1>5, <1>6

-----------------------------------------------------------------------------
\* The inductive invariant

Inv == BaseInv /\ LogInv /\ MemInv /\ RowInv /\ TodoInv

\* The invariant holds of a drive that has been indexed and saved.
LEMMA InvInit ==
    ASSUME Init
    PROVE  Inv
<1>1. TypeOK /\ PositionInv /\ HandleInv
  BY TypeInit
<1>2. todo = Nothing /\ mem = fs /\ rows = fs
  BY DEF Init
<1>3. ListInv /\ TodoInv
  BY <1>2, NothingListed DEF ListInv, TodoInv
<1>4. log \in Seq(JournalRecord) /\ Len(log) = 0
  BY DEF Init
<1>5. LogInv
  BY <1>4 DEF LogInv
<1>6. ASSUME NEW f \in Frn, NEW a \in Aspect
      PROVE  \E k \in 0..Len(log) : Ready(f, k, Look(fs, f, a), a)
  <2>1. held[f] = {}
    BY DEF Init
  <2>2. Fits(Look(fs, f, a), held[f], Look(fs, f, a), a)
    BY <2>1 DEF Fits
  <2>3. Ready(f, Len(log), Look(fs, f, a), a)
    BY <1>4, <2>2, LastRecord DEF Ready
  <2> QED
    BY <1>4, <2>3
<1>7. done = 0 /\ ckpt = 0
  BY DEF Init
<1>8. MemInv /\ RowInv
  BY <1>2, <1>6, <1>7 DEF MemInv, RowInv, Current
<1> QED
  BY <1>1, <1>3, <1>5, <1>8 DEF Inv, BaseInv

\* A position that is Ready for one tree serves an equal tree read from further back.
LEMMA CurrentBack ==
    ASSUME NEW tree, NEW n \in Nat, NEW m \in Nat, m <= n, Len(log) \in Nat,
           Current(tree, n)
    PROVE  Current(tree, m)
<1>1. n..Len(log) \subseteq m..Len(log)
  OBVIOUS
<1> QED
  BY <1>1 DEF Current

\* Every step keeps the invariant.
LEMMA InvStep ==
    ASSUME Inv, [Next]_vars
    PROVE  Inv'
<1>. /\ BaseInv /\ LogInv /\ MemInv /\ RowInv /\ TodoInv
     /\ TypeOK /\ PositionInv /\ ListInv
  BY DEF Inv, BaseInv
<1>. /\ done \in Nat /\ ckpt \in Nat /\ behind \in Nat /\ runs \in Nat \ {0}
     /\ ckpt <= done /\ behind <= runs /\ Len(log) \in Nat
  BY DEF TypeOK, PositionInv
<1>0. BaseInv'
  BY BaseStep
<1>1. CASE Volume
  <2>1. LogInv'
    BY <1>1, VolumeLogInv
  <2>2. UNCHANGED index
    BY <1>1, VolumeLog
  <2>3. MemInv'
    BY <1>1, <2>2, VolumeCurrent DEF MemInv, Current, Ready, index
  <2>4. RowInv'
    BY <1>1, <2>2, VolumeCurrent DEF RowInv, Current, Ready, index
  <2>5. TodoInv'
    BY <2>2 DEF TodoInv, index
  <2> QED
    BY <1>0, <2>1, <2>3, <2>4, <2>5 DEF Inv
\* The other steps leave the volume and the journal alone.
<1>2. ASSUME UNCHANGED <<fs, held, log>>
      PROVE  /\ LogInv'
             /\ \A tree, n : Current(tree, n) =>
                   \A f \in Frn, a \in Aspect : Known(f, a)' =>
                      \E k \in n..Len(log') :
                         Tells(log', held'[f], Look(fs', f, a), f, k, Look(tree, f, a), a)
  BY <1>2 DEF LogInv, Ready, Known, Current
<1>3. CASE UNCHANGED core
  <2>1. UNCHANGED <<fs, held, log, mem, rows, todo, done, ckpt, behind, runs>>
    BY <1>3 DEF core
  <2>2. MemInv' /\ RowInv'
    BY <2>1 DEF MemInv, RowInv, Current, Ready, Known
  <2>3. TodoInv'
    BY <2>1 DEF TodoInv
  <2> QED
    BY <1>0, <1>2, <2>1, <2>2, <2>3 DEF Inv
<1>4. ASSUME NEW n \in 1..(Len(log) - done), _apply_usn_changes(n)
      PROVE  Inv'
  <2>1. UNCHANGED <<fs, held, log, mem, rows, todo, done, ckpt, behind, runs>>
    BY <1>4, BatchSteps
  <2>2. MemInv' /\ RowInv'
    BY <2>1 DEF MemInv, RowInv, Current, Ready, Known
  <2>3. TodoInv'
    BY <2>1 DEF TodoInv
  <2> QED
    BY <1>0, <1>2, <2>1, <2>2, <2>3 DEF Inv
<1>5. CASE ApplyNext
  <2>1. /\ done' = done + 1
        /\ UNCHANGED <<fs, held, log, rows, ckpt, behind, runs>>
    BY <1>5, ApplySteps
  <2>2. MemInv'
    <3>1. Current(mem, done) => Current(mem', done + 1)
      BY <1>5, ApplyCurrent
    <3> QED
      BY <2>1, <3>1 DEF MemInv, Current, Ready, Known
  <2>3. RowInv'
    BY <2>1 DEF RowInv, Current, Ready, Known
  <2>4. TodoInv'
    BY <1>5, <2>1, NextRecord, RecordTodo
  <2> QED
    BY <1>0, <1>2, <2>1, <2>2, <2>3, <2>4 DEF Inv
<1>6. CASE db_batch_apply
  <2>1. /\ todo' = Nothing /\ behind' \in {behind, runs}
        /\ UNCHANGED <<fs, held, log, mem, done, ckpt, runs>>
        /\ behind' = 0 => behind = 0
    BY <1>6, CommitSteps
  <2>2. behind' = 0 => rows' = mem
    BY <1>6, CommittedRows
  <2>3. MemInv'
    <3>1. behind' \in {0, runs'} => behind \in {0, runs}
      BY <1>6, CommitSteps
    <3> QED
      BY <2>1, <3>1 DEF MemInv, Current, Ready, Known
  <2>4. RowInv'
    <3>1. behind' = 0 => Current(mem, ckpt)
      BY <2>1, CurrentBack DEF MemInv
    <3> QED
      BY <2>1, <2>2, <3>1 DEF RowInv, Current, Ready, Known
  <2>5. TodoInv'
    BY <2>1, <2>2, NothingListed DEF TodoInv
  <2> QED
    BY <1>0, <1>2, <2>1, <2>3, <2>4, <2>5 DEF Inv
<1>7. CASE _persist_usn_checkpoints
  <2>1. /\ stage = "checkpoint" /\ ckpt' \in {ckpt, done}
        /\ UNCHANGED <<fs, held, log, mem, rows, todo, done, behind, runs>>
    BY <1>7, CheckpointSteps
  <2>2. MemInv' /\ TodoInv'
    BY <2>1 DEF MemInv, Current, Ready, Known, TodoInv
  <2>3. behind = 0 => rows = mem
    BY <2>1, RowsAreEntries DEF PositionInv
  <2>4. RowInv'
    <3>1. behind = 0 => Current(rows, ckpt')
      BY <2>1, <2>3 DEF MemInv, RowInv
    <3> QED
      BY <2>1, <3>1 DEF RowInv, Current, Ready, Known
  <2> QED
    BY <1>0, <1>2, <2>1, <2>2, <2>4 DEF Inv
<1>8. CASE save_cache
  <2>1. /\ stage = "idle" /\ rows' = mem /\ ckpt' = done
        /\ behind' = 0 => behind \in {0, runs}
        /\ behind' \in {0, behind}
        /\ UNCHANGED <<fs, held, log, mem, todo, done, runs>>
    BY <1>8, SaveSteps
  <2>2. MemInv'
    <3>1. behind' \in {0, runs'} => behind \in {0, runs}
      BY <2>1
    <3> QED
      BY <2>1, <3>1 DEF MemInv, Current, Ready, Known
  <2>3. RowInv'
    <3>1. behind' = 0 => Current(mem, done)
      BY <2>1 DEF MemInv
    <3> QED
      BY <2>1, <3>1 DEF RowInv, Current, Ready, Known
  <2>4. TodoInv'
    BY <2>1, NothingListed DEF TodoInv, PositionInv
  <2> QED
    BY <1>0, <1>2, <2>1, <2>2, <2>3, <2>4 DEF Inv
<1>9. CASE Restart
  <2>1. /\ runs' = runs + 1 /\ mem' = rows /\ done' = ckpt /\ todo' = Nothing
        /\ UNCHANGED <<fs, held, log, rows, ckpt, behind>>
    BY <1>9, RestartSteps
  <2>2. behind' \in {0, runs'} => behind = 0
    BY <2>1
  <2>3. MemInv'
    BY <2>1, <2>2 DEF MemInv, RowInv, Current, Ready, Known
  <2>4. RowInv'
    BY <2>1 DEF RowInv, Current, Ready, Known
  <2>5. TodoInv'
    BY <2>1, NothingListed DEF TodoInv
  <2> QED
    BY <1>0, <1>2, <2>1, <2>3, <2>4, <2>5 DEF Inv
<1> QED
  BY <1>1, <1>3, <1>4, <1>5, <1>6, <1>7, <1>8, <1>9, PathSteps DEF Next, Program

-----------------------------------------------------------------------------
\* What the runs check, for every volume and every run

\* No step leads out of the invariant, and every state of the program satisfies it.
THEOREM Invariance == Spec => []Inv
<1>1. Init => Inv
  BY InvInit
<1>2. Inv /\ [Next]_vars => Inv'
  BY InvStep
<1> QED
  BY <1>1, <1>2, PTL DEF Spec

\* Every variable but the paths keeps its type.
THEOREM Types == Spec => []TypeOK
<1>1. Inv => TypeOK
  BY DEF Inv, BaseInv
<1> QED
  BY <1>1, Invariance, PTL

\* The rows are never taken to reflect more records than the entries do, nor the
\* entries more than the journal holds, and no operation waits for a batch that ended.
THEOREM PositionsOrdered == Spec => []PositionInv
<1>1. Inv => PositionInv
  BY DEF Inv, BaseInv
<1> QED
  BY <1>1, Invariance, PTL

\* Once every handle is closed and every record applied, the index shows of a file
\* what the volume does.
LEMMA SettledLook ==
    ASSUME Inv, Settled, behind \in {0, runs}, NEW f \in Frn, NEW a \in Aspect, Known(f, a)
    PROVE  Look(mem, f, a) = Look(fs, f, a)
<1>1. held[f] = {} /\ done = Len(log) /\ log \in Seq(JournalRecord) /\ Len(log) \in Nat
  BY DEF Settled, Inv, BaseInv, TypeOK
<1>2. PICK k \in done..Len(log) : Ready(f, k, Look(mem, f, a), a)
  BY DEF Inv, MemInv, Current
<1>3. k = Len(log)
  BY <1>1
<1>4. Fits(Look(mem, f, a), {}, Look(fs, f, a), a)
  BY <1>1, <1>2, <1>3, LastRecord DEF Ready
<1> QED
  BY <1>4 DEF Fits

\* In the end the index holds the files of the volume under their names, however the
\* handles were closed, the records cut into batches and replayed after crashes.
THEOREM NamesAreRight == Spec => []NamesMatchVolume
<1>1. ASSUME Inv, Settled, behind \in {0, runs}
      PROVE  Place(mem) = Place(fs)
  <2>1. DOMAIN mem \subseteq Frn /\ DOMAIN fs \subseteq Frn
    BY <1>1, TreeFacts DEF Inv, BaseInv, TypeOK
  <2>2. \A f \in Frn : Look(mem, f, "rename") = Look(fs, f, "rename")
    BY <1>1, SettledLook DEF Aspect, Known
  <2>3. \A f \in Frn :
          /\ f \in DOMAIN mem <=> f \in DOMAIN fs
          /\ f \in DOMAIN mem => <<mem[f].parent, mem[f].name>> = <<fs[f].parent, fs[f].name>>
    BY <2>2 DEF Look, Seen
  <2>4. DOMAIN mem = DOMAIN fs
    BY <2>1, <2>3
  <2> QED
    BY <2>1, <2>3, <2>4 DEF Place
<1>2. Inv => NamesMatchVolume
  BY <1>1 DEF NamesMatchVolume
<1> QED
  BY <1>2, Invariance, PTL

\* In the end every file has the data of its last modification, unless the record that
\* told it was taken as a rename.
THEOREM ModificationsAreRight == Spec => []ModificationsReachIndex
<1>1. ASSUME Inv, Settled, behind \in {0, runs}, NEW f \in DOMAIN mem \cap DOMAIN fs,
             \A i \in DOMAIN log : log[i].frn = f => ~Overlooked(log[i])
      PROVE  mem[f].data = fs[f].data
  <2>1. f \in Frn /\ DOMAIN log = 1..Len(log)
    BY <1>1, TreeFacts DEF Inv, BaseInv, TypeOK
  <2>2. Known(f, "modify")
    BY <1>1, <2>1 DEF Known
  <2>3. Look(mem, f, "modify") = Look(fs, f, "modify")
    BY <1>1, <2>1, <2>2, SettledLook DEF Aspect
  <2> QED
    BY <1>1, <2>3 DEF Look, Seen
<1>2. Inv => ModificationsReachIndex
  BY <1>1 DEF ModificationsReachIndex
<1> QED
  BY <1>2, Invariance, PTL

\* With nothing in flight the rows are the entries, unless they fell behind.
THEOREM RowsAreRight == Spec => []RowsFollow
<1>1. Inv => RowsFollow
  BY RowsAreEntries DEF Inv, BaseInv, PositionInv, RowsFollow
<1> QED
  BY <1>1, Invariance, PTL

\* What a program that starts again finds: rows that lost nothing, and a checkpoint from
\* which the journal brings every file of theirs up to date.
THEOREM RestartRecovers == Spec => [](behind = 0 => Current(rows, ckpt))
<1>1. Inv => (behind = 0 => Current(rows, ckpt))
  BY DEF Inv, RowInv
<1> QED
  BY <1>1, Invariance, PTL

-----------------------------------------------------------------------------
\* What is below a file and what is above it

\* Two trees show a file at the same place, or both do not show it.
Alike(t1, t2, f) ==
    /\ f \in DOMAIN t1 <=> f \in DOMAIN t2
    /\ f \in DOMAIN t1 => t1[f].parent = t2[f].parent /\ t1[f].name = t2[f].name

\* They show all files but one alike.
AlikeBut(t1, t2, x) == \A f : f # x => Alike(t1, t2, f)

\* The descendants are the least set with the children and the children of its members.
LEMMA Below ==
    ASSUME NEW tree, NEW f
    PROVE  /\ Descendants(tree, f) \subseteq DOMAIN tree
           /\ Children(tree, f) \subseteq Descendants(tree, f)
           /\ Closed(tree, Descendants(tree, f))
           /\ \A S \in SUBSET DOMAIN tree :
                 Children(tree, f) \subseteq S /\ Closed(tree, S) =>
                     Descendants(tree, f) \subseteq S
<1>1. \A g : g \in Descendants(tree, f) <=>
               /\ g \in DOMAIN tree
               /\ \A S \in SUBSET DOMAIN tree :
                     Children(tree, f) \subseteq S /\ Closed(tree, S) => g \in S
  BY DEF Descendants
<1>2. \A g : Children(tree, g) \subseteq DOMAIN tree
  BY DEF Children
<1>3. ASSUME NEW g \in Descendants(tree, f), NEW h \in Children(tree, g)
      PROVE  h \in Descendants(tree, f)
  BY <1>1, <1>2, <1>3 DEF Closed
<1> QED
  BY <1>1, <1>2, <1>3 DEF Closed

\* What is below a descendant is below.
LEMMA BelowBelow ==
    ASSUME NEW tree, NEW f, NEW g \in Descendants(tree, f)
    PROVE  Descendants(tree, g) \subseteq Descendants(tree, f)
BY Below DEF Closed

\* Trees that differ at one file have the same files at it and below.
LEMMA SameBelow ==
    ASSUME NEW t1, NEW t2, NEW x, AlikeBut(t1, t2, x)
    PROVE  Descendants(t2, x) \subseteq Descendants(t1, x) \cup {x}
<1> DEFINE S == (Descendants(t1, x) \cup {x}) \cap DOMAIN t2
<1>1. \A g, y : y # x /\ y \in Children(t2, g) => y \in Children(t1, g)
  BY DEF AlikeBut, Alike, Children
<1>2. \A g : Children(t2, g) \subseteq DOMAIN t2
  BY DEF Children
<1>3. Children(t2, x) \subseteq S
  BY <1>1, <1>2, Below
<1>4. Closed(t2, S)
  BY <1>1, <1>2, <1>3, Below DEF Closed
<1> QED
  BY <1>3, <1>4, Below

\* What is below a file in one tree is, in a tree that differs at this file only, at or
\* below a child that it has in the first.
LEMMA BelowChild ==
    ASSUME NEW t1, NEW t2, NEW x, AlikeBut(t1, t2, x)
    PROVE  \A f \in Descendants(t1, x) \ {x} :
              \E c \in Children(t1, x) : c # x /\ f \in Descendants(t2, c) \cup {c}
<1> DEFINE First == Children(t1, x) \ {x}
           S == {g \in DOMAIN t1 : g = x \/ \E c \in First : g \in Descendants(t2, c) \cup {c}}
<1>1. \A g, y : y # x /\ y \in Children(t1, g) => y \in Children(t2, g)
  BY DEF AlikeBut, Alike, Children
<1>2. \A g : Children(t1, g) \subseteq DOMAIN t1
  BY DEF Children
<1>3. Children(t1, x) \subseteq S
  BY <1>2
<1>4. ASSUME NEW g \in S, NEW y \in Children(t1, g)
      PROVE  y \in S
  <2>1. CASE y = x \/ g = x
    BY <1>2, <1>3, <1>4, <2>1
  <2>2. CASE y # x /\ g # x
    <3>1. PICK c \in First : g \in Descendants(t2, c) \cup {c}
      BY <1>4, <2>2
    <3>2. y \in Children(t2, g)
      BY <1>1, <1>4, <2>2
    <3>3. y \in Descendants(t2, c)
      BY <3>1, <3>2, Below DEF Closed
    <3> QED
      BY <1>2, <1>4, <3>3
  <2> QED
    BY <2>1, <2>2
<1>5. Descendants(t1, x) \subseteq S
  <2> HIDE DEF S
  <2>1. Closed(t1, S)
    BY <1>4 DEF Closed
  <2>2. S \in SUBSET DOMAIN t1
    BY DEF S
  <2> QED
    BY <1>3, <2>1, <2>2, Below
<1> QED
  BY <1>5

\* Half of SameLine.
LEMMA AboveInto ==
    ASSUME NEW t1, NEW t2, NEW W, NEW f \in W,
           \A x \in W : /\ x \in DOMAIN t1 /\ x \in DOMAIN t2 /\ Alike(t1, t2, x)
                        /\ t1[x].parent \in W \/ t1[x].parent \notin DOMAIN t1
    PROVE  Above(t1, f) \subseteq W /\ Above(t1, f) \subseteq Above(t2, f)
<1>1. \A g, y : y \in W /\ y \in Children(t1, g) /\ g \in DOMAIN t1 =>
                    g \in W /\ y \in Children(t2, g)
  BY DEF Alike, Children
<1>2. \A g : Children(t1, g) \subseteq DOMAIN t1
  BY DEF Children
<1>3. ASSUME NEW d \in DOMAIN t1, f \in Descendants(t1, d)
      PROVE  d \in W
  <2> DEFINE S == DOMAIN t1 \ W
  <2>1. SUFFICES ASSUME d \notin W PROVE FALSE
    OBVIOUS
  <2>2. Children(t1, d) \subseteq S /\ Closed(t1, S)
    BY <1>1, <1>2, <2>1 DEF Closed
  <2> QED
    BY <1>3, <2>2, Below
<1>4. ASSUME NEW d \in DOMAIN t1, f \in Descendants(t1, d)
      PROVE  f \in Descendants(t2, d)
  <2> DEFINE S == (DOMAIN t1 \ W) \cup (DOMAIN t1 \cap Descendants(t2, d))
  <2>1. Children(t1, d) \subseteq S
    BY <1>1, <1>2, <1>3, Below
  <2>2. ASSUME NEW g \in S, NEW y \in Children(t1, g)
        PROVE  y \in S
    <3>1. CASE y \in W
      <4>1. g \in W /\ y \in Children(t2, g)
        BY <1>1, <2>2, <3>1
      <4> QED
        BY <1>2, <2>2, <4>1, Below DEF Closed
    <3>2. CASE y \notin W
      BY <1>2, <3>2
    <3> QED
      BY <3>1, <3>2
  <2>3. Closed(t1, S)
    BY <2>2 DEF Closed
  <2>4. f \in S
    <3> HIDE DEF S
    <3>1. S \in SUBSET DOMAIN t1
      BY DEF S
    <3> QED
      BY <1>4, <2>1, <2>3, <3>1, Below
  <2> QED
    BY <2>4
<1> QED
  BY <1>3, <1>4 DEF Above

\* Two trees show the files of W alike, with their parents unless neither has those.
Together(t1, t2, W) ==
    \A x \in W : /\ x \in DOMAIN t1 /\ x \in DOMAIN t2 /\ Alike(t1, t2, x)
                 /\ \/ t1[x].parent \in W
                    \/ t1[x].parent \notin DOMAIN t1 \cup DOMAIN t2

\* A file has the same path in two trees that show it and all files up to the root, or
\* up to a missing parent, at the same places.
LEMMA SameLine ==
    ASSUME NEW t1, NEW t2, NEW W, NEW f \in W, Together(t1, t2, W)
    PROVE  /\ Above(t1, f) = Above(t2, f) /\ Above(t1, f) \subseteq W
           /\ resolve_path(t1, f) = resolve_path(t2, f)
<1>1. Above(t1, f) \subseteq W /\ Above(t1, f) \subseteq Above(t2, f)
  BY AboveInto DEF Together
<1>2. Above(t2, f) \subseteq Above(t1, f)
  <2>1. \A x \in W : /\ x \in DOMAIN t1 /\ x \in DOMAIN t2 /\ Alike(t2, t1, x)
                     /\ t2[x].parent \in W \/ t2[x].parent \notin DOMAIN t2
    BY DEF Together, Alike
  <2> QED
    BY <2>1, AboveInto
<1>3. Line(t1, f) = Line(t2, f)
  BY <1>1, <1>2 DEF Line, Together, Alike
<1>4. resolve_path(t1, f) = resolve_path(t2, f)
  BY <1>3 DEF resolve_path
<1> QED
  BY <1>1, <1>2, <1>4

\* What is above the parent of a file is above the file.
LEMMA AboveParent ==
    ASSUME NEW tree, NEW f \in DOMAIN tree, NEW g \in DOMAIN tree, tree[g].parent \in DOMAIN tree,
           g \in Above(tree, f) \cup {f}
    PROVE  tree[g].parent \in Above(tree, f)
<1>1. g \in Descendants(tree, tree[g].parent)
  BY Below DEF Children
<1>2. Descendants(tree, g) \subseteq Descendants(tree, tree[g].parent)
  BY <1>1, BelowBelow
<1> QED
  BY <1>1, <1>2 DEF Above

\* A file that is not at or below the one at which two trees differ has the same path.
LEMMA SameAbove ==
    ASSUME NEW t1, NEW t2, NEW x, AlikeBut(t1, t2, x),
           NEW f \in DOMAIN t1, f \notin Descendants(t1, x) \cup {x}
    PROVE  /\ Above(t1, f) = Above(t2, f) /\ x \notin Above(t1, f)
           /\ resolve_path(t1, f) = resolve_path(t2, f)
<1> DEFINE W == Above(t1, f) \cup {f}
<1>1. x \notin W
  BY DEF Above
<1>2. ASSUME NEW w \in W
      PROVE  /\ w \in DOMAIN t1 /\ w \in DOMAIN t2 /\ Alike(t1, t2, w)
             /\ \/ t1[w].parent \in W
                \/ t1[w].parent \notin DOMAIN t1 \cup DOMAIN t2
  <2>1. w \in DOMAIN t1 /\ w \in DOMAIN t2 /\ Alike(t1, t2, w)
    BY <1>1, <1>2 DEF Above, AlikeBut, Alike
  <2>2. CASE t1[w].parent \in DOMAIN t1
    BY <1>2, <2>1, <2>2, AboveParent
  <2>3. CASE t1[w].parent \notin DOMAIN t1
    <3>1. t1[w].parent # x
      <4>1. SUFFICES ASSUME t1[w].parent = x PROVE FALSE
        OBVIOUS
      <4>2. w \in Descendants(t1, x)
        BY <2>1, <4>1, Below DEF Children
      <4>3. f \in Descendants(t1, x)
        BY <1>2, <4>2, BelowBelow DEF Above
      <4> QED
        BY <4>3
    <3> QED
      BY <2>1, <2>3, <3>1 DEF AlikeBut, Alike
  <2> QED
    BY <2>1, <2>2, <2>3
<1> HIDE DEF W
<1>3. f \in W /\ Together(t1, t2, W)
  BY <1>2 DEF W, Together
<1>4. /\ Above(t1, f) = Above(t2, f) /\ Above(t1, f) \subseteq W
      /\ resolve_path(t1, f) = resolve_path(t2, f)
  BY <1>3, SameLine
<1> QED
  BY <1>1, <1>4

\* Trees that show every file at the same place show it below the same files and under
\* the same path.
LEMMA SamePlaces ==
    ASSUME NEW t1, NEW t2, \A y : Alike(t1, t2, y)
    PROVE  \A f : /\ Descendants(t1, f) = Descendants(t2, f)
                  /\ Above(t1, f) = Above(t2, f)
                  /\ resolve_path(t1, f) = resolve_path(t2, f)
<1>1. DOMAIN t1 = DOMAIN t2
  BY DEF Alike
<1>2. \A g : Children(t1, g) = Children(t2, g)
  BY DEF Alike, Children
<1>3. \A S : Closed(t1, S) <=> Closed(t2, S)
  BY <1>2 DEF Closed
<1>4. \A f : Descendants(t1, f) = Descendants(t2, f)
  BY <1>1, <1>2, <1>3 DEF Descendants
<1>5. \A f : Above(t1, f) = Above(t2, f)
  BY <1>1, <1>4 DEF Above
<1>6. \A f : Line(t1, f) = Line(t2, f)
  <2> TAKE f
  <2>1. \A g \in Above(t1, f) \cup ({f} \cap DOMAIN t1) : g \in DOMAIN t1
    BY DEF Above
  <2>2. \A g \in DOMAIN t1 : t1[g].parent = t2[g].parent /\ t1[g].name = t2[g].name
    BY DEF Alike
  <2> QED
    BY <1>1, <1>5, <2>1, <2>2 DEF Line
<1>7. ASSUME NEW f
      PROVE  resolve_path(t1, f) = resolve_path(t2, f)
  <2>1. Line(t1, f) = Line(t2, f)
    BY <1>6
  <2> QED
    BY <2>1 DEF resolve_path
<1> QED
  BY <1>4, <1>5, <1>7

-----------------------------------------------------------------------------
\* When a file moves or appears

\* Where a tree shows a file.
SpotIn(tree, f) == Look(tree, f, "rename")
At(f, k, seen) == Ready(f, k, seen, "rename")

\* A file that a tree shows somewhere is in the tree, there.
LEMMA SpotKnown ==
    ASSUME NEW tree, NEW f, NEW p, NEW n, SpotIn(tree, f) = {<<p, n>>}
    PROVE  f \in DOMAIN tree /\ tree[f].parent = p /\ tree[f].name = n
<1>1. f \in DOMAIN tree
  BY DEF SpotIn, Look
<1>2. <<tree[f].parent, tree[f].name>> = <<p, n>>
  BY <1>1 DEF SpotIn, Look, Seen
<1> QED
  BY <1>1, <1>2

\* The record gives this reason for the file.
Has(r, f, reason) == r.frn = f /\ reason \in r.reason
\* The file is renamed or deleted after the first k records, it is created after them.
MovesLater(f, k) ==
    \/ "rename" \in held[f]
    \/ \E i \in (k + 1)..Len(log) : Has(log[i], f, "rename") \/ Has(log[i], f, "delete")
AppearsLater(f, k) ==
    \/ "create" \in held[f]
    \/ \E i \in (k + 1)..Len(log) : Has(log[i], f, "create")
Logged(f) == \E i \in 1..Len(log) : log[i].frn = f
Created(f) == f # Root /\ AppearsLater(f, 0)

\* The volume changes a file or writes a record.
LEMMA VolumeCases ==
    ASSUME BaseInv, Volume
    PROVE  \/ \E f, node, reason : Changed(f, reason, node)
           \/ \E f \in Frn : \E r : Written(f, r)
BY VolumeSteps, ClosingSteps DEF BaseInv

\* What a change does to handles and files.
LEMMA ChangedParts ==
    ASSUME BaseInv, NEW f, NEW node, NEW reason, Changed(f, reason, node)
    PROVE  /\ f \in Frn /\ reason \in Reason /\ log' = log /\ world' = world
           /\ held[f] \in SUBSET Reason /\ held'[f] = held[f] \cup {reason}
           /\ \A g \in Frn \ {f} : held'[g] = held[g]
           /\ fs' = With(fs, f, node)
           /\ DOMAIN fs' = DOMAIN fs \cup {f} /\ fs'[f] = node
           /\ \A g \in DOMAIN fs \ {f} : fs'[g] = fs[g]
<1>1. /\ f \in Frn /\ reason \in Reason /\ log' = log /\ fs' = With(fs, f, node)
      /\ held' = [held EXCEPT ![f] = @ \cup {reason}] /\ world' = world
  BY DEF Changed, Change
<1>2. held \in [Frn -> SUBSET Reason]
  BY DEF BaseInv, TypeOK
<1>3. /\ DOMAIN fs' = DOMAIN fs \cup {f} /\ fs'[f] = node
      /\ \A g \in DOMAIN fs \ {f} : fs'[g] = fs[g]
  BY <1>1 DEF With
<1> QED
  BY <1>1, <1>2, <1>3

\* What a new record does.
LEMMA WrittenParts ==
    ASSUME BaseInv, NEW f \in Frn, NEW r, Written(f, r)
    PROVE  /\ f \in DOMAIN fs /\ r \in JournalRecord /\ r.frn = f /\ world' = world
           /\ log \in Seq(JournalRecord) /\ Len(log) \in Nat
           /\ log' = Append(log, r) /\ log' \in Seq(JournalRecord)
           /\ Len(log') = Len(log) + 1 /\ log'[Len(log) + 1] = r
           /\ \A i \in 1..Len(log) : log'[i] = log[i]
           /\ held[f] \in SUBSET Reason /\ held'[f] = {}
           /\ \A g \in Frn \ {f} : held'[g] = held[g]
           /\ \A g \in DOMAIN fs \ {f} : g \in DOMAIN fs' /\ fs'[g] = fs[g]
           /\ \A g : g \notin DOMAIN fs => g \notin DOMAIN fs'
<1>1. /\ f \in DOMAIN fs /\ r \in JournalRecord /\ r.frn = f
      /\ log' = Append(log, r) /\ held' = [held EXCEPT ![f] = {}]
      /\ fs' = fs \/ fs' = Without(fs, f)
  BY DEF Written
<1>2. held \in [Frn -> SUBSET Reason] /\ log \in Seq(JournalRecord)
  BY DEF BaseInv, TypeOK
<1>3. /\ log' \in Seq(JournalRecord)
      /\ Len(log') = Len(log) + 1 /\ log'[Len(log) + 1] = r
      /\ \A i \in 1..Len(log) : log'[i] = log[i]
  BY <1>1, <1>2
<1>4. /\ \A g \in DOMAIN fs \ {f} : g \in DOMAIN fs' /\ fs'[g] = fs[g]
      /\ \A g : g \notin DOMAIN fs => g \notin DOMAIN fs'
  BY <1>1 DEF Without
<1>5. world' = world
  BY DEF Written
<1> QED
  BY <1>1, <1>2, <1>3, <1>4, <1>5

\* A move or a creation that is to be told stays so, whatever the volume does.
LEMMA LaterStays ==
    ASSUME BaseInv, Volume, NEW f \in Frn, NEW k \in 0..Len(log)
    PROVE  /\ MovesLater(f, k) => MovesLater(f, k)'
           /\ AppearsLater(f, k) => AppearsLater(f, k)'
<1>1. ASSUME NEW g, NEW node, NEW reason, Changed(g, reason, node)
      PROVE  /\ MovesLater(f, k) => MovesLater(f, k)'
             /\ AppearsLater(f, k) => AppearsLater(f, k)'
  <2>1. log' = log /\ held[f] \subseteq held'[f]
    BY <1>1, ChangedParts
  <2> QED
    BY <2>1 DEF MovesLater, AppearsLater
<1>2. ASSUME NEW g \in Frn, NEW r, Written(g, r)
      PROVE  /\ MovesLater(f, k) => MovesLater(f, k)'
             /\ AppearsLater(f, k) => AppearsLater(f, k)'
  <2>0. /\ Len(log) \in Nat /\ Len(log') = Len(log) + 1 /\ log'[Len(log) + 1] = r
        /\ r.frn = g /\ \A i \in 1..Len(log) : log'[i] = log[i]
        /\ f # g => held'[f] = held[f]
    BY <1>2, WrittenParts
  <2>1. /\ \A i \in (k + 1)..Len(log) : i \in (k + 1)..Len(log') /\ log'[i] = log[i]
        /\ Len(log) + 1 \in (k + 1)..Len(log')
    BY <2>0
  <2>2. CASE f = g
    <3>1. held[f] \subseteq r.reason
      BY <1>2, <2>2 DEF Written
    <3> QED
      BY <2>0, <2>1, <2>2, <3>1 DEF MovesLater, AppearsLater, Has
  <2>3. CASE f # g
    BY <2>0, <2>1, <2>3 DEF MovesLater, AppearsLater
  <2> QED
    BY <2>2, <2>3
<1> QED
  BY <1>1, <1>2, VolumeCases

\* A file that is there is not created.
LEMMA NoNewCreation ==
    ASSUME BaseInv, Volume, NEW f \in Frn, NEW k \in 0..Len(log), AppearsLater(f, k)'
    PROVE  AppearsLater(f, k) \/ (f \notin DOMAIN fs /\ (~world.reuse => ~Logged(f)))
<1>1. ASSUME NEW g, NEW node, NEW reason, Changed(g, reason, node)
      PROVE  AppearsLater(f, k) \/ (f \notin DOMAIN fs /\ (~world.reuse => ~Logged(f)))
  <2>1. /\ log' = log /\ held'[g] = held[g] \cup {reason}
        /\ f # g => held'[f] = held[f]
    BY <1>1, ChangedParts
  <2>2. reason = "create" => g \notin DOMAIN fs /\ (~world.reuse => ~Logged(g))
    BY <1>1 DEF Changed, Logged
  <2> QED
    BY <2>1, <2>2 DEF AppearsLater
<1>2. ASSUME NEW g \in Frn, NEW r, Written(g, r)
      PROVE  AppearsLater(f, k)
  <2>0. /\ Len(log) \in Nat /\ Len(log') = Len(log) + 1 /\ log'[Len(log) + 1] = r
        /\ r.frn = g /\ \A i \in 1..Len(log) : log'[i] = log[i]
        /\ held'[g] = {} /\ (f # g => held'[f] = held[f])
        /\ k \in Nat
    BY <1>2, WrittenParts
  <2>1. "create" \in r.reason => "create" \in held[g]
    BY <1>2 DEF Written
  <2>2. CASE "create" \in held'[f]
    BY <2>0, <2>2 DEF AppearsLater
  <2>3. ASSUME NEW i \in (k + 1)..Len(log'), Has(log'[i], f, "create")
        PROVE  AppearsLater(f, k)
    <3>1. CASE i = Len(log) + 1
      BY <2>0, <2>1, <2>3, <3>1 DEF AppearsLater, Has
    <3>2. CASE i # Len(log) + 1
      <4>1. i \in (k + 1)..Len(log) /\ log'[i] = log[i]
        BY <2>0, <3>2
      <4> QED
        BY <2>3, <4>1 DEF AppearsLater
    <3> QED
      BY <3>1, <3>2
  <2> QED
    BY <2>2, <2>3 DEF AppearsLater
<1> QED
  BY <1>1, <1>2, VolumeCases

\* Nothing is told of f by a later record of another file.
LEMMA OthersBefore ==
    ASSUME NEW lg \in Seq(JournalRecord), NEW r \in JournalRecord,
           NEW h, NEW now, NEW f, NEW seen, NEW a, NEW k \in 0..Len(lg),
           r.frn # f, Tells(Append(lg, r), h, now, f, k, seen, a)
    PROVE  Tells(lg, h, now, f, k, seen, a)
<1> DEFINE lg2 == Append(lg, r)
<1>1. /\ lg2 \in Seq(JournalRecord) /\ Len(lg2) = Len(lg) + 1 /\ Len(lg) \in Nat
      /\ lg2[Len(lg) + 1] = r /\ \A i \in 1..Len(lg) : lg2[i] = lg[i]
  OBVIOUS
<1>2. Tells(lg2, h, now, f, k, seen, a)
  OBVIOUS
<1> HIDE DEF lg2
<1>3. ASSUME NEW j \in (k + 1)..Len(lg), lg[j].frn = f, Untouched(lg, f, k, j)
      PROVE  Fits(seen, lg[j].reason, {Seen(lg[j], a)}, a)
  <2>1. j \in (k + 1)..Len(lg2) /\ lg2[j] = lg[j] /\ j - 1 \in 0..Len(lg)
    BY <1>1
  <2>2. \A i \in (k + 1)..(j - 1) : i \in 1..Len(lg)
    BY <1>1
  <2>3. Untouched(lg2, f, k, j)
    BY <1>1, <1>3, <2>2 DEF Untouched
  <2> QED
    BY <1>2, <1>3, <2>1, <2>3 DEF Tells
<1>4. ASSUME Untouched(lg, f, k, Len(lg) + 1)
      PROVE  Fits(seen, h, now, a)
  <2>1. \A i \in (k + 1)..(Len(lg2) + 1 - 1) : i \in (k + 1)..(Len(lg) + 1 - 1) \/ i = Len(lg) + 1
    BY <1>1
  <2>2. Untouched(lg2, f, k, Len(lg2) + 1)
    BY <1>1, <1>4, <2>1 DEF Untouched
  <2> QED
    BY <1>2, <2>2 DEF Tells
<1> QED
  BY <1>3, <1>4 DEF Tells

\* What a record tells of its file, the handle told before.
LEMMA OwnBefore ==
    ASSUME NEW lg \in Seq(JournalRecord), NEW r \in JournalRecord,
           NEW h, NEW now, NEW h2, NEW now2,
           NEW f, NEW seen, NEW a, NEW k \in 0..Len(lg),
           r.frn = f, Tells(Append(lg, r), h2, now2, f, k, seen, a),
           Fits(seen, r.reason, {Seen(r, a)}, a) => Fits(seen, h, now, a)
    PROVE  Tells(lg, h, now, f, k, seen, a)
<1> DEFINE lg2 == Append(lg, r)
<1>1. /\ lg2 \in Seq(JournalRecord) /\ Len(lg2) = Len(lg) + 1 /\ Len(lg) \in Nat
      /\ lg2[Len(lg) + 1] = r /\ \A i \in 1..Len(lg) : lg2[i] = lg[i]
  OBVIOUS
<1>2. Tells(lg2, h2, now2, f, k, seen, a)
  OBVIOUS
<1> HIDE DEF lg2
<1>3. ASSUME NEW j \in (k + 1)..(Len(lg) + 1), Untouched(lg, f, k, j)
      PROVE  Untouched(lg2, f, k, j)
  <2>1. \A i \in (k + 1)..(j - 1) : i \in 1..Len(lg)
    BY <1>1
  <2> QED
    BY <1>1, <1>3, <2>1 DEF Untouched
<1>4. ASSUME NEW j \in (k + 1)..Len(lg), lg[j].frn = f, Untouched(lg, f, k, j)
      PROVE  Fits(seen, lg[j].reason, {Seen(lg[j], a)}, a)
  <2>1. j \in (k + 1)..Len(lg2) /\ lg2[j] = lg[j] /\ j \in (k + 1)..(Len(lg) + 1)
    BY <1>1
  <2> QED
    BY <1>2, <1>3, <1>4, <2>1 DEF Tells
<1>5. ASSUME Untouched(lg, f, k, Len(lg) + 1)
      PROVE  Fits(seen, h, now, a)
  <2>1. Len(lg) + 1 \in (k + 1)..Len(lg2) /\ Len(lg) + 1 \in (k + 1)..(Len(lg) + 1)
    BY <1>1
  <2>2. Untouched(lg2, f, k, Len(lg) + 1)
    BY <1>3, <1>5, <2>1
  <2>3. Fits(seen, r.reason, {Seen(r, a)}, a)
    BY <1>1, <1>2, <2>1, <2>2 DEF Tells
  <2> QED
    BY <2>3
<1> QED
  BY <1>4, <1>5 DEF Tells

\* Nothing that the journal has to tell changes what is seen of the file.
Steady(f, k, seen) == IF seen = {} THEN ~AppearsLater(f, k) ELSE ~MovesLater(f, k)

\* A file that is neither to be renamed nor to be deleted, seen somewhere after a step of the
\* volume, was seen there before; one that is not to be created, and not seen, was not.
LEMMA StepBack ==
    ASSUME BaseInv, Volume, NEW f \in Frn, NEW k \in 0..Len(log), NEW seen,
           At(f, k, seen)', Steady(f, k, seen)'
    PROVE  At(f, k, seen) /\ Steady(f, k, seen)
<1>0. Steady(f, k, seen)
  BY LaterStays DEF Steady
<1>. log \in Seq(JournalRecord) /\ Len(log) \in Nat
  BY DEF BaseInv, TypeOK
<1>1. ASSUME NEW g, NEW node, NEW reason, Changed(g, reason, node)
      PROVE  At(f, k, seen)
  <2>1. /\ log' = log /\ held'[g] = held[g] \cup {reason} /\ g \in Frn
        /\ held[g] \in SUBSET Reason /\ reason \in Reason
        /\ f # g => held'[f] = held[f]
        /\ DOMAIN fs' = DOMAIN fs \cup {g} /\ fs'[g] = node
        /\ \A h \in DOMAIN fs \ {g} : fs'[h] = fs[h]
    BY <1>1, ChangedParts
  <2>2. reason = "create" <=> g \notin DOMAIN fs
    BY <1>1 DEF Changed
  <2>3. CASE f # g
    <3>1. SpotIn(fs', f) = SpotIn(fs, f)
      BY <2>1, <2>3 DEF SpotIn, Look
    <3> QED
      BY <2>1, <2>3, <3>1 DEF At, Ready, SpotIn
  <2>4. CASE f = g
    <3>1. ASSUME Fits(seen, held'[f], SpotIn(fs', f), "rename")
          PROVE  Fits(seen, held[f], SpotIn(fs, f), "rename")
      <4>1. "delete" \notin held'[f] /\ "delete" \notin held[f] /\ SpotIn(fs', f) # {}
        BY <2>1, <2>4 DEF Reason, SpotIn, Look
      <4>2. CASE seen = {}
        <5>1. "create" \notin held'[f]
          BY <4>2 DEF Steady, AppearsLater
        <5> QED
          BY <3>1, <4>1, <4>2, <5>1 DEF Fits
      <4>3. CASE seen # {}
        <5>1. "rename" \notin held'[f] /\ "create" \notin held'[f]
          BY <3>1, <4>3 DEF Steady, MovesLater, Fits
        <5>2. reason = "modify" /\ "create" \notin held[f] /\ "rename" \notin held[f]
          BY <2>1, <2>4, <5>1 DEF Reason
        <5>3. Seen(node, "rename") = Seen(fs[f], "rename") /\ f \in DOMAIN fs
          BY <1>1, <2>2, <2>4, <5>2 DEF Changed, Aspect
        <5>4. SpotIn(fs', f) = SpotIn(fs, f)
          BY <2>1, <2>4, <5>3 DEF SpotIn, Look
        <5> QED
          BY <3>1, <4>1, <5>1, <5>2, <5>4 DEF Fits
      <4> QED
        BY <4>2, <4>3
    <3>2. Tells(log, held'[f], SpotIn(fs', f), f, k, seen, "rename")
      BY <2>1 DEF At, Ready, SpotIn
    <3> QED
      BY <3>1, <3>2, HandleChanges DEF At, Ready, SpotIn
  <2> QED
    BY <2>3, <2>4
<1>2. ASSUME NEW g \in Frn, NEW r, Written(g, r)
      PROVE  At(f, k, seen)
  <2>0. /\ Len(log') = Len(log) + 1 /\ log'[Len(log) + 1] = r /\ r \in JournalRecord
        /\ log' = Append(log, r) /\ r.frn = g /\ g \in DOMAIN fs
        /\ f # g => held'[f] = held[f]
        /\ \A h \in DOMAIN fs \ {g} : h \in DOMAIN fs' /\ fs'[h] = fs[h]
        /\ \A h : h \notin DOMAIN fs => h \notin DOMAIN fs'
    BY <1>2, WrittenParts
  <2>1. Tells(Append(log, r), held'[f], SpotIn(fs', f), f, k, seen, "rename")
    BY <2>0 DEF At, Ready, SpotIn
  <2>2. CASE f # g
    <3>1. SpotIn(fs', f) = SpotIn(fs, f)
      BY <2>0, <2>2 DEF SpotIn, Look
    <3>2. Tells(log, held[f], SpotIn(fs, f), f, k, seen, "rename")
      BY <2>0, <2>1, <2>2, <3>1, OthersBefore
    <3> QED
      BY <3>2 DEF At, Ready, SpotIn
  <2>3. CASE f = g
    <3>0. Len(log) + 1 \in (k + 1)..Len(log')
      BY <2>0
    <3>1. ASSUME Fits(seen, r.reason, {Seen(r, "rename")}, "rename")
          PROVE  Fits(seen, held[f], SpotIn(fs, f), "rename")
      <4>1. SpotIn(fs, f) = {Seen(r, "rename")}
        BY <1>2, <2>0, <2>3 DEF SpotIn, Look, Written, Aspect
      <4>2. CASE seen = {}
        <5>1. "create" \notin r.reason
          BY <2>0, <2>3, <3>0, <4>2 DEF Steady, AppearsLater, Has
        <5> QED
          BY <3>1, <4>2, <5>1 DEF Fits
      <4>3. CASE seen # {}
        <5>1. "delete" \notin r.reason
          BY <2>0, <2>3, <3>0, <4>3 DEF Steady, MovesLater, Has
        <5>2. r.reason = held[f]
          BY <1>2, <2>3, <5>1 DEF Written
        <5> QED
          BY <3>1, <4>1, <5>2
      <4> QED
        BY <4>2, <4>3
    <3>2. r \in JournalRecord /\ r.frn = f
      BY <2>0, <2>3
    <3>3. Tells(log, held[f], SpotIn(fs, f), f, k, seen, "rename")
      BY <2>1, <3>1, <3>2, OwnBefore
    <3> QED
      BY <3>3 DEF At, Ready, SpotIn
  <2> QED
    BY <2>2, <2>3
<1> QED
  BY <1>0, <1>1, <1>2, VolumeCases

EndOfJournal == \A f \in Frn : \A seen :
    At(f, Len(log), seen) /\ Steady(f, Len(log), seen) =>
        /\ SpotIn(fs, f) = seen
        /\ seen # {} => held[f] \cap {"create", "rename"} = {}

\* A file seen somewhere at the end of the journal, and steady, is there.
LEMMA AtEnd == BaseInv => EndOfJournal
<1> SUFFICES ASSUME BaseInv, NEW f \in Frn, NEW seen,
                    At(f, Len(log), seen), Steady(f, Len(log), seen)
             PROVE  /\ SpotIn(fs, f) = seen
                    /\ seen # {} => held[f] \cap {"create", "rename"} = {}
  BY DEF EndOfJournal
<1>1. log \in Seq(JournalRecord) /\ held[f] \in SUBSET Reason
  BY DEF BaseInv, TypeOK
<1>2. Fits(seen, held[f], SpotIn(fs, f), "rename")
  BY <1>1, LastRecord DEF At, Ready, SpotIn
<1>3. "delete" \notin held[f]
  BY <1>1 DEF Reason
<1>4. CASE seen = {}
  <2>1. "create" \notin held[f]
    BY <1>4 DEF Steady, AppearsLater
  <2> QED
    BY <1>2, <1>3, <1>4, <2>1 DEF Fits
<1>5. CASE seen # {}
  <2>1. "rename" \notin held[f] /\ "create" \notin held[f]
    BY <1>2, <1>5 DEF Steady, MovesLater, Fits
  <2> QED
    BY <1>2, <1>3, <1>5, <2>1 DEF Fits
<1> QED
  BY <1>4, <1>5

\* So it is after any step.
LEMMA AtNextEnd == BaseInv' => EndOfJournal'
BY AtEnd, PTL

-----------------------------------------------------------------------------
\* What the journal has to do with where files are

Linked(p) == p = Root \/ p \in DOMAIN fs \/ Logged(p)
RecordBefore(f, j) == \E i \in 1..(j - 1) : log[i].frn = f

\* Every file but the root's is in a directory that is there.
ParentInv == \A f \in DOMAIN fs : Linked(fs[f].parent) /\ fs[f].parent \in DOMAIN fs \cup {Root}
\* A file of which nothing has been or will be told was there before its directory.
OriginInv == \A f \in DOMAIN fs :
    ~Logged(f) /\ held[f] \cap {"create", "rename"} = {} => ~Created(fs[f].parent)
\* A record number that is not used again is that of no file once it is deleted.
OnceInv == ~world.reuse =>
    \A j \in 1..Len(log) : "delete" \in log[j].reason => log[j].frn \notin DOMAIN fs
\* The directory a record tells of is there, or its deletion has been told.
LinkInv == \A j \in 1..Len(log) : Linked(log[j].parent)
\* A file seen somewhere is there unless it moves later.
SpotInv == \A f \in Frn, k \in 0..Len(log) : \A seen :
    At(f, k, seen) /\ Steady(f, k, seen) => SpotIn(fs, f) = seen
\* What is seen in a directory when it is deleted has moved, which is told later.
GoneInv == \A j \in 1..Len(log), f \in Frn : \A n :
    "delete" \in log[j].reason /\ At(f, j, {<<log[j].frn, n>>}) => MovesLater(f, j)
\* What is seen in a directory when its creation is told moves later, unless its own
\* creation or move has been told before.
LateInv == \A j \in 1..Len(log), f \in Frn : \A n :
    /\ "create" \in log[j].reason /\ "delete" \notin log[j].reason /\ f # log[j].frn
    /\ At(f, j, {<<log[j].frn, n>>})
    => MovesLater(f, j) \/ RecordBefore(f, j)
HistoryInv == /\ ParentInv /\ OriginInv /\ OnceInv /\ LinkInv
              /\ SpotInv /\ GoneInv /\ LateInv

\* A directory that is there, or whose deletion has been told, stays so.
LEMMA LinkedStays ==
    ASSUME BaseInv, Volume, NEW p
    PROVE  /\ Linked(p) => Linked(p)'
           /\ Logged(p) => Logged(p)'
<1>1. ASSUME NEW g, NEW node, NEW reason, Changed(g, reason, node)
      PROVE  (Linked(p) => Linked(p)') /\ (Logged(p) => Logged(p)')
  <2>1. log' = log /\ DOMAIN fs \subseteq DOMAIN fs'
    BY <1>1, ChangedParts
  <2> QED
    BY <2>1 DEF Linked, Logged
<1>2. ASSUME NEW g \in Frn, NEW r, Written(g, r)
      PROVE  (Linked(p) => Linked(p)') /\ (Logged(p) => Logged(p)')
  <2>1. /\ Len(log) \in Nat /\ Len(log') = Len(log) + 1 /\ log'[Len(log) + 1] = r
        /\ r.frn = g /\ \A i \in 1..Len(log) : log'[i] = log[i]
        /\ \A h \in DOMAIN fs \ {g} : h \in DOMAIN fs'
    BY <1>2, WrittenParts
  <2>2. /\ Len(log) + 1 \in 1..Len(log')
        /\ \A i \in 1..Len(log) : i \in 1..Len(log')
    BY <2>1
  <2>3. (Logged(p) => Logged(p)') /\ (p = g => Logged(p)')
    BY <2>1, <2>2 DEF Logged
  <2> QED
    BY <2>1, <2>3 DEF Linked
<1> QED
  BY <1>1, <1>2, VolumeCases

\* Files are created in, and moved to, directories that are there, and only an empty one
\* is deleted.
LEMMA ParentStep ==
    ASSUME BaseInv, ParentInv, Volume
    PROVE  ParentInv'
<1>1. ASSUME NEW g, NEW node, NEW reason, Changed(g, reason, node),
             NEW f \in DOMAIN fs'
      PROVE  fs'[f].parent \in DOMAIN fs' \cup {Root}
  <2>1. /\ DOMAIN fs' = DOMAIN fs \cup {g} /\ fs'[g] = node /\ reason \in Reason
        /\ \A h \in DOMAIN fs \ {g} : fs'[h] = fs[h]
    BY <1>1, ChangedParts
  <2>2. CASE f # g
    BY <1>1, <2>1, <2>2 DEF ParentInv
  <2>3. CASE f = g /\ reason # "modify"
    BY <1>1, <2>1, <2>3 DEF Changed
  <2>4. CASE f = g /\ reason = "modify"
    <3>1. g \in DOMAIN fs /\ node.parent = fs[g].parent
      BY <1>1, <2>4 DEF Changed, Aspect, Seen
    <3> QED
      BY <2>1, <2>4, <3>1 DEF ParentInv
  <2> QED
    BY <2>2, <2>3, <2>4
<1>2. ASSUME NEW g \in Frn, NEW r, Written(g, r), NEW f \in DOMAIN fs'
      PROVE  fs'[f].parent \in DOMAIN fs' \cup {Root}
  <2>1. CASE fs' = fs
    BY <1>2, <2>1 DEF ParentInv
  <2>2. CASE fs' = Without(fs, g) /\ Children(fs, g) = {}
    <3>1. f \in DOMAIN fs /\ fs'[f] = fs[f] /\ DOMAIN fs' = DOMAIN fs \ {g}
      BY <1>2, <2>2 DEF Without
    <3>2. fs[f].parent # g
      BY <2>2, <3>1 DEF Children
    <3> QED
      BY <3>1, <3>2 DEF ParentInv
  <2> QED
    BY <1>2, <2>1, <2>2 DEF Written
<1>3. \A f \in DOMAIN fs' : fs'[f].parent \in DOMAIN fs' \cup {Root}
  BY <1>1, <1>2, VolumeCases
<1> QED
  BY <1>3 DEF ParentInv, Linked

\* A directory that is created has nothing in it, and what is put there is told.
LEMMA OriginStep ==
    ASSUME BaseInv, ParentInv, OriginInv, Volume
    PROVE  OriginInv'
<1> SUFFICES ASSUME NEW f \in DOMAIN fs', ~Logged(f)', held'[f] \cap {"create", "rename"} = {}
             PROVE  ~Created(fs[f].parent)'
  BY DEF OriginInv
<1>0. ~Logged(f)
  BY LinkedStays
<1>1. ASSUME NEW g, NEW node, NEW reason, Changed(g, reason, node)
      PROVE  /\ f \in DOMAIN fs /\ fs'[f].parent = fs[f].parent
             /\ held[f] \cap {"create", "rename"} = {}
  <2>1. /\ DOMAIN fs' = DOMAIN fs \cup {g} /\ fs'[g] = node /\ reason \in Reason
        /\ \A h \in DOMAIN fs \ {g} : fs'[h] = fs[h]
        /\ held'[g] = held[g] \cup {reason}
    BY <1>1, ChangedParts
  <2>2. CASE f # g
    <3>1. f \in DOMAIN fs /\ f \in Frn
      BY <2>1, <2>2, TreeFacts DEF BaseInv, TypeOK
    <3>2. held'[f] = held[f]
      BY <1>1, <2>2, <3>1, ChangedParts
    <3> QED
      BY <2>1, <2>2, <3>1, <3>2
  <2>3. CASE f = g
    <3>1. reason = "modify"
      BY <2>1, <2>3 DEF Reason
    <3>2. g \in DOMAIN fs /\ node.parent = fs[g].parent
      BY <1>1, <3>1 DEF Changed, Aspect, Seen
    <3> QED
      BY <2>1, <2>3, <3>2
  <2> QED
    BY <2>2, <2>3
<1>2. ASSUME NEW g \in Frn, NEW r, Written(g, r)
      PROVE  /\ f \in DOMAIN fs /\ fs'[f].parent = fs[f].parent
             /\ held[f] \cap {"create", "rename"} = {}
  <2>1. /\ Len(log) \in Nat /\ Len(log') = Len(log) + 1 /\ log'[Len(log) + 1] = r
        /\ r.frn = g /\ DOMAIN fs \subseteq Frn
        /\ (\A h \in Frn \ {g} : held'[h] = held[h])
        /\ \A h \in DOMAIN fs \ {g} : h \in DOMAIN fs' /\ fs'[h] = fs[h]
        /\ \A h : h \notin DOMAIN fs => h \notin DOMAIN fs'
    BY <1>2, WrittenParts, TreeFacts DEF BaseInv, TypeOK
  <2>2. Len(log) + 1 \in 1..Len(log')
    BY <2>1
  <2>3. f # g
    BY <2>1, <2>2 DEF Logged
  <2> QED
    BY <2>1, <2>3
<1>3. /\ f \in DOMAIN fs /\ fs'[f].parent = fs[f].parent
      /\ held[f] \cap {"create", "rename"} = {}
  BY <1>1, <1>2, VolumeCases
<1>4. PICK p : p = fs[f].parent
  OBVIOUS
<1>5. ~Created(p) /\ p \in DOMAIN fs \cup {Root} /\ DOMAIN fs \subseteq Frn
  BY <1>0, <1>3, <1>4, TreeFacts DEF OriginInv, ParentInv, BaseInv, TypeOK
<1>6. ~Created(p)'
  <2>1. SUFFICES ASSUME p # Root, AppearsLater(p, 0)' PROVE FALSE
    BY DEF Created
  <2>2. p \in Frn /\ p \in DOMAIN fs /\ 0 \in 0..Len(log)
    BY <1>5, <2>1, VolumeLog
  <2>3. AppearsLater(p, 0)
    BY <2>1, <2>2, NoNewCreation
  <2> QED
    BY <1>5, <2>1, <2>3 DEF Created
<1> QED
  BY <1>3, <1>4, <1>6 DEF Created, AppearsLater

\* A record number is not used again, or may be.
LEMMA OnceStep ==
    ASSUME BaseInv, OnceInv, Volume
    PROVE  OnceInv'
<1>1. ASSUME NEW g, NEW node, NEW reason, Changed(g, reason, node)
      PROVE  OnceInv'
  <2>1. /\ log' = log /\ world' = world /\ DOMAIN fs' = DOMAIN fs \cup {g}
        /\ log \in Seq(JournalRecord)
    BY <1>1, ChangedParts DEF BaseInv, TypeOK
  <2>2. SUFFICES ASSUME ~world.reuse, NEW j \in 1..Len(log), "delete" \in log[j].reason
                 PROVE  log[j].frn \notin DOMAIN fs \cup {g}
    BY <2>1 DEF OnceInv
  <2>3. log[j].frn \notin DOMAIN fs
    BY <2>2 DEF OnceInv
  <2>4. CASE reason = "create"
    BY <1>1, <2>2, <2>3, <2>4 DEF Changed
  <2>5. CASE reason # "create"
    BY <1>1, <2>3, <2>5 DEF Changed
  <2> QED
    BY <2>4, <2>5
<1>2. ASSUME NEW g \in Frn, NEW r, Written(g, r)
      PROVE  OnceInv'
  <2>1. /\ Len(log) \in Nat /\ Len(log') = Len(log) + 1 /\ log'[Len(log) + 1] = r
        /\ r.frn = g /\ world' = world /\ held[g] \in SUBSET Reason
        /\ \A i \in 1..Len(log) : log'[i] = log[i]
        /\ \A h : h \notin DOMAIN fs => h \notin DOMAIN fs'
    BY <1>2, WrittenParts
  <2>2. SUFFICES ASSUME ~world.reuse, NEW j \in 1..Len(log'), "delete" \in log'[j].reason
                 PROVE  log'[j].frn \notin DOMAIN fs'
    BY <2>1 DEF OnceInv
  <2>3. CASE j \in 1..Len(log)
    BY <2>1, <2>2, <2>3 DEF OnceInv
  <2>4. CASE j = Len(log) + 1
    <3>1. "delete" \notin held[g]
      BY <2>1 DEF Reason
    <3>2. fs' = Without(fs, g)
      BY <1>2, <2>1, <2>2, <2>4, <3>1 DEF Written
    <3> QED
      BY <2>1, <2>4, <3>2 DEF Without
  <2> QED
    BY <2>1, <2>3, <2>4
<1> QED
  BY <1>1, <1>2, VolumeCases

\* A record tells of a directory that is there when it is written.
LEMMA LinkStep ==
    ASSUME BaseInv, ParentInv, LinkInv, Volume
    PROVE  LinkInv'
<1>1. ASSUME NEW j \in 1..Len(log), log'[j] = log[j]
      PROVE  Linked(log[j].parent)'
  <2>1. PICK p : p = log[j].parent
    OBVIOUS
  <2>2. Linked(p)'
    BY <2>1, LinkedStays DEF LinkInv
  <2> QED
    BY <1>1, <2>1, <2>2 DEF Linked, Logged
<1>2. ASSUME NEW g, NEW node, NEW reason, Changed(g, reason, node)
      PROVE  LinkInv'
  <2>1. log' = log
    BY <1>2, ChangedParts
  <2> QED
    BY <1>1, <2>1 DEF LinkInv
<1>3. ASSUME NEW g \in Frn, NEW r, Written(g, r)
      PROVE  LinkInv'
  <2>1. /\ Len(log) \in Nat /\ Len(log') = Len(log) + 1 /\ log'[Len(log) + 1] = r
        /\ g \in DOMAIN fs /\ \A i \in 1..Len(log) : log'[i] = log[i]
    BY <1>3, WrittenParts
  <2>2. ASSUME NEW j \in 1..Len(log')
        PROVE  Linked(log[j].parent)'
    <3>1. CASE j \in 1..Len(log)
      BY <1>1, <2>1, <3>1
    <3>2. CASE j = Len(log) + 1
      <4>1. r.parent = fs[g].parent
        BY <1>3 DEF Written, Aspect, Seen
      <4>2. PICK p : p = r.parent
        OBVIOUS
      <4>3. Linked(p)'
        BY <2>1, <4>1, <4>2, LinkedStays DEF ParentInv
      <4> QED
        BY <2>1, <3>2, <4>2, <4>3 DEF Linked, Logged
    <3> QED
      BY <2>1, <2>2, <3>1, <3>2
  <2> QED
    BY <2>2 DEF LinkInv
<1> QED
  BY <1>2, <1>3, VolumeCases

\* A file that is neither renamed nor created nor deleted stays where it is.
LEMMA SpotStays ==
    ASSUME BaseInv, Volume, NEW f \in Frn, NEW k \in 0..Len(log), NEW seen,
           SpotIn(fs, f) = seen, Steady(f, k, seen)'
    PROVE  SpotIn(fs', f) = seen
<1>1. ASSUME NEW g, NEW node, NEW reason, Changed(g, reason, node)
      PROVE  SpotIn(fs', f) = seen
  <2>1. /\ held'[g] = held[g] \cup {reason} /\ reason \in Reason
        /\ DOMAIN fs' = DOMAIN fs \cup {g} /\ fs'[g] = node
        /\ \A h \in DOMAIN fs \ {g} : fs'[h] = fs[h]
    BY <1>1, ChangedParts
  <2>2. CASE f # g
    BY <2>1, <2>2 DEF SpotIn, Look
  <2>3. CASE f = g
    <3>1. reason = "create" <=> f \notin DOMAIN fs
      BY <1>1, <2>3 DEF Changed
    <3>2. seen # {}
      <4>1. SUFFICES ASSUME seen = {} PROVE FALSE
        OBVIOUS
      <4>2. f \notin DOMAIN fs
        BY <4>1 DEF SpotIn, Look
      <4> QED
        BY <2>1, <2>3, <3>1, <4>1, <4>2 DEF Steady, AppearsLater
    <3>3. f \in DOMAIN fs
      BY <3>2 DEF SpotIn, Look
    <3>4. reason = "modify"
      BY <2>1, <2>3, <3>1, <3>2, <3>3 DEF Steady, MovesLater, Reason
    <3>5. Seen(node, "rename") = Seen(fs[f], "rename")
      BY <1>1, <2>3, <3>4 DEF Changed, Aspect
    <3> QED
      BY <2>1, <2>3, <3>3, <3>5 DEF SpotIn, Look
  <2> QED
    BY <2>2, <2>3
<1>2. ASSUME NEW g \in Frn, NEW r, Written(g, r)
      PROVE  SpotIn(fs', f) = seen
  <2>1. /\ Len(log) \in Nat /\ Len(log') = Len(log) + 1 /\ log'[Len(log) + 1] = r
        /\ r.frn = g /\ g \in DOMAIN fs
        /\ \A h \in DOMAIN fs \ {g} : h \in DOMAIN fs' /\ fs'[h] = fs[h]
        /\ \A h : h \notin DOMAIN fs => h \notin DOMAIN fs'
    BY <1>2, WrittenParts
  <2>2. CASE f # g
    BY <2>1, <2>2 DEF SpotIn, Look
  <2>3. CASE f = g
    <3>1. seen # {}
      BY <2>1, <2>3 DEF SpotIn, Look
    <3>2. Len(log) + 1 \in (k + 1)..Len(log')
      BY <2>1
    <3>3. "delete" \notin r.reason
      BY <2>1, <2>3, <3>1, <3>2 DEF Steady, MovesLater, Has
    <3>4. fs' = fs
      BY <1>2, <3>3 DEF Written
    <3> QED
      BY <3>4
  <2> QED
    BY <2>2, <2>3
<1> QED
  BY <1>1, <1>2, VolumeCases

\* The positions after a step of the volume are those before and the new record's.
LEMMA Positions ==
    ASSUME BaseInv, Volume, NEW k \in 0..Len(log'), k \notin 0..Len(log)
    PROVE  k = Len(log') /\ \E g, r : g \in Frn /\ Written(g, r) /\ log'[k] = r
<1>1. ASSUME NEW g, NEW node, NEW reason, Changed(g, reason, node)
      PROVE  FALSE
  BY <1>1, ChangedParts
<1>2. ASSUME NEW g \in Frn, NEW r, Written(g, r)
      PROVE  k = Len(log') /\ log'[k] = r
  <2>1. Len(log) \in Nat /\ Len(log') = Len(log) + 1 /\ log'[Len(log) + 1] = r
    BY <1>2, WrittenParts
  <2> QED
    BY <2>1
<1> QED
  BY <1>1, <1>2, VolumeCases

\* What the volume does to the rest of the history.
LEMMA SpotStep ==
    ASSUME BaseInv, SpotInv, Volume
    PROVE  SpotInv'
<1> SUFFICES ASSUME NEW f \in Frn, NEW k \in 0..Len(log'), NEW seen,
                    At(f, k, seen)', Steady(f, k, seen)'
             PROVE  SpotIn(fs', f) = seen
  BY DEF SpotInv, SpotIn
<1>0. BaseInv'
  BY BaseStep DEF Next
<1>1. CASE k \in 0..Len(log)
  <2>1. At(f, k, seen) /\ Steady(f, k, seen)
    BY <1>1, StepBack
  <2>2. SpotIn(fs, f) = seen
    BY <1>1, <2>1 DEF SpotInv
  <2> QED
    BY <1>1, <2>2, SpotStays
<1>2. CASE k \notin 0..Len(log)
  <2>1. k = Len(log')
    BY <1>2, Positions
  <2> QED
    BY <1>0, <2>1, AtNextEnd DEF EndOfJournal, SpotIn, At, Ready, Steady, MovesLater, AppearsLater
<1> QED
  BY <1>1, <1>2

\* What was seen in a directory that is deleted.
LEMMA GoneStep ==
    ASSUME BaseInv, GoneInv, Volume
    PROVE  GoneInv'
<1> SUFFICES ASSUME NEW j \in 1..Len(log'), NEW f \in Frn, NEW n, "delete" \in log'[j].reason,
                    At(f, j, {<<log[j].frn, n>>})', ~MovesLater(f, j)'
             PROVE  FALSE
  BY DEF GoneInv
<1>0. BaseInv' /\ log \in Seq(JournalRecord) /\ Len(log) \in Nat
  BY BaseStep DEF Next, BaseInv, TypeOK
<1>1. PICK d : d = log'[j].frn
  OBVIOUS
<1>2. At(f, j, {<<d, n>>})' /\ Steady(f, j, {<<d, n>>})'
  BY <1>1 DEF At, Ready, Steady
<1>3. CASE j \in 1..Len(log)
  <2>1. log'[j] = log[j] /\ j \in 0..Len(log)
    BY <1>3, VolumeLog
  <2>2. At(f, j, {<<d, n>>}) /\ Steady(f, j, {<<d, n>>})
    BY <1>2, <2>1, StepBack
  <2> QED
    BY <1>1, <1>3, <2>1, <2>2 DEF GoneInv, Steady
<1>4. CASE j \notin 1..Len(log)
  <2>1. j \in 0..Len(log') /\ j \notin 0..Len(log)
    BY <1>4, VolumeLog
  <2>2. PICK g, r : g \in Frn /\ j = Len(log') /\ Written(g, r) /\ log'[j] = r
    BY <2>1, Positions
  <2>3. SpotIn(fs', f) = {<<d, n>>}
    BY <1>0, <1>2, <2>2, AtNextEnd
       DEF EndOfJournal, SpotIn, At, Ready, Steady, MovesLater, AppearsLater
  <2>4. r.frn = g /\ held[g] \in SUBSET Reason
    BY <1>0, <2>2, WrittenParts
  <2>5. "delete" \notin held[g]
    BY <2>4 DEF Reason
  <2>6. fs' = Without(fs, g) /\ Children(fs, g) = {}
    BY <2>2, <2>5 DEF Written
  <2>7. f \in DOMAIN fs' /\ fs'[f].parent = g
    <3>1. d = g /\ SpotIn(fs', f) = {<<g, n>>}
      BY <1>1, <2>2, <2>3, <2>4
    <3> QED
      BY <3>1, SpotKnown
  <2> QED
    BY <2>6, <2>7 DEF Without, Children
<1> QED
  BY <1>3, <1>4

\* What is seen in a directory whose creation is told.
LEMMA LateStep ==
    ASSUME BaseInv, OriginInv, LateInv, Volume
    PROVE  LateInv'
<1> SUFFICES ASSUME NEW j \in 1..Len(log'), NEW f \in Frn, NEW n, "create" \in log'[j].reason,
                    "delete" \notin log'[j].reason, f # log'[j].frn,
                    At(f, j, {<<log[j].frn, n>>})', ~MovesLater(f, j)', ~RecordBefore(f, j)'
             PROVE  FALSE
  BY DEF LateInv
<1>0. BaseInv' /\ log \in Seq(JournalRecord) /\ Len(log) \in Nat
  BY BaseStep DEF Next, BaseInv, TypeOK
<1>1. PICK d : d = log'[j].frn
  OBVIOUS
<1>2. At(f, j, {<<d, n>>})' /\ Steady(f, j, {<<d, n>>})'
  BY <1>1 DEF At, Ready, Steady
<1>3. CASE j \in 1..Len(log)
  <2>1. /\ log'[j] = log[j] /\ j \in 0..Len(log)
        /\ \A i \in 1..(j - 1) : log'[i] = log[i]
    BY <1>3, VolumeLog
  <2>2. At(f, j, {<<d, n>>}) /\ Steady(f, j, {<<d, n>>})
    BY <1>2, <2>1, StepBack
  <2>3. ~RecordBefore(f, j)
    BY <2>1 DEF RecordBefore
  <2> QED
    BY <1>1, <1>3, <2>1, <2>2, <2>3 DEF LateInv, Steady
<1>4. CASE j \notin 1..Len(log)
  <2>1. j \in 0..Len(log') /\ j \notin 0..Len(log)
    BY <1>4, VolumeLog
  <2>2. PICK g, r : g \in Frn /\ j = Len(log') /\ Written(g, r) /\ log'[j] = r
    BY <2>1, Positions
  <2>3. /\ SpotIn(fs', f) = {<<d, n>>}
        /\ held'[f] \cap {"create", "rename"} = {}
    BY <1>0, <1>2, <2>2, AtNextEnd
       DEF EndOfJournal, SpotIn, At, Ready, Steady, MovesLater, AppearsLater
  <2>4. /\ r.frn = g /\ Len(log') = Len(log) + 1
        /\ \A i \in 1..Len(log) : log'[i] = log[i]
        /\ \A h \in Frn \ {g} : held'[h] = held[h]
    BY <1>0, <2>2, WrittenParts
  <2>5. fs' = fs /\ "create" \in held[g]
    BY <2>2 DEF Written
  <2>6. f \in DOMAIN fs /\ fs[f].parent = g /\ g # Root
    <3>1. g # Root
      BY <2>2, UsnBatchAssumption
    <3>2. d = g /\ SpotIn(fs, f) = {<<g, n>>}
      BY <1>1, <2>2, <2>3, <2>4, <2>5
    <3> QED
      BY <3>1, <3>2, SpotKnown
  <2>7. ~Logged(f)
    <3>1. \A i \in 1..Len(log) : i \in 1..(j - 1)
      BY <1>0, <2>2, <2>4
    <3> QED
      BY <2>4, <3>1 DEF Logged, RecordBefore
  <2>8. held[f] \cap {"create", "rename"} = {}
    BY <2>2, <2>3, <2>4
  <2> QED
    BY <2>5, <2>6, <2>7, <2>8 DEF OriginInv, Created, AppearsLater
<1> QED
  BY <1>3, <1>4

\* The volume keeps its history, and no other step changes it.
LEMMA HistoryStep ==
    ASSUME BaseInv, HistoryInv, [Next]_vars
    PROVE  HistoryInv'
<1>1. CASE Volume
  BY <1>1, ParentStep, OriginStep, OnceStep, LinkStep, SpotStep, GoneStep, LateStep
     DEF HistoryInv
<1>2. CASE UNCHANGED <<world, fs, held, log>>
  <2>1. (ParentInv /\ OriginInv /\ OnceInv /\ LinkInv)'
    BY <1>2 DEF HistoryInv, ParentInv, OriginInv, OnceInv, LinkInv, Linked, Logged, Created,
                AppearsLater
  <2>2. SpotInv'
    BY <1>2 DEF HistoryInv, SpotInv, At, Ready, Steady, MovesLater, AppearsLater, SpotIn
  <2>3. GoneInv'
    BY <1>2 DEF HistoryInv, GoneInv, At, Ready, MovesLater
  <2>4. LateInv'
    <3> SUFFICES ASSUME NEW j \in 1..Len(log), NEW f \in Frn, NEW n,
                        "create" \in log[j].reason, "delete" \notin log[j].reason,
                        f # log[j].frn, At(f, j, {<<log[j].frn, n>>})'
                 PROVE  MovesLater(f, j)' \/ RecordBefore(f, j)'
      BY <1>2 DEF LateInv
    <3>1. At(f, j, {<<log[j].frn, n>>})
      BY <1>2 DEF At, Ready
    <3>2. MovesLater(f, j) \/ RecordBefore(f, j)
      BY <3>1 DEF HistoryInv, LateInv
    <3> QED
      BY <1>2, <3>2 DEF MovesLater, RecordBefore
  <2> QED
    BY <2>1, <2>2, <2>3, <2>4 DEF HistoryInv
<1>3. CASE Program \/ UNCHANGED vars
  <2>1. UNCHANGED <<world, fs, held, log>>
    <3>1. UNCHANGED core => UNCHANGED <<world, fs, held, log>>
      BY DEF core
    <3> QED
      BY <1>3, <3>1, PathSteps, BatchSteps, ApplySteps, CommitSteps, CheckpointSteps,
         SaveSteps, RestartSteps DEF Program, BaseInv
  <2> QED
    BY <1>2, <2>1
<1> QED
  BY <1>1, <1>3 DEF Next

\* The history of a drive that has been indexed and saved is empty.
LEMMA HistoryInit ==
    ASSUME Init
    PROVE  HistoryInv
<1>1. /\ log \in Seq(JournalRecord) /\ Len(log) = 0 /\ \A f \in Frn : held[f] = {}
      /\ WellFormed(fs)
  BY DEF Init
<1>2. ParentInv
  BY <1>1 DEF WellFormed, ParentInv, Linked
<1>3. ASSUME NEW f \in DOMAIN fs
      PROVE  ~Created(fs[f].parent)
  <2>1. fs[f].parent \in Frn \cup {Root}
    BY <1>1, TypeInit, TreeFacts DEF WellFormed, TypeOK
  <2> QED
    BY <1>1, <2>1 DEF Created, AppearsLater
<1>4. OriginInv /\ OnceInv /\ LinkInv /\ GoneInv /\ LateInv
  BY <1>1, <1>3 DEF OriginInv, OnceInv, LinkInv, GoneInv, LateInv
<1>5. SpotInv
  <2> SUFFICES ASSUME NEW f \in Frn, NEW k \in 0..Len(log), NEW seen, At(f, k, seen)
               PROVE  SpotIn(fs, f) = seen
    BY DEF SpotInv
  <2>1. Fits(seen, held[f], SpotIn(fs, f), "rename")
    <3>1. k = Len(log)
      BY <1>1
    <3> QED
      BY <1>1, <3>1, LastRecord DEF At, Ready, SpotIn
  <2> QED
    BY <1>1, <2>1 DEF Fits
<1> QED
  BY <1>2, <1>4, <1>5 DEF HistoryInv

-----------------------------------------------------------------------------
\* What a record does to the paths

\* The file's entry has its path, and so has what is written to its row.
Fresh(f) == /\ f \in DOMAIN column' /\ column'[f] = resolve_path(mem', f)
            /\ f \in DOMAIN cached' /\ cached'[f] = resolve_path(mem', f)

\* Paths of other files are kept or forgotten.
KeepsPaths(f) ==
    /\ \A g \in DOMAIN cached' \ {f} : g \in DOMAIN cached /\ cached'[g] = cached[g]
    /\ \A g \in DOMAIN column' \ {f} : g \in DOMAIN column /\ column'[g] = column[g]
    /\ DOMAIN column \subseteq DOMAIN column'

DeletesPath(r) == /\ Deletes(r) /\ KeepsPaths(r.frn)
                  /\ r.frn \in DOMAIN mem => r.frn \in todo'.gone
InsertsPath(r) == Inserts(r) /\ KeepsPaths(r.frn) /\ Fresh(r.frn)
RenamesPath(r) == /\ Renames(r) /\ KeepsPaths(r.frn) /\ Fresh(r.frn)
                  /\ \A g \in DOMAIN cached' \ {r.frn} :
                        r.frn \in Dirs => g \notin Descendants(mem', r.frn)
ModifiesPath(r) == Modifies(r) /\ cached' = cached /\ column' = column

\* One of five things happens for a record.
LEMMA PathCases ==
    ASSUME TypeOK, NEW r, ApplyRecord(r)
    PROVE  \/ "delete" \in r.reason /\ DeletesPath(r)
           \/ /\ "delete" \notin r.reason /\ InsertsPath(r)
              /\ "create" \in r.reason \/ ("rename" \in r.reason /\ r.frn \notin DOMAIN mem)
           \/ /\ "delete" \notin r.reason /\ "create" \notin r.reason
              /\ "rename" \in r.reason /\ RenamesPath(r)
           \/ /\ r.reason \cap {"delete", "create", "rename"} = {} /\ ModifiesPath(r)
           \/ /\ r.reason \cap {"delete", "create", "rename"} = {}
              /\ r.frn \notin DOMAIN mem /\ UNCHANGED <<mem, todo, cached, column>>
<1> DEFINE f == r.frn
<1>1. CASE "delete" \in r.reason
  <2>1. Delete(r)
    BY <1>1 DEF ApplyRecord
  <2>2. KeepsPaths(f)
    BY <2>1 DEF Delete, KeepsPaths, entries, Without
  <2>3. Deletes(r)
    BY <2>1 DEF Delete, Deletes, entries
  <2>4. f \in DOMAIN mem => f \in todo'.gone
    BY <2>3 DEF Deletes, TypeOK, Todo
  <2> QED
    BY <1>1, <2>2, <2>3, <2>4 DEF DeletesPath
<1>2. ASSUME Insert(r)
      PROVE  InsertsPath(r)
  <2>1. cached' = get_path(mem', Without(cached, f), {f})
    BY <1>2 DEF Insert
  <2>2. /\ f \in DOMAIN cached' /\ cached'[f] = resolve_path(mem', f)
        /\ \A g \in DOMAIN cached' \ {f} : g \in DOMAIN cached /\ cached'[g] = cached[g]
    BY <2>1 DEF get_path, Without
  <2>3. column' = With(column, f, cached'[f])
    BY <1>2 DEF Insert
  <2>4. /\ f \in DOMAIN column' /\ column'[f] = cached'[f]
        /\ DOMAIN column' = DOMAIN column \cup {f}
        /\ \A g \in DOMAIN column' \ {f} : column'[g] = column[g]
    BY <2>3 DEF With
  <2>5. Inserts(r)
    BY <1>2 DEF Insert, Inserts
  <2>6. Fresh(f) /\ KeepsPaths(f)
    BY <2>2, <2>4 DEF Fresh, KeepsPaths
  <2> QED
    BY <2>5, <2>6 DEF InsertsPath
<1>3. ASSUME Rename(r), f \in DOMAIN mem
      PROVE  RenamesPath(r)
  <2>1. PICK kept : /\ cached' = get_path(mem', kept, {f})
                    /\ kept = IF f \in Dirs
                              THEN _invalidate_subtree_paths(mem', Without(cached, f), f)
                              ELSE Without(cached, f)
    BY <1>3 DEF Rename
  <2>2. /\ \A g \in DOMAIN kept : g \in DOMAIN cached \ {f} /\ kept[g] = cached[g]
        /\ f \in Dirs => \A g \in DOMAIN kept : g \notin Descendants(mem', f)
    BY <2>1 DEF _invalidate_subtree_paths, Without
  <2>3. /\ f \in DOMAIN cached' /\ cached'[f] = resolve_path(mem', f)
        /\ \A g \in DOMAIN cached' \ {f} : g \in DOMAIN kept /\ cached'[g] = kept[g]
    BY <2>1, <2>2 DEF get_path
  <2>4. column' = With(column, f, cached'[f])
    BY <1>3 DEF Rename
  <2>5. /\ f \in DOMAIN column' /\ column'[f] = cached'[f]
        /\ DOMAIN column' = DOMAIN column \cup {f}
        /\ \A g \in DOMAIN column' \ {f} : column'[g] = column[g]
    BY <2>4 DEF With
  <2>6. Renames(r)
    BY <1>3 DEF Rename, Renames
  <2>7. Fresh(f) /\ KeepsPaths(f)
    BY <2>2, <2>3, <2>5 DEF Fresh, KeepsPaths
  <2> QED
    BY <2>2, <2>3, <2>6, <2>7 DEF RenamesPath
<1>4. ASSUME Modify(r), f \in DOMAIN mem
      PROVE  ModifiesPath(r)
  BY <1>4 DEF Modify, Modifies, ModifiesPath
<1>5. CASE "delete" \notin r.reason /\ "create" \in r.reason
  BY <1>2, <1>5 DEF ApplyRecord
<1>6. CASE "delete" \notin r.reason /\ "create" \notin r.reason /\ "rename" \in r.reason
  BY <1>2, <1>3, <1>6 DEF ApplyRecord
<1>7. CASE r.reason \cap {"delete", "create", "rename"} = {} /\ f \in DOMAIN mem
  BY <1>4, <1>7 DEF ApplyRecord
<1>8. CASE r.reason \cap {"delete", "create", "rename"} = {} /\ f \notin DOMAIN mem
  BY <1>8 DEF ApplyRecord, Ignore, entries
<1> QED
  BY <1>1, <1>5, <1>6, <1>7, <1>8

\* A record leaves all other files where they are.
LEMMA OthersAlike ==
    ASSUME TypeOK, NEW r \in JournalRecord, ApplyRecord(r)
    PROVE  /\ mem' \in Tree /\ r.frn \in Frn
           /\ AlikeBut(mem, mem', r.frn) /\ AlikeBut(mem', mem, r.frn)
           /\ Modifies(r) => \A y : Alike(mem, mem', y)
<1>1. mem \in Tree /\ mem' \in Tree /\ r.frn \in Frn /\ r.data \in Nat
  BY RecordTypes DEF TypeOK, JournalRecord
<1>2. DOMAIN mem \subseteq Frn /\ DOMAIN mem' \subseteq Frn
  BY <1>1, TreeFacts
<1>3. ASSUME NEW y, y # r.frn
      PROVE  Alike(mem, mem', y) /\ Alike(mem', mem, y)
  <2>1. CASE y \in Frn
    <3>1. (y \in DOMAIN mem' <=> y \in DOMAIN mem) /\ (y \in DOMAIN mem => mem'[y] = mem[y])
      BY <1>1, <1>3, <2>1, OtherFiles
    <3> QED
      BY <3>1 DEF Alike
  <2>2. CASE y \notin Frn
    BY <1>2, <2>2 DEF Alike
  <2> QED
    BY <2>1, <2>2
<1>4. ASSUME Modifies(r), NEW y
      PROVE  Alike(mem, mem', y)
  <2>1. CASE y = r.frn
    <3>1. /\ r.frn \in DOMAIN mem /\ DOMAIN mem' = DOMAIN mem
          /\ mem'[r.frn] = [parent |-> mem[r.frn].parent, name |-> mem[r.frn].name,
                            data |-> r.data]
      BY <1>1, <1>4, DataTree DEF Modifies
    <3> QED
      BY <2>1, <3>1 DEF Alike
  <2> QED
    BY <1>3, <2>1
<1> QED
  BY <1>1, <1>3, <1>4 DEF AlikeBut

-----------------------------------------------------------------------------
\* The paths of the entries in the first run

\* In the first run every record brings its file to its own position.
ExactInv == runs = 1 => \A f \in Frn : At(f, done, SpotIn(mem, f))

\* A record is applied to what the entries showed when it was written.
LEMMA ExactApply ==
    ASSUME BaseInv, LogInv, ExactInv, ApplyNext, runs = 1, NEW f \in Frn
    PROVE  At(f, done + 1, SpotIn(mem', f))
<1> DEFINE j == done + 1
           r == log[j]
<1>1. /\ j \in 1..Len(log) /\ r \in JournalRecord /\ ApplyRecord(r) /\ done \in Nat
      /\ log \in Seq(JournalRecord) /\ mem \in Tree /\ TypeOK
  BY NextRecord DEF BaseInv, TypeOK
<1>2. At(f, done, SpotIn(mem, f))
  BY DEF ExactInv
<1>3. CASE f # r.frn
  <2>1. SpotIn(mem', f) = SpotIn(mem, f)
    BY <1>1, <1>3, OtherFiles DEF SpotIn, Look
  <2> QED
    BY <1>1, <1>2, <1>3, <2>1, SkipRecord DEF At, Ready
<1>4. CASE f = r.frn
  <2>1. At(f, j, After(r, "rename"))
    BY <1>1, <1>4 DEF LogInv, At, Aspect
  <2>2. Fits(SpotIn(mem, f), r.reason, {Seen(r, "rename")}, "rename")
    BY <1>1, <1>2, <1>4, FirstRecord DEF At, Ready
  <2>3. SpotIn(mem', f) = After(r, "rename")
    <3>1. CASE "delete" \in r.reason /\ Deletes(r)
      BY <1>4, <3>1 DEF Deletes, SpotIn, Look, Without, After
    <3>2. CASE "delete" \notin r.reason /\ Inserts(r)
      BY <1>4, <3>2 DEF Inserts, SpotIn, Look, With, Seen, Entry, After
    <3>3. CASE "delete" \notin r.reason /\ "create" \notin r.reason /\ Renames(r)
      BY <1>4, <3>3 DEF Renames, SpotIn, Look, With, Seen, After
    <3>4. CASE r.reason \cap {"delete", "create", "rename"} = {} /\ Modifies(r)
      <4>1. SpotIn(mem', f) = SpotIn(mem, f)
        <5>1. Alike(mem, mem', f)
          BY <1>1, <3>4, OthersAlike
        <5> QED
          BY <5>1 DEF Alike, SpotIn, Look, Seen
      <4> QED
        BY <2>2, <3>4, <4>1 DEF Fits, After
    <3>5. CASE /\ r.reason \cap {"delete", "create", "rename"} = {}
               /\ f \notin DOMAIN mem /\ UNCHANGED <<mem, todo>>
      <4>1. SpotIn(mem, f) = {}
        BY <3>5 DEF SpotIn, Look
      <4> QED
        BY <2>2, <3>5, <4>1 DEF Fits
    <3> QED
      BY <1>1, <1>4, <3>1, <3>2, <3>3, <3>4, <3>5, RecordCases
  <2> QED
    BY <2>1, <2>3
<1> QED
  BY <1>3, <1>4

\* What the volume does keeps it.
LEMMA ExactVolume ==
    ASSUME BaseInv, ExactInv, Volume
    PROVE  ExactInv'
<1>1. UNCHANGED index /\ done \in 0..Len(log)
  BY VolumeLog DEF BaseInv, TypeOK, PositionInv
<1>2. runs' = runs /\ mem' = mem /\ done' = done
  BY <1>1 DEF index
<1>3. ASSUME runs = 1, NEW f \in Frn
      PROVE  Tells(log', held'[f], Look(fs', f, "rename"), f, done, SpotIn(mem, f), "rename")
  <2>1. Ready(f, done, SpotIn(mem, f), "rename")
    BY <1>3 DEF ExactInv, At
  <2> QED
    BY <1>1, <2>1, VolumeReady DEF Aspect
<1> QED
  BY <1>2, <1>3 DEF ExactInv, At, Ready, SpotIn

\* Every step keeps it.
LEMMA ExactStep ==
    ASSUME Inv, ExactInv, [Next]_vars
    PROVE  ExactInv'
<1>. BaseInv /\ LogInv /\ TypeOK
  BY DEF Inv, BaseInv
<1>1. CASE Volume
  BY <1>1, ExactVolume
<1>2. CASE ApplyNext
  <2>1. done' = done + 1 /\ UNCHANGED <<fs, held, log, runs>>
    BY <1>2, ApplySteps DEF BaseInv
  <2>2. runs = 1 => \A f \in Frn : At(f, done + 1, SpotIn(mem', f))
    BY <1>2, ExactApply
  <2> QED
    BY <2>1, <2>2 DEF ExactInv, At, Ready, SpotIn
<1>3. CASE Restart
  <2>1. runs' # 1
    BY <1>3, RestartSteps DEF TypeOK
  <2> QED
    BY <2>1 DEF ExactInv
<1>4. CASE UNCHANGED <<fs, held, log, mem, done, runs>>
  BY <1>4 DEF ExactInv, At, Ready, SpotIn
<1>5. UNCHANGED core => UNCHANGED <<fs, held, log, mem, done, runs>>
  BY DEF core
<1> QED
  BY <1>1, <1>2, <1>3, <1>4, <1>5, PathSteps, BatchSteps, CommitSteps, CheckpointSteps,
     SaveSteps DEF Next, Program

\* A record of c was followed by the creation of g.
Told(c, g) == \E i, j \in 1..Len(log) : i < j /\ log[i].frn = c /\ Has(log[j], g, "create")
\* A path may be wrong: the file, or what is above it, moves later, or a directory above
\* was told of too late.
ExcusedAt(above, f, k) == \/ \E x \in above \cup {f} : MovesLater(x, k)
                          \/ \E c \in above \cup {f}, g \in above : Told(c, g)
Excused(f) == ExcusedAt(Above(mem, f), f, done)

\* In the first run a path is the one that the entries give, or it may be wrong.
CachedInv == runs = 1 => \A f \in (DOMAIN mem \cap DOMAIN cached) \ raced :
    cached[f] = resolve_path(mem, f) \/ Excused(f)

\* A move that is still to be told is told by a record of the file.
LEMMA LaterThan ==
    ASSUME NEW k \in Nat, k + 1 \in 1..Len(log), Len(log) \in Nat, NEW x, MovesLater(x, k),
           x # log[k + 1].frn \/ log[k + 1].reason \cap {"rename", "delete"} = {}
    PROVE  MovesLater(x, k + 1)
<1>1. CASE "rename" \in held[x]
  BY <1>1 DEF MovesLater
<1>2. CASE \E i \in (k + 1)..Len(log) : Has(log[i], x, "rename") \/ Has(log[i], x, "delete")
  <2>1. PICK i \in (k + 1)..Len(log) : Has(log[i], x, "rename") \/ Has(log[i], x, "delete")
    BY <1>2
  <2>2. i # k + 1
    BY <2>1 DEF Has
  <2>3. i \in (k + 1 + 1)..Len(log)
    BY <2>1, <2>2
  <2> QED
    BY <2>1, <2>3 DEF MovesLater
<1> QED
  BY <1>1, <1>2 DEF MovesLater

\* A file that is below a child is at that child, or the child is above it.
LEMMA AtOrBelow ==
    ASSUME NEW tree, NEW c \in DOMAIN tree, NEW f, f \in Descendants(tree, c) \cup {c}
    PROVE  c \in Above(tree, f) \cup {f}
BY DEF Above

\* What the steps of the proof about a record have in common.
LEMMA ApplyFacts ==
    ASSUME BaseInv, ApplyNext
    PROVE  /\ done + 1 \in 1..Len(log) /\ log[done + 1] \in JournalRecord
           /\ ApplyRecord(log[done + 1]) /\ TypeOK
           /\ done \in Nat /\ Len(log) \in Nat /\ log \in Seq(JournalRecord)
           /\ log[done + 1].frn \in Frn /\ mem \in Tree /\ mem' \in Tree
           /\ done' = done + 1 /\ UNCHANGED <<world, fs, held, log, rows, ckpt, behind, runs>>
           /\ raced' = raced /\ UNCHANGED <<stored>>
<1>1. /\ done + 1 \in 1..Len(log) /\ log[done + 1] \in JournalRecord
      /\ ApplyRecord(log[done + 1]) /\ TypeOK
  BY NextRecord DEF BaseInv
<1>2. UNCHANGED <<world, fs, held, log, rows, ckpt, behind, runs>> /\ done' = done + 1
  BY ApplySteps DEF BaseInv
<1>3. raced' = raced /\ UNCHANGED stored
  BY DEF ApplyNext, store
<1>4. log[done + 1].frn \in Frn
  BY <1>1 DEF JournalRecord
<1>5. mem' \in Tree
  BY <1>1, RecordTypes
<1> QED
  BY <1>1, <1>2, <1>3, <1>4, <1>5 DEF TypeOK

\* A record of a file that this one is not below.
LEMMA BesideRecord ==
    ASSUME BaseInv, ApplyNext, NEW path,
           NEW f \in DOMAIN mem,
           f \notin Descendants(mem, log[done + 1].frn) \cup {log[done + 1].frn},
           path = resolve_path(mem, f) \/ Excused(f)
    PROVE  path = resolve_path(mem', f) \/ ExcusedAt(Above(mem', f), f, done + 1)
<1> DEFINE r == log[done + 1]
<1>1. AlikeBut(mem, mem', r.frn)
  BY ApplyFacts, OthersAlike
<1>2. /\ Above(mem, f) = Above(mem', f) /\ r.frn \notin Above(mem, f)
      /\ resolve_path(mem, f) = resolve_path(mem', f)
  BY <1>1, SameAbove
<1>3. ASSUME NEW x \in Above(mem, f) \cup {f}, MovesLater(x, done)
      PROVE  MovesLater(x, done + 1)
  <2>1. x # r.frn
    BY <1>2
  <2> QED
    BY <1>3, <2>1, ApplyFacts, LaterThan
<1> QED
  BY <1>2, <1>3 DEF Excused, ExcusedAt

\* What was below the file of a record is at or below what was in it.
LEMMA BelowRecord ==
    ASSUME BaseInv, ApplyNext, NEW x, x = log[done + 1].frn,
           NEW f \in Descendants(mem, x), f # x
    PROVE  \E c \in Children(mem, x) : c # x /\ f \in Descendants(mem', c) \cup {c}
<1>1. AlikeBut(mem, mem', x)
  BY ApplyFacts, OthersAlike
<1> QED
  BY <1>1, BelowChild

\* A record that moves nothing.
LEMMA NothingMoved ==
    ASSUME BaseInv, ApplyNext, NEW path, NEW f \in DOMAIN mem,
           \A y : Alike(mem, mem', y),
           \/ log[done + 1].reason \cap {"rename", "delete"} = {}
           \/ log[done + 1].frn \notin DOMAIN mem,
           path = resolve_path(mem, f) \/ Excused(f)
    PROVE  path = resolve_path(mem', f) \/ ExcusedAt(Above(mem', f), f, done + 1)
<1>1. Above(mem, f) = Above(mem', f) /\ resolve_path(mem, f) = resolve_path(mem', f)
  BY SamePlaces
<1>2. ASSUME NEW x \in Above(mem, f) \cup {f}, MovesLater(x, done)
      PROVE  MovesLater(x, done + 1)
  <2>1. x \in DOMAIN mem
    BY DEF Above
  <2> QED
    BY <1>2, <2>1, ApplyFacts, LaterThan
<1> QED
  BY <1>1, <1>2 DEF Excused, ExcusedAt

\* A record of a directory that is inserted or deleted: what the entries show in it moves
\* later, or has been told before.
LEMMA ChildMoves ==
    ASSUME BaseInv, HistoryInv, ExactInv, runs = 1, ApplyNext,
           NEW c \in Children(mem, log[done + 1].frn), c # log[done + 1].frn
    PROVE  /\ "delete" \in log[done + 1].reason => MovesLater(c, done + 1)
           /\ "create" \in log[done + 1].reason /\ "delete" \notin log[done + 1].reason =>
                  MovesLater(c, done + 1) \/ Told(c, log[done + 1].frn)
<1> DEFINE j == done + 1
           r == log[j]
<1>1. c \in DOMAIN mem /\ mem[c].parent = r.frn /\ c \in Frn
  BY ApplyFacts, TreeFacts DEF Children
<1>2. SpotIn(mem, c) = {<<r.frn, mem[c].name>>}
  BY <1>1 DEF SpotIn, Look, Seen
<1>3. At(c, done, {<<r.frn, mem[c].name>>})
  BY <1>1, <1>2 DEF ExactInv
<1>4. At(c, j, {<<r.frn, mem[c].name>>})
  BY <1>3, ApplyFacts, SkipRecord DEF At, Ready
<1>5. j \in 1..Len(log)
  BY ApplyFacts
<1>6. "delete" \in r.reason => MovesLater(c, j)
  BY <1>1, <1>4, <1>5 DEF HistoryInv, GoneInv
<1>7. ASSUME "create" \in r.reason, "delete" \notin r.reason
      PROVE  MovesLater(c, j) \/ Told(c, r.frn)
  <2>1. MovesLater(c, j) \/ RecordBefore(c, j)
    BY <1>1, <1>4, <1>5, <1>7 DEF HistoryInv, LateInv
  <2>2. ASSUME NEW i \in 1..(j - 1), log[i].frn = c
        PROVE  Told(c, r.frn)
    <3>1. i \in 1..Len(log) /\ i < j
      BY <1>5
    <3> QED
      BY <1>5, <1>7, <2>2, <3>1 DEF Told, Has
  <2> QED
    BY <2>1, <2>2 DEF RecordBefore
<1> QED
  BY <1>6, <1>7

\* A path that was right, or may be wrong, stays so when a record is applied.
LEMMA CachedApply ==
    ASSUME BaseInv, LogInv, HistoryInv, ExactInv, CachedInv, runs = 1, ApplyNext,
           NEW f \in (DOMAIN mem' \cap DOMAIN cached') \ raced
    PROVE  cached'[f] = resolve_path(mem', f) \/ ExcusedAt(Above(mem', f), f, done + 1)
<1> DEFINE r == log[done + 1]
           x == r.frn
           Good == cached'[f] = resolve_path(mem', f) \/ ExcusedAt(Above(mem', f), f, done + 1)
<1>0. /\ AlikeBut(mem, mem', x) /\ AlikeBut(mem', mem, x)
      /\ Modifies(r) => \A y : Alike(mem, mem', y)
  BY ApplyFacts, OthersAlike
<1>1. CASE Fresh(x) /\ f = x
  BY <1>1 DEF Fresh
<1>2. ASSUME f # x, KeepsPaths(x)
      PROVE  /\ f \in DOMAIN mem
             /\ cached'[f] = resolve_path(mem, f) \/ Excused(f)
             /\ f \notin Descendants(mem, x) => Good
  <2>1. f \in DOMAIN mem /\ f \in DOMAIN cached /\ cached'[f] = cached[f]
    BY <1>0, <1>2 DEF KeepsPaths, AlikeBut, Alike
  <2>2. cached'[f] = resolve_path(mem, f) \/ Excused(f)
    BY <2>1 DEF CachedInv
  <2> QED
    BY <1>2, <2>1, <2>2, BesideRecord
<1>3. ASSUME f # x, KeepsPaths(x), f \in Descendants(mem, x)
      PROVE  \E c \in Children(mem, x) :
                /\ c # x /\ c \in DOMAIN mem' /\ c \in Above(mem', f) \cup {f}
                /\ f \in Descendants(mem', c) \cup {c}
  <2>1. PICK c \in Children(mem, x) : c # x /\ f \in Descendants(mem', c) \cup {c}
    BY <1>3, BelowRecord
  <2>2. c \in DOMAIN mem'
    BY <1>0, <2>1 DEF Children, AlikeBut, Alike
  <2> QED
    BY <2>1, <2>2, AtOrBelow
<1>4. CASE "delete" \in r.reason /\ DeletesPath(r)
  <2>1. CASE x \notin DOMAIN mem
    <3>1. mem' = mem
      BY <1>4, <2>1 DEF DeletesPath, Deletes
    <3>2. f # x /\ \A y : Alike(mem, mem', y)
      BY <2>1, <3>1 DEF Alike
    <3> QED
      BY <1>2, <1>4, <2>1, <3>2, NothingMoved DEF DeletesPath
  <2>2. CASE x \in DOMAIN mem
    <3>1. f # x
      BY <1>4, <2>2 DEF DeletesPath, Deletes, Without
    <3>2. CASE f \in Descendants(mem, x)
      <4>1. PICK c \in Children(mem, x) : c # x /\ c \in Above(mem', f) \cup {f}
        BY <1>3, <1>4, <3>1, <3>2 DEF DeletesPath
      <4>2. MovesLater(c, done + 1)
        BY <1>4, <4>1, ChildMoves
      <4> QED
        BY <4>1, <4>2 DEF ExcusedAt
    <3> QED
      BY <1>2, <1>4, <3>1, <3>2 DEF DeletesPath
  <2> QED
    BY <2>1, <2>2
<1>5. CASE /\ "delete" \notin r.reason /\ InsertsPath(r)
           /\ "create" \in r.reason \/ ("rename" \in r.reason /\ x \notin DOMAIN mem)
  <2>1. "create" \in r.reason
    <3>1. SUFFICES ASSUME "create" \notin r.reason, x \notin DOMAIN mem PROVE FALSE
      BY <1>5
    <3>2. At(x, done, {})
      BY <3>1, ApplyFacts DEF ExactInv, SpotIn, Look
    <3>3. Fits({}, r.reason, {Seen(r, "rename")}, "rename")
      BY <3>2, ApplyFacts, FirstRecord DEF At, Ready
    <3> QED
      BY <1>5, <3>1, <3>3 DEF Fits
  <2>2. CASE f # x /\ f \in Descendants(mem, x)
    <3>1. PICK c \in Children(mem, x) :
             /\ c # x /\ c \in DOMAIN mem' /\ c \in Above(mem', f) \cup {f}
             /\ f \in Descendants(mem', c) \cup {c}
      BY <1>3, <1>5, <2>2 DEF InsertsPath
    <3>2. MovesLater(c, done + 1) \/ Told(c, x)
      BY <1>5, <2>1, <3>1, ChildMoves
    <3>3. x \in Above(mem', f)
      <4>1. c \in Children(mem', x)
        BY <1>0, <3>1 DEF Children, AlikeBut, Alike
      <4>2. c \in Descendants(mem', x)
        BY <4>1, Below
      <4>3. f \in Descendants(mem', x)
        BY <3>1, <4>2, BelowBelow
      <4>4. x \in DOMAIN mem'
        BY <1>5 DEF InsertsPath, Inserts, With
      <4> QED
        BY <4>3, <4>4 DEF Above
    <3> QED
      BY <3>1, <3>2, <3>3 DEF ExcusedAt
  <2> QED
    BY <1>1, <1>2, <1>5, <2>2 DEF InsertsPath
<1>6. CASE RenamesPath(r)
  <2>1. ASSUME f # x
        PROVE  f \notin Descendants(mem, x)
    <3>1. CASE x \in Dirs
      <4>1. f \notin Descendants(mem', x)
        BY <1>6, <2>1, <3>1 DEF RenamesPath
      <4>2. Descendants(mem, x) \subseteq Descendants(mem', x) \cup {x}
        BY <1>0, SameBelow
      <4> QED
        BY <2>1, <4>1, <4>2
    <3>2. CASE x \notin Dirs
      <4>1. \A g \in DOMAIN mem : mem[g].parent # x
        BY <3>2, ApplyFacts, TreeFacts, UsnBatchAssumption DEF Node
      <4>2. Children(mem, x) = {}
        BY <4>1 DEF Children
      <4>3. Descendants(mem, x) \subseteq {}
        BY <4>2, Below DEF Closed
      <4> QED
        BY <4>3
    <3> QED
      BY <3>1, <3>2
  <2> QED
    BY <1>1, <1>2, <1>6, <2>1 DEF RenamesPath
<1>7. CASE r.reason \cap {"delete", "create", "rename"} = {} /\ ModifiesPath(r)
  <2>1. \A y : Alike(mem, mem', y)
    BY <1>0, <1>7 DEF ModifiesPath
  <2>2. f \in DOMAIN mem /\ f \in DOMAIN cached /\ cached'[f] = cached[f]
    BY <1>7, <2>1 DEF ModifiesPath, Alike
  <2>3. cached'[f] = resolve_path(mem, f) \/ Excused(f)
    BY <2>2 DEF CachedInv
  <2>4. r.reason \cap {"rename", "delete"} = {}
    BY <1>7
  <2> QED
    BY <2>1, <2>2, <2>3, <2>4, NothingMoved
<1>8. CASE r.reason \cap {"delete", "create", "rename"} = {} /\ UNCHANGED <<mem, cached>>
  <2>1. (\A y : Alike(mem, mem', y)) /\ r.reason \cap {"rename", "delete"} = {}
    BY <1>8 DEF Alike
  <2>2. f \in DOMAIN mem /\ (cached'[f] = resolve_path(mem, f) \/ Excused(f))
    BY <1>8 DEF CachedInv
  <2> QED
    BY <2>1, <2>2, NothingMoved
<1> QED
  BY <1>4, <1>5, <1>6, <1>7, <1>8, ApplyFacts, PathCases

\* A path that a step gives an entry is the one it had, or the one the entries give, or a
\* search has stored another.
LEMMA OtherPaths ==
    ASSUME \/ \E n \in 1..(Len(log) - done) : _apply_usn_changes(n)
           \/ db_batch_apply \/ _persist_usn_checkpoints \/ save_cache \/ StorePath
           \/ \E f \in Frn : ShowPath(f) \/ ResolvePath(f)
    PROVE  /\ UNCHANGED <<world, fs, held, log, mem, done, runs>>
           /\ raced \subseteq raced'
           /\ \A f \in DOMAIN cached' \ raced' :
                 \/ f \in DOMAIN cached /\ cached'[f] = cached[f]
                 \/ cached'[f] = resolve_path(mem, f)
<1>1. CASE \/ \E n \in 1..(Len(log) - done) : _apply_usn_changes(n)
           \/ db_batch_apply \/ _persist_usn_checkpoints \/ \E f \in Frn : ResolvePath(f)
  BY <1>1 DEF _apply_usn_changes, db_batch_apply, _persist_usn_checkpoints, ResolvePath,
              volume, entries, batch, store
<1>2. CASE \E f \in Frn : ShowPath(f)
  <2>1. PICK f \in Frn : ShowPath(f)
    BY <1>2
  <2>2. /\ cached' = get_path(mem, cached, {f}) /\ raced' = raced
        /\ UNCHANGED <<world, fs, held, log, mem, done, runs>>
    BY <2>1 DEF ShowPath, volume, batch, store
  <2>3. \A g \in DOMAIN cached' : \/ g \in DOMAIN cached /\ cached'[g] = cached[g]
                                  \/ cached'[g] = resolve_path(mem, g)
    BY <2>2 DEF get_path
  <2> QED
    BY <2>2, <2>3
<1>3. CASE StorePath
  <2>1. PICK s \in shown :
           /\ cached' = With(cached, s.frn, s.path)
           /\ raced' = IF s.path = resolve_path(mem, s.frn) THEN raced ELSE raced \cup {s.frn}
           /\ UNCHANGED <<world, fs, held, log, mem, done, runs>>
    BY <1>3 DEF StorePath, volume, batch, store
  <2>2. \A f \in DOMAIN cached' : \/ f \in DOMAIN cached /\ cached'[f] = cached[f]
                                  \/ f = s.frn /\ cached'[f] = s.path
    BY <2>1 DEF With
  <2> QED
    BY <2>1, <2>2
<1>4. CASE save_cache
  <2>1. /\ cached' = get_path(mem, cached, DOMAIN mem) /\ raced' = raced
        /\ UNCHANGED <<world, fs, held, log, mem, done, runs>>
    BY <1>4 DEF save_cache, volume, batch
  <2>3. \A g \in DOMAIN cached' : \/ g \in DOMAIN cached /\ cached'[g] = cached[g]
                                  \/ cached'[g] = resolve_path(mem, g)
    BY <2>1 DEF get_path
  <2> QED
    BY <2>1, <2>3
<1> QED
  BY <1>1, <1>2, <1>3, <1>4

\* What was told stays told, and a path that may be wrong stays so, whatever the volume does.
LEMMA ExcusedStays ==
    ASSUME BaseInv, Volume, NEW f \in DOMAIN mem, Excused(f)
    PROVE  Excused(f)'
<1>1. mem' = mem /\ done' = done /\ done \in 0..Len(log) /\ Len(log) <= Len(log')
  BY VolumeLog DEF index, BaseInv, TypeOK, PositionInv
<1>2. Above(mem, f) \cup {f} \subseteq Frn
  BY TreeFacts DEF BaseInv, TypeOK, Above
<1>3. ASSUME NEW x \in Above(mem, f) \cup {f}, MovesLater(x, done)
      PROVE  MovesLater(x, done)'
  <2>1. PICK k \in 0..Len(log) : k = done
    BY <1>1
  <2>2. MovesLater(x, k)'
    BY <1>2, <1>3, <2>1, LaterStays
  <2> QED
    BY <1>1, <2>1, <2>2 DEF MovesLater
<1>4. ASSUME NEW c, NEW g, Told(c, g)
      PROVE  Told(c, g)'
  <2>1. PICK i \in 1..Len(log), j \in 1..Len(log) :
            i < j /\ log[i].frn = c /\ Has(log[j], g, "create")
    BY <1>4 DEF Told
  <2>2. /\ log'[i] = log[i] /\ log'[j] = log[j]
        /\ i \in 1..Len(log') /\ j \in 1..Len(log')
    BY VolumeLog
  <2> QED
    BY <2>1, <2>2 DEF Told
<1>5. CASE \E x \in Above(mem, f) \cup {f} : MovesLater(x, done)
  <2>1. \E x \in Above(mem, f) \cup {f} : MovesLater(x, done)'
    BY <1>3, <1>5
  <2> QED
    BY <1>1, <2>1 DEF Excused, ExcusedAt
<1>6. CASE \E c \in Above(mem, f) \cup {f}, g \in Above(mem, f) : Told(c, g)
  <2>1. \E c \in Above(mem, f) \cup {f}, g \in Above(mem, f) : Told(c, g)'
    BY <1>4, <1>6
  <2> QED
    BY <1>1, <2>1 DEF Excused, ExcusedAt
<1> QED
  BY <1>5, <1>6 DEF Excused, ExcusedAt

\* Every step keeps the paths of the first run.
LEMMA CachedStep ==
    ASSUME Inv, HistoryInv, ExactInv, CachedInv, [Next]_vars
    PROVE  CachedInv'
<1>. BaseInv /\ LogInv /\ TypeOK
  BY DEF Inv, BaseInv
<1>1. CASE Volume
  <2>1. UNCHANGED <<mem, done, runs>> /\ UNCHANGED <<cached, raced>>
    BY <1>1 DEF Volume, Create, Move, Write, Change, Close, DeleteAndClose, entries, batch, store
  <2>2. \A f \in DOMAIN mem : Excused(f) => Excused(f)'
    BY <1>1, ExcusedStays
  <2> QED
    BY <2>1, <2>2 DEF CachedInv
<1>2. CASE ApplyNext
  <2>1. done' = done + 1 /\ UNCHANGED <<held, log, runs, raced>>
    BY <1>2, ApplyFacts
  <2>2. runs = 1 => \A f \in (DOMAIN mem' \cap DOMAIN cached') \ raced :
           cached'[f] = resolve_path(mem', f) \/ ExcusedAt(Above(mem', f), f, done + 1)
    BY <1>2, CachedApply
  <2>3. \A above, f, k : ExcusedAt(above, f, k)' <=> ExcusedAt(above, f, k)
    BY <2>1 DEF ExcusedAt, MovesLater, Told
  <2> QED
    BY <2>1, <2>2, <2>3 DEF CachedInv, Excused
<1>3. CASE Restart
  <2>1. runs' # 1
    BY <1>3, RestartSteps DEF TypeOK
  <2> QED
    BY <2>1 DEF CachedInv
<1>4. ASSUME UNCHANGED <<world, fs, held, log, mem, done, runs>>, raced \subseteq raced',
             \A f \in DOMAIN cached' \ raced' :
                 \/ f \in DOMAIN cached /\ cached'[f] = cached[f]
                 \/ cached'[f] = resolve_path(mem, f)
      PROVE  CachedInv'
  <2>1. \A f : Excused(f)' <=> Excused(f)
    BY <1>4 DEF Excused, ExcusedAt, MovesLater, Told
  <2> QED
    BY <1>4, <2>1 DEF CachedInv
<1>5. CASE UNCHANGED vars
  BY <1>4, <1>5 DEF vars, volume, entries, batch, store
<1> QED
  BY <1>1, <1>2, <1>3, <1>4, <1>5, OtherPaths DEF Next, Program

\* The index of a drive that has been indexed and saved is exact.
LEMMA PathsInit ==
    ASSUME Init
    PROVE  ExactInv /\ CachedInv
<1>1. /\ mem = fs /\ cached = get_path(mem, NoPaths, DOMAIN mem) /\ done = 0
      /\ log \in Seq(JournalRecord) /\ Len(log) = 0 /\ \A f \in Frn : held[f] = {}
  BY DEF Init
<1>2. ASSUME NEW f \in Frn
      PROVE  At(f, done, SpotIn(mem, f))
  <2>1. Fits(SpotIn(mem, f), held[f], SpotIn(fs, f), "rename")
    BY <1>1 DEF Fits
  <2> QED
    BY <1>1, <2>1, LastRecord DEF At, Ready, SpotIn
<1>3. \A f \in DOMAIN cached : cached[f] = resolve_path(mem, f)
  BY <1>1 DEF get_path, NoPaths
<1> QED
  BY <1>2, <1>3 DEF ExactInv, CachedInv

-----------------------------------------------------------------------------
\* The paths of the rows

\* A directory and what is above it on the volume.
Ahead(p) == Above(fs, p) \cup {p}
Moved(x) == \/ "rename" \in held[x]
            \/ \E i \in 1..Len(log) : Has(log[i], x, "rename")
\* A record of c came before the one of g's creation.
Overtaken(c, g) == \E i \in 1..Len(log) : log[i].frn = c /\ AppearsLater(g, i)

\* The path of a file in the directory p may be wrong.
Unsure(f, p) ==
    /\ p # Root
    /\ \/ p \notin DOMAIN fs
       \/ \E x \in Ahead(p) : Moved(x)
       \/ \E c \in Ahead(p) \cup {f}, g \in Ahead(p) : Overtaken(c, g)

\* The path is that of a file whose node is this one and that is, but for it, on the
\* volume as it is.
Right(f, node, path) == \/ path = resolve_path(With(fs, f, node), f)
                        \/ Unsure(f, node.parent)
RightFor(tree, paths, S) == \A f \in S : Right(f, tree[f], paths[f])

KnownParents(tree) == \A f \in DOMAIN tree : Linked(tree[f].parent)
\* A file shown in a directory that the journal creates has a record up to position k,
\* and no file that is not shown was created up to there, unless it is deleted.
CutAt(tree, k) ==
    /\ \A f \in DOMAIN tree : RecordBefore(f, k + 1) \/ ~Created(tree[f].parent)
    /\ \A f \in Frn \ DOMAIN tree : \A j \in 1..k :
          Has(log[j], f, "create") => f \notin DOMAIN fs
Cut(tree, n) == \E k \in n..Len(log) : CutAt(tree, k)
Sound(tree, n) == KnownParents(tree) /\ Cut(tree, n)

\* When record numbers are not used again, the paths of the entries, those about to be
\* written to the rows, and those of the rows are right or unsure.
MemPaths == ~world.reuse /\ behind \in {0, runs} =>
    /\ Sound(mem, done)
    /\ RightFor(mem, cached, (DOMAIN mem \cap DOMAIN cached) \ raced)
    /\ RightFor(mem, column, DOMAIN mem \cap DOMAIN column)
RowPaths == ~world.reuse /\ behind = 0 =>
    /\ Sound(rows, ckpt)
    /\ RightFor(rows, stored, DOMAIN rows \ raced)
    /\ \A f \in (DOMAIN mem \cap DOMAIN rows) \ (DOMAIN column \cup todo.gone) :
          Alike(rows, mem, f)
\* An INSERT has a path to write.
Shapes == todo.ins \subseteq DOMAIN column

\* What has moved or come late stays so.
LEMMA MovedStays ==
    ASSUME BaseInv, Volume, NEW x \in Frn, Moved(x)
    PROVE  Moved(x)'
<1>1. ASSUME NEW g, NEW node, NEW reason, Changed(g, reason, node)
      PROVE  Moved(x)'
  <2>1. log' = log /\ held[x] \subseteq held'[x]
    BY <1>1, ChangedParts
  <2> QED
    BY <2>1 DEF Moved
<1>2. ASSUME NEW g \in Frn, NEW r, Written(g, r)
      PROVE  Moved(x)'
  <2>0. /\ Len(log) \in Nat /\ Len(log') = Len(log) + 1 /\ log'[Len(log) + 1] = r
        /\ r.frn = g /\ \A i \in 1..Len(log) : log'[i] = log[i]
        /\ x # g => held'[x] = held[x]
    BY <1>2, WrittenParts
  <2>1. /\ \A i \in 1..Len(log) : i \in 1..Len(log') /\ log'[i] = log[i]
        /\ Len(log) + 1 \in 1..Len(log')
    BY <2>0
  <2>2. CASE x = g
    <3>1. held[x] \subseteq r.reason
      BY <1>2, <2>2 DEF Written
    <3> QED
      BY <2>0, <2>1, <2>2, <3>1 DEF Moved, Has
  <2>3. CASE x # g
    BY <2>0, <2>1, <2>3 DEF Moved
  <2> QED
    BY <2>2, <2>3
<1> QED
  BY <1>1, <1>2, VolumeCases

\* What came late did.
LEMMA OvertakenStays ==
    ASSUME BaseInv, Volume, NEW c, NEW g \in Frn, Overtaken(c, g)
    PROVE  Overtaken(c, g)'
<1>1. PICK i \in 1..Len(log) : log[i].frn = c /\ AppearsLater(g, i)
  BY DEF Overtaken
<1>2. i \in 0..Len(log) /\ i \in 1..Len(log') /\ log'[i] = log[i]
  BY VolumeLog
<1>3. AppearsLater(g, i)'
  BY <1>1, <1>2, LaterStays
<1> QED
  BY <1>1, <1>2, <1>3 DEF Overtaken, AppearsLater

\* A directory that is there and has not moved, and what is above it, is where it was.
LEMMA AheadStays ==
    ASSUME BaseInv, ParentInv, Volume, ~world.reuse, NEW p, Linked(p), p \in DOMAIN fs',
           \A x \in Above(fs', p) \cup {p} : ~Moved(x)'
    PROVE  /\ p \in DOMAIN fs /\ Above(fs', p) = Above(fs, p)
           /\ \A x \in Above(fs, p) \cup {p} :
                 x \in DOMAIN fs /\ x \in DOMAIN fs' /\ Alike(fs, fs', x)
<1> DEFINE Goal == /\ p \in DOMAIN fs /\ Above(fs', p) = Above(fs, p)
                   /\ \A x \in Above(fs, p) \cup {p} :
                         x \in DOMAIN fs /\ x \in DOMAIN fs' /\ Alike(fs, fs', x)
<1>0. DOMAIN fs \subseteq Frn /\ Root \notin Frn
  BY TreeFacts, UsnBatchAssumption DEF BaseInv, TypeOK
<1>1. ASSUME NEW g, AlikeBut(fs', fs, g), p \notin Descendants(fs', g) \cup {g}
      PROVE  Goal
  <2>1. Above(fs', p) = Above(fs, p) /\ g \notin Above(fs', p)
    BY <1>1, SameAbove
  <2>2. \A x \in Above(fs, p) \cup {p} : x # g /\ (x \in DOMAIN fs \/ x = p)
    BY <1>1, <2>1 DEF Above
  <2> QED
    BY <1>1, <2>1, <2>2 DEF AlikeBut, Alike
<1>2. ASSUME \A y : Alike(fs', fs, y)
      PROVE  Goal
  <2>1. Above(fs', p) = Above(fs, p)
    BY <1>2, SamePlaces
  <2> QED
    BY <1>2, <2>1 DEF Above, Alike
<1>3. ASSUME NEW g, Children(fs', g) = {}
      PROVE  Descendants(fs', g) = {}
  BY <1>3, Below DEF Closed
<1>4. ASSUME NEW g, NEW node, NEW reason, Changed(g, reason, node)
      PROVE  Goal
  <2>0. /\ g \in Frn /\ reason \in Reason /\ log' = log
        /\ held'[g] = held[g] \cup {reason}
        /\ DOMAIN fs' = DOMAIN fs \cup {g} /\ fs'[g] = node
        /\ \A h \in DOMAIN fs \ {g} : fs'[h] = fs[h]
    BY <1>4, ChangedParts
  <2>1. AlikeBut(fs', fs, g)
    BY <2>0 DEF AlikeBut, Alike
  <2>2. CASE reason = "create"
    <3>1. g \notin DOMAIN fs /\ ~Logged(g) /\ node.parent \in DOMAIN fs \cup {Root}
      BY <1>4, <2>2 DEF Changed, Logged
    <3>2. p # g
      BY <1>0, <2>0, <3>1 DEF Linked
    <3>3. Children(fs', g) = {}
      BY <1>0, <2>0, <3>1 DEF Children, ParentInv
    <3> QED
      BY <1>1, <1>3, <2>1, <3>2, <3>3
  <2>3. CASE reason = "rename"
    <3>1. Moved(g)'
      BY <2>0, <2>3 DEF Moved
    <3>2. g \notin Above(fs', p) \cup {p}
      BY <3>1 DEF Moved
    <3> QED
      BY <1>1, <2>0, <2>1, <3>2 DEF Above
  <2>4. CASE reason = "modify"
    <3>1. g \in DOMAIN fs /\ Seen(node, "rename") = Seen(fs[g], "rename")
      BY <1>4, <2>4 DEF Changed, Aspect
    <3>2. \A y : Alike(fs', fs, y)
      BY <2>0, <3>1 DEF Alike, Seen
    <3> QED
      BY <1>2, <3>2
  <2> QED
    BY <2>0, <2>2, <2>3, <2>4 DEF Reason
<1>5. ASSUME NEW g \in Frn, NEW r, Written(g, r)
      PROVE  Goal
  <2>1. CASE fs' = fs
    BY <1>2, <2>1 DEF Alike
  <2>2. CASE fs' = Without(fs, g) /\ Children(fs, g) = {}
    <3>1. AlikeBut(fs', fs, g) /\ g \notin DOMAIN fs'
      BY <2>2 DEF Without, AlikeBut, Alike
    <3>2. Children(fs', g) = {}
      BY <2>2 DEF Children, Without
    <3> QED
      BY <1>1, <1>3, <3>1, <3>2
  <2> QED
    BY <1>5, <2>1, <2>2 DEF Written
<1> QED
  BY <1>4, <1>5, VolumeCases

\* A file of the root directory has the same path in two trees that show it there.
LEMMA RootLine ==
    ASSUME NEW t1, NEW t2, NEW f, f \in DOMAIN t1, f \in DOMAIN t2, Alike(t1, t2, f),
           t1[f].parent \notin DOMAIN t1 \cup DOMAIN t2
    PROVE  resolve_path(t1, f) = resolve_path(t2, f)
<1>1. Together(t1, t2, {f})
  BY DEF Together
<1> QED
  BY <1>1, SameLine

\* A path stays right, or doubtful, whatever the volume does.
LEMMA RightStays ==
    ASSUME BaseInv, ParentInv, Volume, ~world.reuse, NEW f \in Frn, NEW node \in Node,
           NEW path, Linked(node.parent), Right(f, node, path)
    PROVE  Right(f, node, path)'
<1> DEFINE p == node.parent
<1>0. DOMAIN fs \subseteq Frn /\ DOMAIN fs' \subseteq Frn /\ Root \notin Frn
  <2>1. BaseInv'
    BY BaseStep DEF Next
  <2> QED
    BY <2>1, TreeFacts, UsnBatchAssumption DEF BaseInv, TypeOK
<1>1. SUFFICES ASSUME ~Unsure(f, p)'
               PROVE  path = resolve_path(With(fs', f, node), f)
  BY DEF Right
<1>2. CASE p = Root
  <2>1. ~Unsure(f, p)
    BY <1>2 DEF Unsure
  <2>2. path = resolve_path(With(fs, f, node), f)
    BY <2>1 DEF Right
  <2>3. PICK t1, t2 : t1 = With(fs, f, node) /\ t2 = With(fs', f, node)
    OBVIOUS
  <2>4. /\ f \in DOMAIN t1 /\ f \in DOMAIN t2 /\ Alike(t1, t2, f)
        /\ t1[f].parent \notin DOMAIN t1 \cup DOMAIN t2
    BY <1>0, <1>2, <2>3 DEF With, Alike
  <2>5. resolve_path(t1, f) = resolve_path(t2, f)
    BY <2>4, RootLine
  <2> QED
    BY <2>2, <2>3, <2>5
<1>3. CASE p # Root
  <2>1. /\ p \in DOMAIN fs'
        /\ \A x \in Above(fs', p) \cup {p} : ~Moved(x)'
    BY <1>1, <1>3 DEF Unsure, Ahead, Moved
  <2>2. /\ p \in DOMAIN fs /\ Above(fs', p) = Above(fs, p)
        /\ \A x \in Above(fs, p) \cup {p} :
              x \in DOMAIN fs /\ x \in DOMAIN fs' /\ Alike(fs, fs', x)
    BY <2>1, AheadStays
  <2>3. ~Unsure(f, p)
    <3>1. \A x \in Ahead(p) : x \in Frn
      BY <1>0, <2>2 DEF Ahead
    <3>2. \A x \in Ahead(p) : ~Moved(x)
      BY <2>1, <2>2, <3>1, MovedStays DEF Ahead
    <3>3. ASSUME NEW c \in Ahead(p) \cup {f}, NEW g \in Ahead(p), Overtaken(c, g)
          PROVE  FALSE
      <4>1. Overtaken(c, g)'
        BY <3>1, <3>3, OvertakenStays
      <4>2. c \in Above(fs', p) \cup {p} \cup {f} /\ g \in Above(fs', p) \cup {p}
        BY <2>2, <3>3 DEF Ahead
      <4> QED
        BY <1>1, <1>3, <4>1, <4>2 DEF Unsure, Ahead, Overtaken
    <3> QED
      BY <2>2, <3>2, <3>3 DEF Unsure
  <2>4. path = resolve_path(With(fs, f, node), f)
    BY <2>3 DEF Right
  <2>a. PICK t1, t2 : t1 = With(fs, f, node) /\ t2 = With(fs', f, node)
    OBVIOUS
  <2>b. PICK W : W = {f} \cup Above(fs, p) \cup {p}
    OBVIOUS
  <2>5. ASSUME NEW x \in W
        PROVE  /\ x \in DOMAIN t1 /\ x \in DOMAIN t2 /\ Alike(t1, t2, x)
               /\ \/ t1[x].parent \in W
                  \/ t1[x].parent \notin DOMAIN t1 \cup DOMAIN t2
    <3>1. CASE x = f
      BY <2>a, <2>b, <3>1 DEF With, Alike
    <3>2. CASE x # f
      <4>1. x \in Above(fs, p) \cup {p} /\ x \in DOMAIN fs
        BY <2>2, <2>5, <2>b, <3>2
      <4>2. /\ x \in DOMAIN t1 /\ x \in DOMAIN t2 /\ Alike(t1, t2, x)
            /\ t1[x].parent = fs[x].parent
        BY <2>2, <2>a, <3>2, <4>1 DEF With, Alike
      <4>3. CASE fs[x].parent = Root
        <5>1. Root \notin DOMAIN t1 \cup DOMAIN t2
          BY <1>0, <2>a DEF With
        <5> QED
          BY <4>2, <4>3, <5>1
      <4>4. CASE fs[x].parent \in DOMAIN fs
        <5>1. fs[x].parent \in Above(fs, p)
          BY <2>2, <4>1, <4>4, AboveParent
        <5> QED
          BY <2>b, <4>2, <5>1
      <4> QED
        BY <4>1, <4>2, <4>3, <4>4 DEF ParentInv
    <3> QED
      BY <3>1, <3>2
  <2>6. f \in W /\ Together(t1, t2, W)
    BY <2>5, <2>b DEF Together
  <2>7. resolve_path(t1, f) = resolve_path(t2, f)
    BY <2>6, SameLine
  <2> QED
    BY <2>4, <2>7, <2>a
<1> QED
  BY <1>2, <1>3

\* So do the paths of a tree.
LEMMA RightVolume ==
    ASSUME BaseInv, ParentInv, Volume, ~world.reuse, NEW tree \in Tree, NEW paths,
           NEW S \in SUBSET DOMAIN tree, KnownParents(tree), RightFor(tree, paths, S)
    PROVE  RightFor(tree, paths, S)'
<1> SUFFICES ASSUME NEW f \in S PROVE Right(f, tree[f], paths[f])'
  BY DEF RightFor
<1>1. f \in Frn /\ tree[f] \in Node /\ Linked(tree[f].parent) /\ Right(f, tree[f], paths[f])
  BY TreeFacts DEF KnownParents, RightFor
<1> QED
  BY <1>1, RightStays

\* So do the tree's parents and the cut of the journal that it stands for.
LEMMA SoundVolume ==
    ASSUME BaseInv, Volume, ~world.reuse, NEW tree, NEW n \in Nat, Sound(tree, n)
    PROVE  Sound(tree, n)'
<1>1. ASSUME NEW f \in DOMAIN tree
      PROVE  Linked(tree[f].parent)'
  <2>1. PICK p : p = tree[f].parent
    OBVIOUS
  <2>2. Linked(p)'
    BY <2>1, LinkedStays DEF Sound, KnownParents
  <2> QED
    BY <2>1, <2>2
<1>2. PICK k \in n..Len(log) : CutAt(tree, k)
  BY DEF Sound, Cut
<1>3. k \in n..Len(log') /\ k \in 0..Len(log) /\ \A i \in 1..Len(log) : log'[i] = log[i]
  BY VolumeLog
<1>4. ASSUME NEW f \in DOMAIN tree
      PROVE  RecordBefore(f, k + 1)' \/ ~Created(tree[f].parent)'
  <2>1. CASE RecordBefore(f, k + 1)
    <3>1. \A i \in 1..(k + 1 - 1) : log'[i] = log[i]
      BY <1>3
    <3> QED
      BY <2>1, <3>1 DEF RecordBefore
  <2>2. CASE ~Created(tree[f].parent)
    <3>1. PICK p : p = tree[f].parent
      OBVIOUS
    <3>2. SUFFICES ASSUME Created(p)' PROVE FALSE
      BY <3>1
    <3>3. Linked(p) /\ p # Root /\ AppearsLater(p, 0)' /\ ~AppearsLater(p, 0)
      BY <2>2, <3>1, <3>2 DEF Sound, KnownParents, Created
    <3>4. p \in Frn
      <4>1. CASE p \in DOMAIN fs
        BY <4>1, TreeFacts DEF BaseInv, TypeOK
      <4>2. CASE Logged(p)
        <5>1. log \in Seq(JournalRecord)
          BY DEF BaseInv, TypeOK
        <5>2. \A i \in 1..Len(log) : log[i] \in JournalRecord
          BY <5>1
        <5> QED
          BY <4>2, <5>2 DEF Logged, JournalRecord
      <4> QED
        BY <3>3, <4>1, <4>2 DEF Linked
    <3>5. 0 \in 0..Len(log)
      BY VolumeLog
    <3>6. p \notin DOMAIN fs /\ ~Logged(p)
      BY <3>3, <3>4, <3>5, NoNewCreation
    <3> QED
      BY <3>3, <3>6 DEF Linked
  <2> QED
    BY <1>2, <2>1, <2>2 DEF CutAt
<1>5. ASSUME NEW f \in Frn \ DOMAIN tree, NEW j \in 1..k, Has(log'[j], f, "create")
      PROVE  f \notin DOMAIN fs'
  <2>1. log'[j] = log[j] /\ j \in 1..Len(log)
    BY <1>3
  <2>2. f \notin DOMAIN fs /\ Logged(f)
    BY <1>2, <1>5, <2>1 DEF CutAt, Logged, Has
  <2>3. ASSUME NEW g, NEW node, NEW reason, Changed(g, reason, node)
        PROVE  f \notin DOMAIN fs'
    <3>1. DOMAIN fs' = DOMAIN fs \cup {g}
      BY <2>3, ChangedParts
    <3>2. reason = "create" => ~Logged(g)
      BY <2>3 DEF Changed, Logged
    <3>3. reason # "create" => g \in DOMAIN fs
      BY <2>3 DEF Changed
    <3> QED
      BY <2>2, <3>1, <3>2, <3>3
  <2>4. ASSUME NEW g \in Frn, NEW r, Written(g, r)
        PROVE  f \notin DOMAIN fs'
    BY <2>2, <2>4, WrittenParts
  <2> QED
    BY <2>3, <2>4, VolumeCases
<1>6. CutAt(tree, k)'
  BY <1>4, <1>5 DEF CutAt
<1> QED
  BY <1>1, <1>3, <1>6 DEF Sound, KnownParents, Cut

\* The file has a place that the journal still has to tell of, before or after position k.
LEMMA Placed ==
    ASSUME Inv, HistoryInv, ~world.reuse, NEW tree \in Tree, NEW n \in Nat, NEW k \in n..Len(log),
           Current(tree, n), CutAt(tree, k), NEW x \in DOMAIN fs, ~Moved(x)
    PROVE  IF x \in DOMAIN tree THEN Alike(tree, fs, x)
           ELSE Created(x) /\ AppearsLater(x, k)
<1>0. /\ BaseInv /\ log \in Seq(JournalRecord) /\ Len(log) \in Nat
      /\ x \in Frn /\ x # Root
  BY TreeFacts, UsnBatchAssumption DEF Inv, BaseInv, TypeOK
<1>1. PICK m \in n..Len(log) : Ready(x, m, Look(tree, x, "rename"), "rename")
  BY <1>0 DEF Current, Aspect, Known
<1>2. m \in 0..Len(log) /\ At(x, m, SpotIn(tree, x))
  BY <1>0, <1>1 DEF At, SpotIn
<1>3. Steady(x, m, SpotIn(tree, x)) => SpotIn(fs, x) = SpotIn(tree, x)
  BY <1>0, <1>2 DEF HistoryInv, SpotInv
<1>4. CASE x \in DOMAIN tree
  <2>1. ~MovesLater(x, m)
    <3>1. \A i \in (m + 1)..Len(log) : i \in 1..Len(log)
      BY <1>0
    <3>2. \A i \in 1..Len(log) : ~Has(log[i], x, "rename") /\ ~Has(log[i], x, "delete")
      BY DEF Moved, HistoryInv, OnceInv, Has
    <3> QED
      BY <3>1, <3>2 DEF MovesLater, Moved
  <2>2. SpotIn(tree, x) = {<<tree[x].parent, tree[x].name>>}
    BY <1>4 DEF SpotIn, Look, Seen
  <2>3. SpotIn(fs, x) = {<<tree[x].parent, tree[x].name>>}
    BY <1>3, <2>1, <2>2 DEF Steady
  <2>4. PICK q, m2 : q = tree[x].parent /\ m2 = tree[x].name
    OBVIOUS
  <2>5. SpotIn(fs, x) = {<<q, m2>>}
    BY <2>3, <2>4
  <2>6. fs[x].parent = q /\ fs[x].name = m2
    BY <2>5, SpotKnown
  <2> QED
    BY <1>4, <2>4, <2>6 DEF Alike
<1>5. CASE x \notin DOMAIN tree
  <2>1. SpotIn(tree, x) = {} /\ SpotIn(fs, x) # {}
    BY <1>5 DEF SpotIn, Look
  <2>2. AppearsLater(x, m)
    BY <1>3, <2>1 DEF Steady
  <2>3. CASE "create" \in held[x]
    BY <1>0, <1>5, <2>3 DEF Created, AppearsLater
  <2>4. CASE \E i \in (m + 1)..Len(log) : Has(log[i], x, "create")
    <3>1. PICK i \in (m + 1)..Len(log) : Has(log[i], x, "create")
      BY <2>4
    <3>2. i \in 1..Len(log)
      BY <1>0, <1>2, <3>1
    <3>3. i \notin 1..k
      BY <1>0, <1>5, <3>1 DEF CutAt
    <3>4. i \in (k + 1)..Len(log) /\ i \in (0 + 1)..Len(log)
      BY <1>0, <3>2, <3>3
    <3> QED
      BY <1>0, <1>5, <3>1, <3>4 DEF Created, AppearsLater
  <2> QED
    BY <2>2, <2>3, <2>4 DEF AppearsLater
<1> QED
  BY <1>4, <1>5

\* A directory that is not shown yet: what is shown in it had a record before.
LEMMA LateDirectory ==
    ASSUME BaseInv, NEW tree, NEW n \in Nat, NEW k \in n..Len(log), CutAt(tree, k),
           NEW h \in DOMAIN tree, NEW x, x = tree[h].parent,
           Created(x), AppearsLater(x, k)
    PROVE  Overtaken(h, x)
<1>0. Len(log) \in Nat
  BY DEF BaseInv, TypeOK
<1>1. RecordBefore(h, k + 1)
  BY DEF CutAt
<1>2. PICK i \in 1..k : log[i].frn = h
  BY <1>0, <1>1 DEF RecordBefore
<1>3. i \in 1..Len(log) /\ (k + 1)..Len(log) \subseteq (i + 1)..Len(log)
  BY <1>0, <1>2
<1>4. AppearsLater(x, i)
  BY <1>3 DEF AppearsLater
<1> QED
  BY <1>2, <1>3, <1>4 DEF Overtaken

\* The path that a tree gives a file is right, or it may be wrong for a reason.
LEMMA FreshRight ==
    ASSUME Inv, HistoryInv, ~world.reuse, NEW tree \in Tree, NEW n \in Nat,
           Current(tree, n), Sound(tree, n), NEW f \in DOMAIN tree
    PROVE  Right(f, tree[f], resolve_path(tree, f))
<1> DEFINE p == tree[f].parent
           A == Ahead(p)
<1>0. /\ BaseInv /\ ParentInv /\ DOMAIN fs \subseteq Frn /\ DOMAIN tree \subseteq Frn
      /\ Root \notin Frn /\ f \in Frn
  BY TreeFacts, UsnBatchAssumption DEF Inv, BaseInv, TypeOK, HistoryInv
<1>1. PICK t2 : t2 = With(fs, f, tree[f])
  OBVIOUS
<1>2. f \in DOMAIN t2 /\ Alike(tree, t2, f) /\ DOMAIN t2 = DOMAIN fs \cup {f}
  BY <1>1 DEF With, Alike
<1>3. Root \notin DOMAIN tree \cup DOMAIN t2
  BY <1>0, <1>2
<1>4. CASE p = Root
  <2>1. resolve_path(tree, f) = resolve_path(t2, f)
    BY <1>2, <1>3, <1>4, RootLine
  <2> QED
    BY <1>1, <2>1 DEF Right
<1>5. ASSUME p # Root, ~Unsure(f, p)
      PROVE  resolve_path(tree, f) = resolve_path(t2, f)
  <2>1. /\ p \in DOMAIN fs /\ A \subseteq DOMAIN fs /\ \A x \in A : ~Moved(x)
        /\ \A c \in A \cup {f}, g \in A : ~Overtaken(c, g)
    BY <1>5 DEF Unsure, Ahead, Above
  <2>2. PICK k \in n..Len(log) : CutAt(tree, k)
    BY DEF Sound, Cut
  <2>3. ASSUME NEW x \in A
        PROVE  IF x \in DOMAIN tree THEN Alike(tree, fs, x)
               ELSE Created(x) /\ AppearsLater(x, k)
    BY <2>1, <2>2, <2>3, Placed
  <2>4. ASSUME NEW h \in DOMAIN tree, h \in A \cup {f}, NEW x \in A, x = tree[h].parent
        PROVE  x \in DOMAIN tree
    <3>1. SUFFICES ASSUME x \notin DOMAIN tree PROVE FALSE
      OBVIOUS
    <3>2. Created(x) /\ AppearsLater(x, k)
      BY <2>3, <2>4, <3>1
    <3>3. Overtaken(h, x)
      BY <1>0, <2>2, <2>4, <3>2, LateDirectory
    <3> QED
      BY <2>1, <2>4, <3>3
  <2>5. ASSUME NEW y \in A, fs[y].parent \in DOMAIN fs
        PROVE  fs[y].parent \in A
    BY <2>1, <2>5, AboveParent DEF Ahead
  <2>6. ASSUME NEW d \in A
        PROVE  d \in DOMAIN tree
    <3>1. CASE d = p
      BY <2>4, <2>6, <3>1
    <3>2. CASE d # p
      <4>1. SUFFICES ASSUME d \notin DOMAIN tree PROVE FALSE
        OBVIOUS
      <4>2. PICK S : S = {z \in DOMAIN fs : z \notin A \/ z \notin DOMAIN tree}
        OBVIOUS
      <4>3. ASSUME NEW g \in S \cup {d}, NEW y \in Children(fs, g)
            PROVE  y \in S
        <5>1. SUFFICES ASSUME y \in A, y \in DOMAIN tree PROVE FALSE
          BY <4>2, <4>3 DEF Children
        <5>2. fs[y].parent = g /\ g \in DOMAIN fs
          BY <2>1, <2>6, <4>2, <4>3 DEF Children
        <5>3. g \in A
          BY <2>5, <5>1, <5>2
        <5>4. g \notin DOMAIN tree
          BY <4>1, <4>2, <4>3, <5>3
        <5>5. tree[y].parent = g
          BY <2>3, <5>1, <5>2 DEF Alike
        <5> QED
          BY <2>4, <5>1, <5>3, <5>4, <5>5
      <4>4. Children(fs, d) \subseteq S /\ Closed(fs, S) /\ S \in SUBSET DOMAIN fs
        BY <4>2, <4>3 DEF Closed
      <4>5. p \in Descendants(fs, d)
        BY <2>6, <3>2 DEF Ahead, Above
      <4>6. p \in S
        BY <4>4, <4>5, Below
      <4> QED
        BY <3>1, <2>4, <4>2, <4>6 DEF Ahead
    <3> QED
      BY <3>1, <3>2
  <2>7. PICK W : W = {f} \cup A
    OBVIOUS
  <2>8. ASSUME NEW x \in W
        PROVE  /\ x \in DOMAIN tree /\ x \in DOMAIN t2 /\ Alike(tree, t2, x)
               /\ \/ tree[x].parent \in W
                  \/ tree[x].parent \notin DOMAIN tree \cup DOMAIN t2
    <3>1. CASE x = f
      BY <1>2, <2>7, <3>1 DEF Ahead
    <3>2. CASE x # f
      <4>1. x \in A /\ x \in DOMAIN fs /\ x \in DOMAIN tree /\ Alike(tree, fs, x)
        BY <2>1, <2>3, <2>6, <2>7, <2>8, <3>2
      <4>2. /\ x \in DOMAIN t2 /\ Alike(tree, t2, x) /\ tree[x].parent = fs[x].parent
        BY <1>1, <3>2, <4>1 DEF With, Alike
      <4>3. CASE fs[x].parent = Root
        BY <1>3, <4>1, <4>2, <4>3
      <4>4. CASE fs[x].parent \in DOMAIN fs
        BY <2>5, <2>7, <4>1, <4>2, <4>4
      <4> QED
        BY <1>0, <4>1, <4>2, <4>3, <4>4 DEF ParentInv
    <3> QED
      BY <3>1, <3>2
  <2>9. f \in W /\ Together(tree, t2, W)
    BY <2>7, <2>8 DEF Together
  <2> QED
    BY <2>9, SameLine
<1> QED
  BY <1>1, <1>4, <1>5 DEF Right

\* A record keeps the tree's parents linked and moves the cut past itself.
LEMMA SoundApply ==
    ASSUME BaseInv, HistoryInv, ~world.reuse, ApplyNext, Sound(mem, done)
    PROVE  Sound(mem', done + 1)
<1> DEFINE r == log[done + 1]
           x == r.frn
<1>0. /\ done \in Nat /\ Len(log) \in Nat /\ done + 1 \in 1..Len(log) /\ x \in Frn
      /\ TypeOK /\ ApplyRecord(r) /\ r \in JournalRecord /\ mem \in Tree
  BY ApplyFacts
<1>1. \/ "delete" \in r.reason /\ Deletes(r)
      \/ "delete" \notin r.reason /\ Inserts(r)
      \/ "delete" \notin r.reason /\ "create" \notin r.reason /\ Renames(r)
      \/ r.reason \cap {"delete", "create", "rename"} = {} /\ Modifies(r)
      \/ /\ r.reason \cap {"delete", "create", "rename"} = {}
         /\ x \notin DOMAIN mem /\ UNCHANGED <<mem, todo>>
  BY <1>0, RecordCases
<1>2. \A f \in Frn : f # x =>
         (f \in DOMAIN mem' <=> f \in DOMAIN mem) /\ (f \in DOMAIN mem => mem'[f] = mem[f])
  BY <1>0, OtherFiles
<1>3. DOMAIN mem \subseteq Frn /\ DOMAIN mem' \subseteq Frn
  BY ApplyFacts, TreeFacts
<1>4. x \in DOMAIN mem' =>
         mem'[x].parent = r.parent \/ (x \in DOMAIN mem /\ mem'[x].parent = mem[x].parent)
  <2>1. CASE Deletes(r)
    BY <2>1 DEF Deletes, Without
  <2>2. CASE Inserts(r)
    BY <2>2 DEF Inserts, With, Entry
  <2>3. CASE Renames(r)
    BY <2>3 DEF Renames, With
  <2>4. CASE Modifies(r)
    <3>1. r.data \in Nat
      BY <1>0 DEF JournalRecord
    <3>2. /\ x \in DOMAIN mem
          /\ mem'[x] = [parent |-> mem[x].parent, name |-> mem[x].name, data |-> r.data]
      BY <1>0, <2>4, <3>1, DataTree DEF Modifies
    <3> QED
      BY <3>2
  <2> QED
    BY <1>1, <2>1, <2>2, <2>3, <2>4
<1>5. ASSUME x \notin DOMAIN mem'
      PROVE  "delete" \in r.reason \/ (x \notin DOMAIN mem /\ "create" \notin r.reason)
  <2>1. CASE Inserts(r)
    BY <1>5, <2>1 DEF Inserts, With
  <2>2. CASE Renames(r)
    BY <1>5, <2>2 DEF Renames, With
  <2>3. CASE Modifies(r)
    <3>1. r.data \in Nat
      BY <1>0 DEF JournalRecord
    <3> QED
      BY <1>0, <1>5, <2>3, <3>1, DataTree DEF Modifies
  <2> QED
    BY <1>1, <1>5, <2>1, <2>2, <2>3
<1>6. "delete" \in r.reason => x \notin DOMAIN fs
  BY <1>0 DEF HistoryInv, OnceInv
<1>7. KnownParents(mem')
  <2>1. Linked(r.parent)
    BY <1>0 DEF HistoryInv, LinkInv
  <2> QED
    BY <1>2, <1>3, <1>4, <2>1 DEF Sound, KnownParents
<1>8. PICK k \in done..Len(log) : CutAt(mem, k)
  BY DEF Sound, Cut
<1>9. PICK m \in (done + 1)..Len(log) : k <= m /\ (k < m => m = done + 1)
  <2>1. CASE k = done
    BY <1>0, <2>1
  <2>2. CASE k # done
    BY <1>0, <2>2
  <2> QED
    BY <2>1, <2>2
<1>10. ASSUME NEW f \in DOMAIN mem'
       PROVE  RecordBefore(f, m + 1) \/ ~Created(mem'[f].parent)
  <2>1. CASE f = x
    <3>1. done + 1 \in 1..(m + 1 - 1)
      BY <1>0, <1>9
    <3> QED
      BY <2>1, <3>1 DEF RecordBefore
  <2>2. CASE f # x
    <3>1. f \in DOMAIN mem /\ mem'[f] = mem[f]
      BY <1>2, <1>3, <2>2
    <3>2. RecordBefore(f, k + 1) \/ ~Created(mem[f].parent)
      BY <1>8, <3>1 DEF CutAt
    <3>3. 1..(k + 1 - 1) \subseteq 1..(m + 1 - 1)
      BY <1>0, <1>8, <1>9
    <3> QED
      BY <3>1, <3>2, <3>3 DEF RecordBefore
  <2> QED
    BY <2>1, <2>2
<1>11. ASSUME NEW f \in Frn \ DOMAIN mem', NEW j \in 1..m, Has(log[j], f, "create")
       PROVE  f \notin DOMAIN fs
  <2>1. CASE f = x /\ "delete" \in r.reason
    BY <1>6, <2>1
  <2>2. CASE f # x \/ "delete" \notin r.reason
    <3>1. f \notin DOMAIN mem
      BY <1>2, <1>5, <1>11, <2>2
    <3>2. j # done + 1
      BY <1>5, <1>11, <2>2 DEF Has
    <3>3. j \in 1..k
      BY <1>0, <1>8, <1>9, <3>2
    <3> QED
      BY <1>8, <1>11, <3>1, <3>3 DEF CutAt
  <2> QED
    BY <2>1, <2>2
<1>12. CutAt(mem', m)
  BY <1>10, <1>11 DEF CutAt
<1> QED
  BY <1>7, <1>12 DEF Sound, Cut

\* A node with the same parent and name has the same path.
LEMMA RightAlike ==
    ASSUME NEW f, NEW node, NEW other, NEW path, Right(f, node, path),
           other.parent = node.parent, other.name = node.name
    PROVE  Right(f, other, path)
<1>1. PICK t1, t2 : t1 = With(fs, f, node) /\ t2 = With(fs, f, other)
  OBVIOUS
<1>2. \A y : Alike(t1, t2, y)
  BY <1>1 DEF With, Alike
<1>3. resolve_path(t1, f) = resolve_path(t2, f)
  BY <1>2, SamePlaces
<1> QED
  BY <1>1, <1>3 DEF Right

\* A position serves a tree that is read from further back.
LEMMA SoundBack ==
    ASSUME NEW tree, NEW n \in Nat, NEW m \in Nat, m <= n, Len(log) \in Nat, Sound(tree, n)
    PROVE  Sound(tree, m)
<1>1. n..Len(log) \subseteq m..Len(log)
  OBVIOUS
<1> QED
  BY <1>1 DEF Sound, Cut

\* What a record does to paths that were right.
LEMMA RightApply ==
    ASSUME BaseInv, ApplyNext,
           RightFor(mem, cached, (DOMAIN mem \cap DOMAIN cached) \ raced),
           RightFor(mem, column, DOMAIN mem \cap DOMAIN column),
           \A f \in DOMAIN mem' : Right(f, mem'[f], resolve_path(mem', f))
    PROVE  /\ RightFor(mem', cached', (DOMAIN mem' \cap DOMAIN cached') \ raced)
           /\ RightFor(mem', column', DOMAIN mem' \cap DOMAIN column')
<1> DEFINE r == log[done + 1]
           x == r.frn
<1>0. /\ TypeOK /\ ApplyRecord(r) /\ r \in JournalRecord /\ mem \in Tree /\ x \in Frn
      /\ DOMAIN mem \subseteq Frn /\ DOMAIN mem' \subseteq Frn
  BY ApplyFacts, TreeFacts
<1>1. \A f \in Frn : f # x =>
         (f \in DOMAIN mem' <=> f \in DOMAIN mem) /\ (f \in DOMAIN mem => mem'[f] = mem[f])
  BY <1>0, OtherFiles
<1>2. ASSUME KeepsPaths(x), x \in DOMAIN mem' => Fresh(x)
      PROVE  /\ RightFor(mem', cached', (DOMAIN mem' \cap DOMAIN cached') \ raced)
             /\ RightFor(mem', column', DOMAIN mem' \cap DOMAIN column')
  <2>1. ASSUME NEW f \in (DOMAIN mem' \cap DOMAIN cached') \ raced
        PROVE  Right(f, mem'[f], cached'[f])
    <3>1. CASE f = x
      BY <1>2, <3>1 DEF Fresh
    <3>2. CASE f # x
      <4>1. f \in DOMAIN mem /\ mem'[f] = mem[f] /\ f \in DOMAIN cached /\ cached'[f] = cached[f]
        BY <1>0, <1>1, <1>2, <3>2 DEF KeepsPaths
      <4> QED
        BY <4>1 DEF RightFor
    <3> QED
      BY <3>1, <3>2
  <2>2. ASSUME NEW f \in DOMAIN mem' \cap DOMAIN column'
        PROVE  Right(f, mem'[f], column'[f])
    <3>1. CASE f = x
      BY <1>2, <3>1 DEF Fresh
    <3>2. CASE f # x
      <4>1. f \in DOMAIN mem /\ mem'[f] = mem[f] /\ f \in DOMAIN column /\ column'[f] = column[f]
        BY <1>0, <1>1, <1>2, <3>2 DEF KeepsPaths
      <4> QED
        BY <4>1 DEF RightFor
    <3> QED
      BY <3>1, <3>2
  <2> QED
    BY <2>1, <2>2 DEF RightFor
<1>3. ASSUME \A y : Alike(mem, mem', y), cached' = cached, column' = column
      PROVE  /\ RightFor(mem', cached', (DOMAIN mem' \cap DOMAIN cached') \ raced)
             /\ RightFor(mem', column', DOMAIN mem' \cap DOMAIN column')
  <2>1. ASSUME NEW f \in DOMAIN mem', NEW path, Right(f, mem[f], path)
        PROVE  Right(f, mem'[f], path)
    <3>1. mem'[f].parent = mem[f].parent /\ mem'[f].name = mem[f].name
      BY <1>3 DEF Alike
    <3> QED
      BY <2>1, <3>1, RightAlike
  <2>2. DOMAIN mem' = DOMAIN mem
    BY <1>3 DEF Alike
  <2> QED
    BY <1>3, <2>1, <2>2 DEF RightFor
<1>4. CASE DeletesPath(r)
  <2>1. x \notin DOMAIN mem'
    BY <1>4 DEF DeletesPath, Deletes, Without
  <2> QED
    BY <1>2, <1>4, <2>1 DEF DeletesPath
<1>5. CASE InsertsPath(r)
  BY <1>2, <1>5 DEF InsertsPath
<1>6. CASE RenamesPath(r)
  BY <1>2, <1>6 DEF RenamesPath
<1>7. CASE ModifiesPath(r)
  BY <1>0, <1>3, <1>7, OthersAlike DEF ModifiesPath
<1>8. CASE UNCHANGED <<mem, cached, column>>
  BY <1>3, <1>8 DEF Alike
<1> QED
  BY <1>0, <1>4, <1>5, <1>6, <1>7, <1>8, PathCases

\* What MemPaths and RowPaths say after a step that is not the volume's.
NextMem == ~world.reuse /\ behind' \in {0, runs'} =>
    /\ Sound(mem', done')
    /\ RightFor(mem', cached', (DOMAIN mem' \cap DOMAIN cached') \ raced')
    /\ RightFor(mem', column', DOMAIN mem' \cap DOMAIN column')
NextRow == ~world.reuse /\ behind' = 0 =>
    /\ Sound(rows', ckpt')
    /\ RightFor(rows', stored', DOMAIN rows' \ raced')
    /\ \A f \in (DOMAIN mem' \cap DOMAIN rows') \ (DOMAIN column' \cup todo'.gone) :
          Alike(rows', mem', f)

\* The volume and the journal are as they were.
LEMMA SameHistory ==
    ASSUME UNCHANGED <<world, fs, held, log>>
    PROVE  (NextMem => MemPaths') /\ (NextRow => RowPaths')
<1>1. \A tree, n : Sound(tree, n)' <=> Sound(tree, n)
  BY DEF Sound, KnownParents, Linked, Logged, Cut, CutAt, RecordBefore, Created, AppearsLater
<1>2. \A f, node, path : Right(f, node, path)' <=> Right(f, node, path)
  BY DEF Right, Unsure, Ahead, Moved, Overtaken, AppearsLater
<1>3. \A tree, paths, S : RightFor(tree, paths, S)' <=> RightFor(tree, paths, S)
  BY <1>2 DEF RightFor
<1> QED
  BY <1>1, <1>3 DEF NextMem, NextRow, MemPaths, RowPaths, Alike

\* The entries give files their paths, now.
LEMMA FreshMem ==
    ASSUME Inv, HistoryInv, MemPaths, ~world.reuse, behind \in {0, runs}
    PROVE  \A f \in DOMAIN mem : Right(f, mem[f], resolve_path(mem, f))
<1>1. mem \in Tree /\ done \in Nat /\ Current(mem, done) /\ Sound(mem, done)
  BY DEF Inv, BaseInv, TypeOK, MemInv, MemPaths
<1> QED
  BY <1>1, FreshRight

\* A step that is about neither the volume nor a record.
LEMMA MemOthers ==
    ASSUME Inv, HistoryInv, MemPaths,
           \/ \E n \in 1..(Len(log) - done) : _apply_usn_changes(n)
           \/ db_batch_apply \/ _persist_usn_checkpoints \/ save_cache \/ StorePath
           \/ \E f \in Frn : ShowPath(f) \/ ResolvePath(f)
    PROVE  NextMem
<1>1. /\ UNCHANGED <<world, fs, held, log, mem, done, runs>>
      /\ raced \subseteq raced'
      /\ \A f \in DOMAIN cached' \ raced' :
            \/ f \in DOMAIN cached /\ cached'[f] = cached[f]
            \/ cached'[f] = resolve_path(mem, f)
  BY OtherPaths
<1>2. column' = column \/ column' = NoPaths
  BY DEF _apply_usn_changes, db_batch_apply, _persist_usn_checkpoints, save_cache, StorePath,
         ShowPath, ResolvePath, batch
<1>3. behind' \in {0, runs'} => behind \in {0, runs}
  <2>1. CASE db_batch_apply
    BY <1>1, <2>1, CommitSteps DEF Inv, BaseInv
  <2>2. CASE save_cache
    BY <1>1, <2>2, SaveSteps
  <2>3. CASE behind' = behind
    BY <1>1, <2>3
  <2>4. CASE \/ \E n \in 1..(Len(log) - done) : _apply_usn_changes(n)
             \/ _persist_usn_checkpoints \/ StorePath
             \/ \E f \in Frn : ShowPath(f) \/ ResolvePath(f)
    <3>1. behind' = behind
      BY <2>4 DEF _apply_usn_changes, _persist_usn_checkpoints, StorePath, ShowPath, ResolvePath,
                  store
    <3> QED
      BY <2>3, <3>1
  <2> QED
    BY <2>1, <2>2, <2>4
<1> SUFFICES ASSUME ~world.reuse, behind \in {0, runs}
             PROVE  /\ Sound(mem, done)
                    /\ RightFor(mem, cached', (DOMAIN mem \cap DOMAIN cached') \ raced')
                    /\ RightFor(mem, column', DOMAIN mem \cap DOMAIN column')
  BY <1>1, <1>3 DEF NextMem
<1>4. RightFor(mem, cached', (DOMAIN mem \cap DOMAIN cached') \ raced')
  <2> SUFFICES ASSUME NEW f \in (DOMAIN mem \cap DOMAIN cached') \ raced'
               PROVE  Right(f, mem[f], cached'[f])
    BY DEF RightFor
  <2>1. CASE cached'[f] = resolve_path(mem, f)
    BY <2>1, FreshMem
  <2>2. CASE f \in DOMAIN cached /\ cached'[f] = cached[f]
    BY <1>1, <2>2 DEF MemPaths, RightFor
  <2> QED
    BY <1>1, <2>1, <2>2
<1>5. RightFor(mem, column', DOMAIN mem \cap DOMAIN column')
  BY <1>2 DEF MemPaths, RightFor, NoPaths
<1> QED
  BY <1>4, <1>5 DEF MemPaths

\* The transaction of a batch writes paths that are right.
LEMMA CommitPaths ==
    ASSUME Inv, MemPaths, RowPaths, Shapes, db_batch_apply
    PROVE  NextRow
<1>0. /\ BaseInv /\ TodoInv /\ ckpt \in Nat /\ done \in Nat /\ ckpt <= done /\ Len(log) \in Nat
      /\ behind \in Nat /\ runs \in Nat \ {0}
  BY DEF Inv, BaseInv, TypeOK, PositionInv
<1> SUFFICES ASSUME ~world.reuse, behind' = 0
             PROVE  /\ Sound(rows', ckpt')
                    /\ RightFor(rows', stored', DOMAIN rows' \ raced')
                    /\ \A f \in DOMAIN mem' : Alike(rows', mem', f)
  BY DEF NextRow
<1>1. rows' = mem /\ behind = 0 /\ ckpt' = ckpt /\ mem' = mem /\ raced' = raced
  <2>1. ckpt' = ckpt /\ mem' = mem /\ raced' = raced /\ behind = 0
    BY <1>0, CommitSteps DEF db_batch_apply, entries, BaseInv
  <2> QED
    BY <1>0, <2>1, CommittedRows
<1>2. Sound(mem, ckpt)
  BY <1>0, <1>1, SoundBack DEF MemPaths
<1>3. /\ rows' = [f \in RowsAfterBatch |->
                    IF f \in todo.ins \cup todo.upd THEN mem[f] ELSE rows[f]]
      /\ stored' = [f \in RowsAfterBatch |->
                      IF f \in todo.ins \cup todo.upd THEN PathColumn(f) ELSE stored[f]]
  <2>1. behind' # 0 \/ stored' = [f \in RowsAfterBatch |->
                      IF f \in todo.ins \cup todo.upd THEN PathColumn(f) ELSE stored[f]]
    BY <1>0, <1>1 DEF db_batch_apply, Loses
  <2>2. rows' = [f \in RowsAfterBatch |->
                    IF f \in todo.ins \cup todo.upd THEN mem[f] ELSE rows[f]]
    BY <1>0, CommitSteps DEF BaseInv
  <2> QED
    BY <2>1, <2>2
<1>4. ASSUME NEW f \in DOMAIN rows' \ raced'
      PROVE  Right(f, rows'[f], stored'[f])
  <2>1. f \in DOMAIN mem /\ f \in RowsAfterBatch /\ f \notin raced /\ rows'[f] = mem[f]
    BY <1>1, <1>3
  <2>2. CASE f \in todo.ins \cup todo.upd /\ f \in DOMAIN column
    <3>1. stored'[f] = column[f]
      BY <1>3, <2>1, <2>2 DEF PathColumn
    <3> QED
      BY <1>1, <2>1, <2>2, <3>1 DEF MemPaths, RightFor
  <2>3. ASSUME f \in DOMAIN rows, stored'[f] = stored[f], Alike(rows, mem, f)
        PROVE  Right(f, rows'[f], stored'[f])
    <3>1. Right(f, rows[f], stored[f])
      BY <1>1, <2>1, <2>3 DEF RowPaths, RightFor
    <3>2. mem[f].parent = rows[f].parent /\ mem[f].name = rows[f].name
      BY <2>3 DEF Alike
    <3>3. Right(f, mem[f], stored[f])
      BY <3>1, <3>2, RightAlike
    <3> QED
      BY <2>1, <2>3, <3>3
  <2>4. CASE f \in todo.ins \cup todo.upd /\ f \notin DOMAIN column
    <3>1. f \in DOMAIN rows /\ f \notin todo.gone /\ stored'[f] = stored[f]
      BY <1>3, <2>1, <2>4 DEF PathColumn, RowsAfterBatch, Shapes
    <3>2. Alike(rows, mem, f)
      BY <1>1, <2>1, <2>4, <3>1 DEF RowPaths
    <3> QED
      BY <2>3, <3>1, <3>2
  <2>5. CASE f \notin todo.ins \cup todo.upd
    <3>1. f \in DOMAIN rows /\ stored'[f] = stored[f] /\ rows[f] = mem[f]
      BY <1>3, <2>1, <2>5 DEF RowsAfterBatch
    <3> QED
      BY <2>1, <2>3, <3>1 DEF Alike
  <2> QED
    BY <2>2, <2>4, <2>5
<1> QED
  BY <1>1, <1>2, <1>4 DEF RightFor, Alike

\* Rows that a step leaves alone, or makes the entries with their paths.
LEMMA RowOthers ==
    ASSUME Inv, HistoryInv, MemPaths, RowPaths,
           \/ \E n \in 1..(Len(log) - done) : _apply_usn_changes(n)
           \/ _persist_usn_checkpoints \/ save_cache \/ StorePath
           \/ \E f \in Frn : ShowPath(f) \/ ResolvePath(f)
    PROVE  NextRow
<1>0. /\ UNCHANGED <<world, fs, held, log, mem, done, runs>> /\ raced \subseteq raced'
      /\ BaseInv /\ TodoInv /\ ckpt \in Nat
  BY OtherPaths DEF Inv, BaseInv, TypeOK
<1>1. CASE UNCHANGED <<rows, stored, ckpt, behind, column, todo>>
  BY <1>0, <1>1 DEF NextRow, RowPaths, RightFor
<1>2. CASE \/ \E n \in 1..(Len(log) - done) : _apply_usn_changes(n)
           \/ StorePath \/ \E f \in Frn : ShowPath(f) \/ ResolvePath(f)
  BY <1>1, <1>2 DEF _apply_usn_changes, StorePath, ShowPath, ResolvePath, batch, store
<1>3. CASE _persist_usn_checkpoints
  <2>1. UNCHANGED <<rows, stored, behind, column, todo>> /\ ckpt' \in {ckpt, done}
    BY <1>3, CheckpointSteps DEF _persist_usn_checkpoints
  <2>2. todo = Nothing
    BY <1>3, CheckpointSteps DEF Inv, BaseInv, PositionInv
  <2>3. ASSUME behind = 0, ~world.reuse
        PROVE  Sound(rows, ckpt')
    <3>1. rows = mem
      BY <1>0, <2>2, <2>3, RowsAreEntries
    <3> QED
      BY <2>1, <2>3, <3>1 DEF MemPaths, RowPaths
  <2> QED
    BY <1>0, <2>1, <2>3 DEF NextRow, RowPaths, RightFor
<1>4. CASE save_cache
  <2>1. /\ rows' = mem /\ stored' = cached' /\ ckpt' = done /\ raced' = raced
        /\ behind' = 0 => behind \in {0, runs}
    BY <1>4 DEF save_cache
  <2>2. NextMem
    BY <1>4, MemOthers
  <2>3. DOMAIN mem \subseteq DOMAIN cached'
    BY <1>4 DEF save_cache, get_path
  <2>4. ASSUME behind' = 0, ~world.reuse
        PROVE  Sound(mem, done) /\ RightFor(mem, cached', DOMAIN mem \ raced)
    BY <1>0, <2>1, <2>2, <2>3, <2>4 DEF NextMem, RightFor
  <2> QED
    BY <1>0, <2>1, <2>4 DEF NextRow, Alike
<1> QED
  BY <1>2, <1>3, <1>4

\* What a record does not give a path keeps its place.
LEMMA ApplyPaths ==
    ASSUME Inv, HistoryInv, MemPaths, RowPaths, Shapes, ApplyNext
    PROVE  NextMem /\ NextRow /\ Shapes'
<1> DEFINE r == log[done + 1]
           x == r.frn
<1>0. /\ BaseInv /\ LogInv /\ TypeOK /\ ApplyRecord(r) /\ r \in JournalRecord /\ mem \in Tree
      /\ mem' \in Tree /\ done \in Nat /\ done + 1 \in Nat /\ done' = done + 1
      /\ UNCHANGED <<world, fs, held, log, rows, ckpt, behind, runs>>
      /\ raced' = raced /\ UNCHANGED <<stored>>
  BY ApplyFacts DEF Inv
<1>a. x \in Frn /\ DOMAIN mem \subseteq Frn /\ DOMAIN mem' \subseteq Frn
  BY <1>0, TreeFacts DEF JournalRecord
<1>1. NextMem
  <2> SUFFICES ASSUME ~world.reuse, behind \in {0, runs}
               PROVE  /\ Sound(mem', done + 1)
                      /\ RightFor(mem', cached', (DOMAIN mem' \cap DOMAIN cached') \ raced)
                      /\ RightFor(mem', column', DOMAIN mem' \cap DOMAIN column')
    BY <1>0 DEF NextMem
  <2>1. Sound(mem', done + 1)
    BY <1>0, SoundApply DEF MemPaths
  <2>2. Current(mem', done + 1)
    BY <1>0, ApplyCurrent DEF Inv, MemInv
  <2>3. \A f \in DOMAIN mem' : Right(f, mem'[f], resolve_path(mem', f))
    BY <1>0, <2>1, <2>2, FreshRight
  <2> QED
    BY <1>0, <2>1, <2>3, RightApply DEF MemPaths
<1>2. \A f \in Frn : f # x =>
         (f \in DOMAIN mem' <=> f \in DOMAIN mem) /\ (f \in DOMAIN mem => mem'[f] = mem[f])
  BY <1>0, OtherFiles
<1>3. /\ todo.gone \subseteq todo'.gone /\ todo'.ins \subseteq todo.ins \cup {x}
      /\ DOMAIN column \subseteq DOMAIN column'
      /\ x \in todo'.ins \ todo.ins => x \in DOMAIN column'
      /\ \/ x \notin DOMAIN mem' \/ x \in DOMAIN column'
         \/ x \in DOMAIN mem /\ Alike(mem, mem', x)
  <2>0. todo \in Todo
    BY <1>0 DEF TypeOK
  <2>1. CASE DeletesPath(r)
    <3>1. CASE x \in DOMAIN mem
      <4>1. todo' = [todo EXCEPT !.gone = @ \cup {x}] /\ x \notin DOMAIN mem'
        BY <2>1, <3>1 DEF DeletesPath, Deletes, Without
      <4> QED
        BY <2>0, <2>1, <4>1 DEF DeletesPath, KeepsPaths, Todo
    <3>2. CASE x \notin DOMAIN mem
      BY <2>1, <3>2 DEF DeletesPath, Deletes, KeepsPaths
    <3> QED
      BY <3>1, <3>2
  <2>2. CASE InsertsPath(r)
    BY <2>0, <2>2 DEF InsertsPath, Inserts, KeepsPaths, Fresh, Todo
  <2>3. CASE RenamesPath(r)
    BY <2>0, <2>3 DEF RenamesPath, Renames, KeepsPaths, Fresh, Todo
  <2>4. CASE ModifiesPath(r)
    <3>1. todo' = [todo EXCEPT !.upd = @ \cup {x}] /\ column' = column /\ x \in DOMAIN mem
      BY <2>4 DEF ModifiesPath, Modifies
    <3>2. Alike(mem, mem', x)
      BY <1>0, <2>4, OthersAlike DEF ModifiesPath
    <3> QED
      BY <2>0, <3>1, <3>2 DEF Todo
  <2>5. CASE x \notin DOMAIN mem /\ UNCHANGED <<mem, todo, column>>
    BY <2>5
  <2> QED
    BY <1>0, <2>1, <2>2, <2>3, <2>4, <2>5, PathCases
<1>4. NextRow
  <2> SUFFICES ASSUME ~world.reuse, behind = 0,
                      NEW f \in (DOMAIN mem' \cap DOMAIN rows) \ (DOMAIN column' \cup todo'.gone)
               PROVE  Alike(rows, mem', f)
    BY <1>0 DEF NextRow, RowPaths
  <2>1. f \notin DOMAIN column /\ f \notin todo.gone /\ f \in Frn
    BY <1>a, <1>3
  <2>2. f \in DOMAIN mem /\ Alike(mem, mem', f)
    BY <1>2, <1>3, <2>1 DEF Alike
  <2>3. Alike(rows, mem, f)
    BY <2>1, <2>2 DEF RowPaths
  <2> QED
    BY <2>2, <2>3 DEF Alike
<1>5. Shapes'
  BY <1>3 DEF Shapes
<1> QED
  BY <1>1, <1>4, <1>5

\* A start takes the rows' paths for those of the entries.
LEMMA RestartPaths ==
    ASSUME Inv, RowPaths, Restart
    PROVE  NextMem /\ NextRow
<1>0. behind \in Nat /\ runs \in Nat /\ behind <= runs
  BY DEF Inv, BaseInv, TypeOK, PositionInv
<1>1. /\ mem' = rows /\ cached' = stored /\ column' = NoPaths /\ done' = ckpt
      /\ runs' = runs + 1 /\ UNCHANGED <<world, rows, stored, ckpt, behind, raced>>
  BY DEF Restart, volume
<1>2. behind' \in {0, runs'} => behind = 0
  BY <1>0, <1>1
<1> QED
  BY <1>1, <1>2 DEF NextMem, NextRow, RowPaths, RightFor, Alike, NoPaths

\* Every step keeps the paths of entries and rows.
LEMMA RowsStep ==
    ASSUME Inv, HistoryInv, MemPaths, RowPaths, Shapes, [Next]_vars
    PROVE  MemPaths' /\ RowPaths' /\ Shapes'
<1>. BaseInv /\ TypeOK /\ ParentInv
  BY DEF Inv, BaseInv, HistoryInv
<1>1. CASE Volume
  <2>1. /\ UNCHANGED <<mem, done, rows, ckpt, behind, runs, world, todo>>
        /\ UNCHANGED <<cached, column, stored, raced>>
    BY <1>1, VolumeLog
       DEF index, Volume, Create, Move, Write, Change, Close, DeleteAndClose, entries, batch,
           store
  <2>0. mem \in Tree /\ rows \in Tree /\ done \in Nat /\ ckpt \in Nat
    BY DEF TypeOK
  <2>2. ASSUME ~world.reuse, behind \in {0, runs}
        PROVE  /\ Sound(mem, done)'
               /\ RightFor(mem, cached, (DOMAIN mem \cap DOMAIN cached) \ raced)'
               /\ RightFor(mem, column, DOMAIN mem \cap DOMAIN column)'
    <3>1. PICK tree, n, paths, S, paths2, S2 :
             /\ tree = mem /\ n = done /\ paths = cached /\ paths2 = column
             /\ S = (DOMAIN mem \cap DOMAIN cached) \ raced
             /\ S2 = DOMAIN mem \cap DOMAIN column
      OBVIOUS
    <3>2. /\ Sound(tree, n) /\ RightFor(tree, paths, S) /\ RightFor(tree, paths2, S2)
          /\ tree \in Tree /\ n \in Nat
          /\ S \in SUBSET DOMAIN tree /\ S2 \in SUBSET DOMAIN tree
      BY <2>0, <2>2, <3>1 DEF MemPaths
    <3>3. KnownParents(tree)
      BY <3>2 DEF Sound
    <3>4. Sound(tree, n)'
      BY <1>1, <2>2, <3>2, SoundVolume
    <3>5. RightFor(tree, paths, S)' /\ RightFor(tree, paths2, S2)'
      BY <1>1, <2>2, <3>2, <3>3, RightVolume
    <3>6. /\ tree = mem' /\ n = done' /\ paths = cached' /\ paths2 = column'
          /\ S = ((DOMAIN mem \cap DOMAIN cached) \ raced)'
          /\ S2 = (DOMAIN mem \cap DOMAIN column)'
      BY <2>1, <3>1
    <3> QED
      BY <3>4, <3>5, <3>6
  <2>3. ASSUME ~world.reuse, behind = 0
        PROVE  /\ Sound(rows, ckpt)'
               /\ RightFor(rows, stored, DOMAIN rows \ raced)'
    <3>1. PICK tree, n, paths, S :
             /\ tree = rows /\ n = ckpt /\ paths = stored /\ S = DOMAIN rows \ raced
      OBVIOUS
    <3>2. /\ Sound(tree, n) /\ RightFor(tree, paths, S)
          /\ tree \in Tree /\ n \in Nat /\ S \in SUBSET DOMAIN tree
      BY <2>0, <2>3, <3>1 DEF RowPaths
    <3>3. KnownParents(tree)
      BY <3>2 DEF Sound
    <3>4. Sound(tree, n)'
      BY <1>1, <2>3, <3>2, SoundVolume
    <3>5. RightFor(tree, paths, S)'
      BY <1>1, <2>3, <3>2, <3>3, RightVolume
    <3>6. tree = rows' /\ n = ckpt' /\ paths = stored' /\ S = (DOMAIN rows \ raced)'
      BY <2>1, <3>1
    <3> QED
      BY <3>4, <3>5, <3>6
  <2> QED
    BY <2>1, <2>2, <2>3 DEF MemPaths, RowPaths, Shapes, Alike
<1>2. CASE ApplyNext
  <2>1. UNCHANGED <<world, fs, held, log>>
    BY <1>2, ApplyFacts
  <2> QED
    BY <1>2, <2>1, ApplyPaths, SameHistory
<1>3. CASE Restart
  <2>1. UNCHANGED <<world, fs, held, log>> /\ todo' = Nothing
    BY <1>3, RestartSteps
  <2> QED
    BY <1>3, <2>1, RestartPaths, SameHistory, NothingListed DEF Shapes
<1>4. CASE db_batch_apply
  <2>1. UNCHANGED <<world, fs, held, log>> /\ todo' = Nothing
    BY <1>4, CommitSteps
  <2> QED
    BY <1>4, <2>1, MemOthers, CommitPaths, SameHistory, NothingListed DEF Shapes
<1>5. CASE \/ \E n \in 1..(Len(log) - done) : _apply_usn_changes(n)
           \/ _persist_usn_checkpoints \/ save_cache \/ StorePath
           \/ \E f \in Frn : ShowPath(f) \/ ResolvePath(f)
  <2>1. UNCHANGED <<world, fs, held, log>>
    BY <1>5, OtherPaths
  <2>2. todo' = todo /\ column' = column
    BY <1>5 DEF _apply_usn_changes, _persist_usn_checkpoints, save_cache, StorePath, ShowPath,
                ResolvePath, batch
  <2>3. NextMem /\ NextRow
    BY <1>5, MemOthers, RowOthers
  <2> QED
    BY <2>1, <2>2, <2>3, SameHistory DEF Shapes
<1>6. CASE UNCHANGED vars
  <2>1. /\ UNCHANGED <<world, fs, held, log, mem, cached, done, column, todo, rows, stored,
                      ckpt, behind, raced, runs>>
    BY <1>6 DEF vars, volume, entries, batch, store
  <2>2. NextMem /\ NextRow
    BY <2>1 DEF NextMem, NextRow, MemPaths, RowPaths
  <2> QED
    BY <2>1, <2>2, SameHistory DEF Shapes
<1> QED
  BY <1>1, <1>2, <1>3, <1>4, <1>5, <1>6 DEF Next, Program

\* The paths of a drive that has been indexed and saved are those of the volume.
LEMMA RowsInit ==
    ASSUME Init
    PROVE  MemPaths /\ RowPaths /\ Shapes
<1>1. /\ mem = fs /\ rows = fs /\ stored = cached /\ column = NoPaths /\ todo = Nothing
      /\ done = 0 /\ ckpt = 0 /\ cached = get_path(fs, NoPaths, DOMAIN fs)
      /\ log \in Seq(JournalRecord) /\ Len(log) = 0
  BY DEF Init
<1>2. Inv /\ HistoryInv
  BY InvInit, HistoryInit
<1>3. fs \in Tree /\ Current(fs, 0) /\ 0 \in Nat
  <2>1. behind = 0
    BY DEF Init
  <2> QED
    BY <1>1, <1>2, <2>1 DEF Inv, BaseInv, TypeOK, MemInv
<1>4. Sound(fs, 0)
  <2>1. \A f \in DOMAIN fs : Linked(fs[f].parent) /\ ~Created(fs[f].parent)
    <3>1. \A f \in Frn : held[f] = {}
      BY DEF Init
    <3>2. \A f \in DOMAIN fs : fs[f].parent \in Frn \cup {Root}
      BY <1>3, TreeFacts, UsnBatchAssumption DEF Node
    <3> QED
      BY <1>1, <1>2, <3>1, <3>2 DEF HistoryInv, ParentInv, Created, AppearsLater
  <2>2. CutAt(fs, 0)
    BY <2>1 DEF CutAt
  <2>3. 0 \in 0..Len(log)
    BY <1>1
  <2> QED
    BY <2>1, <2>2, <2>3 DEF Sound, KnownParents, Cut
<1>5. DOMAIN cached = DOMAIN fs /\ \A f \in DOMAIN fs : cached[f] = resolve_path(fs, f)
  BY <1>1 DEF get_path, NoPaths
<1>6. ASSUME ~world.reuse
      PROVE  \A f \in DOMAIN fs : Right(f, fs[f], cached[f])
  BY <1>2, <1>3, <1>4, <1>5, <1>6, FreshRight
<1>7. MemPaths
  BY <1>1, <1>4, <1>6 DEF MemPaths, RightFor, NoPaths
<1>8. RowPaths
  BY <1>1, <1>4, <1>6 DEF RowPaths, RightFor, Alike
<1>9. Shapes
  BY <1>1, NothingListed DEF Shapes
<1> QED
  BY <1>7, <1>8, <1>9

\* All that the proof about paths keeps beside Inv.
PathInv == HistoryInv /\ ExactInv /\ CachedInv /\ MemPaths /\ RowPaths /\ Shapes

\* In the end the entries show every file where the volume has it.
LEMMA SettledPlaces ==
    ASSUME Inv, Settled, behind \in {0, runs}
    PROVE  \A f : Alike(mem, fs, f)
<1>1. DOMAIN mem \subseteq Frn /\ DOMAIN fs \subseteq Frn
  BY TreeFacts DEF Inv, BaseInv, TypeOK
<1>2. ASSUME NEW f \in Frn
      PROVE  Alike(mem, fs, f)
  <2>1. Look(mem, f, "rename") = Look(fs, f, "rename")
    BY SettledLook DEF Aspect, Known
  <2>2. f \in DOMAIN mem <=> f \in DOMAIN fs
    BY <2>1 DEF Look
  <2>3. f \in DOMAIN mem => <<mem[f].parent, mem[f].name>> = <<fs[f].parent, fs[f].name>>
    BY <2>1, <2>2 DEF Look, Seen
  <2> QED
    BY <2>2, <2>3 DEF Alike
<1> QED
  BY <1>1, <1>2 DEF Alike

\* Nothing moves or appears any more.
LEMMA SettledHistory ==
    ASSUME BaseInv, Settled, NEW x \in Frn
    PROVE  /\ ~MovesLater(x, done)
           /\ Moved(x) => Renamed(x)
           /\ \A i \in 1..Len(log) : AppearsLater(x, i) =>
                 \E j \in 1..Len(log) : i < j /\ Has(log[j], x, "create")
<1>1. held[x] = {} /\ done = Len(log) /\ Len(log) \in Nat /\ DOMAIN log = 1..Len(log)
  BY DEF Settled, BaseInv, TypeOK
<1>2. ~MovesLater(x, done)
  BY <1>1 DEF MovesLater
<1>3. Moved(x) => Renamed(x)
  BY <1>1 DEF Moved, Renamed, Has
<1>4. ASSUME NEW i \in 1..Len(log), AppearsLater(x, i)
      PROVE  \E j \in 1..Len(log) : i < j /\ Has(log[j], x, "create")
  <2>1. PICK j \in (i + 1)..Len(log) : Has(log[j], x, "create")
    BY <1>1, <1>4 DEF AppearsLater
  <2>2. j \in 1..Len(log) /\ i < j
    BY <1>1, <2>1
  <2> QED
    BY <2>1, <2>2
<1> QED
  BY <1>2, <1>3, <1>4

\* In the first run an entry's path is the file's.
LEMMA SettledCached ==
    ASSUME Inv, PathInv, Settled, runs = 1, NEW f \in (DOMAIN mem \cap DOMAIN cached) \ raced,
           ~Orphaned(f)
    PROVE  cached[f] = resolve_path(fs, f)
<1>0. BaseInv /\ behind \in {0, runs} /\ DOMAIN mem \subseteq Frn /\ DOMAIN log = 1..Len(log)
  BY TreeFacts DEF Inv, BaseInv, TypeOK, PositionInv
<1>1. resolve_path(mem, f) = resolve_path(fs, f) /\ Above(mem, f) = Above(fs, f)
  BY <1>0, SettledPlaces, SamePlaces
<1>2. SUFFICES ASSUME Excused(f) PROVE FALSE
  BY <1>1 DEF PathInv, CachedInv
<1>3. \A x \in Above(mem, f) \cup {f} : ~MovesLater(x, done)
  BY <1>0, SettledHistory DEF Above
<1>4. PICK c \in Above(mem, f) \cup {f}, g \in Above(mem, f) : Told(c, g)
  BY <1>2, <1>3 DEF Excused, ExcusedAt
<1>5. Orphaned(f)
  BY <1>0, <1>1, <1>4 DEF Orphaned, Told, Has
<1> QED
  BY <1>5

\* A row's path is the file's, unless a directory above was renamed.
LEMMA SettledStored ==
    ASSUME Inv, PathInv, Settled, stage = "idle", behind = 0, ~world.reuse,
           NEW f \in DOMAIN rows \ raced, ~Orphaned(f)
    PROVE  stored[f] = resolve_path(fs, f) \/ \E d \in Above(fs, f) : Renamed(d)
<1> DEFINE p == fs[f].parent
<1>0. /\ BaseInv /\ TodoInv /\ ParentInv /\ DOMAIN fs \subseteq Frn /\ DOMAIN log = 1..Len(log)
      /\ todo = Nothing
  BY TreeFacts DEF Inv, BaseInv, TypeOK, PositionInv, PathInv, HistoryInv
<1>1. rows = mem
  BY <1>0, RowsAreEntries
<1>2. \A y : Alike(mem, fs, y)
  BY SettledPlaces
<1>3. f \in DOMAIN fs /\ rows[f].parent = p /\ rows[f].name = fs[f].name
  BY <1>1, <1>2 DEF Alike
<1>4. Right(f, rows[f], stored[f])
  BY DEF PathInv, RowPaths, RightFor
<1>5. resolve_path(With(fs, f, rows[f]), f) = resolve_path(fs, f)
  <2>1. PICK t2 : t2 = With(fs, f, rows[f])
    OBVIOUS
  <2>2. \A y : Alike(t2, fs, y)
    BY <1>3, <2>1 DEF With, Alike
  <2> QED
    BY <2>1, <2>2, SamePlaces
<1>6. SUFFICES ASSUME Unsure(f, p) PROVE \E d \in Above(fs, f) : Renamed(d)
  BY <1>3, <1>4, <1>5 DEF Right
<1>7. p \in DOMAIN fs
  BY <1>0, <1>3, <1>6 DEF ParentInv, Unsure
<1>8. Ahead(p) \subseteq Above(fs, f)
  <2>1. p \in Above(fs, f) /\ f \in Children(fs, p)
    BY <1>3, <1>7, AboveParent DEF Children
  <2>2. ASSUME NEW d \in Above(fs, p)
        PROVE  d \in Above(fs, f)
    BY <2>1, <2>2, Below DEF Above, Closed
  <2> QED
    BY <2>1, <2>2 DEF Ahead
<1>9. \A x \in Ahead(p) : x \in Frn
  BY <1>0, <1>8 DEF Above
<1>10. CASE \E x \in Ahead(p) : Moved(x)
  BY <1>0, <1>8, <1>9, <1>10, SettledHistory
<1>11. ASSUME NEW c \in Ahead(p) \cup {f}, NEW g \in Ahead(p), Overtaken(c, g)
       PROVE  FALSE
  <2>1. PICK i \in 1..Len(log) : log[i].frn = c /\ AppearsLater(g, i)
    BY <1>11 DEF Overtaken
  <2>2. PICK j \in 1..Len(log) : i < j /\ Has(log[j], g, "create")
    BY <1>0, <1>9, <2>1, SettledHistory
  <2>3. c \in Above(fs, f) \cup {f} /\ g \in Above(fs, f)
    BY <1>8, <1>11
  <2>4. Orphaned(f)
    BY <1>0, <2>1, <2>2, <2>3 DEF Orphaned, Has
  <2> QED
    BY <2>4
<1> QED
  BY <1>6, <1>7, <1>10, <1>11 DEF Unsure

\* In the end every path that the index shows is the file's path on the volume, unless a
\* search stored one that a rename had outdated, or the record of a directory came too
\* late; so is that of its row, unless a directory above was renamed or a number used again.
THEOREM PathsAreRight == Spec => []PathsMatchVolume
<1>1. Init => Inv /\ PathInv
  BY InvInit, HistoryInit, PathsInit, RowsInit DEF PathInv
<1>2. Inv /\ PathInv /\ [Next]_vars => (Inv /\ PathInv)'
  <2> SUFFICES ASSUME Inv, PathInv, [Next]_vars
               PROVE  Inv' /\ PathInv'
    OBVIOUS
  <2>1. /\ HistoryInv /\ ExactInv /\ CachedInv /\ MemPaths /\ RowPaths /\ Shapes /\ BaseInv
    BY DEF PathInv, Inv
  <2>2. Inv'
    BY InvStep
  <2>3. HistoryInv' /\ ExactInv' /\ CachedInv'
    BY <2>1, HistoryStep, ExactStep, CachedStep
  <2>4. MemPaths' /\ RowPaths' /\ Shapes'
    BY <2>1, RowsStep
  <2> QED
    BY <2>2, <2>3, <2>4 DEF PathInv
<1>3. Inv /\ PathInv => PathsMatchVolume
  <2> SUFFICES ASSUME Inv, PathInv, Settled, NEW f \in DOMAIN fs \ raced, ~Orphaned(f)
               PROVE  /\ runs = 1 /\ f \in DOMAIN mem \cap DOMAIN cached =>
                             cached[f] = resolve_path(fs, f)
                      /\ stage = "idle" /\ behind = 0 /\ ~world.reuse /\ f \in DOMAIN rows =>
                             stored[f] = resolve_path(fs, f) \/ \E d \in Above(fs, f) : Renamed(d)
    BY DEF PathsMatchVolume
  <2> QED
    BY SettledCached, SettledStored
<1> QED
  BY <1>1, <1>2, <1>3, PTL DEF Spec
=============================================================================

--------------------------- MODULE ProfileProofs ---------------------------
(***************************************************************************)
(* Proofs about Profile for any folders, lists, records and bounds: the    *)
(* types, and that every step of the program is a step of AtomicConfig or  *)
(* leaves what AtomicConfig speaks of unchanged.  The invariant that links *)
(* the two says how far the save under way has come.                       *)
(***************************************************************************)
EXTENDS Profile, TLAPS

\* The steps of a save, in order: a copy before anything else, the whole of
\* the data in the temporary file before it takes the place of the old one.
SaveInv ==
    /\ saving = "none" <=> step = "none"
    /\ saving # "none" => up /\ data \in Content
    /\ how = "migrate" => saving = "settings"
    /\ how = "reload" => saving # "settings"
    /\ step = "replace" => tmp = data
    /\ step = "backup" => saving = "settings" /\ file["settings"] # Missing
    /\ saving = "settings" /\ step # "backup" /\ file["settings"] # Missing
          => kept = file["settings"]

Inv == TypeOK /\ SaveInv

USE ProfileAssumption, MarksApart

\* The marks for a file that cannot be read, and for none, are no contents.
LEMMA ContentFacts ==
    /\ Missing \notin Content /\ Damaged \notin Content /\ Nothing \notin Content
    /\ {} \in Content /\ Missing # Damaged
    /\ \A c \in Content \cup {Missing, Damaged} : Loaded(c) \in Content
    /\ \A c \in SUBSET (Root \cup List) :
          c \in Content /\ sanitize(c) \in SUBSET (Root \cup List)
<1>1. "missing" \notin Root \cup List \cup Mark /\ "damaged" \notin Root \cup List \cup Mark
      /\ "nothing" \notin Root \cup List \cup Mark
  OBVIOUS
<1>7. \A x : x \notin Root \cup List \cup Mark => {x} \notin Content
  <2> SUFFICES ASSUME NEW x, {x} \in Content PROVE x \in Root \cup List \cup Mark
    OBVIOUS
  <2>1. \A y \in {x} : y \in Root \cup List \cup Mark
    <3>1. {x} \subseteq Root \cup List \/ {x} \subseteq Mark
      BY DEF Content
    <3> QED
      BY <3>1
  <2> QED
    BY <2>1
<1>2. Missing \notin Content /\ Damaged \notin Content /\ Nothing \notin Content
  BY <1>1, <1>7 DEF Missing, Damaged, Nothing
<1>3. {} \in Content
  BY DEF Content
<1>4. Missing # Damaged
  BY DEF Missing, Damaged
<1>5. \A c \in Content \cup {Missing, Damaged} : Loaded(c) \in Content
  BY <1>3 DEF Loaded
<1>6. \A c \in SUBSET (Root \cup List) :
          c \in Content /\ sanitize(c) \in SUBSET (Root \cup List)
  BY DEF sanitize, Content
<1> QED
  BY <1>2, <1>3, <1>4, <1>5, <1>6
\* What memory and the files give of a store are contents of that store.
LEMMA ItemFacts ==
    /\ "settings" \in Store /\ Item("settings") = Root \cup List
    /\ \A s \in Store \ {"settings"} : Item(s) = Mark
    /\ \A s \in Store : SUBSET Item(s) \subseteq Content
<1>1. \A s \in Store : SUBSET Item(s) \subseteq Content
  <2> SUFFICES ASSUME NEW s \in Store, NEW c \in SUBSET Item(s) PROVE c \in Content
    OBVIOUS
  <2>1. CASE s = "settings"
    BY <2>1 DEF Item, Content
  <2>2. CASE s # "settings"
    BY <2>2 DEF Item, Content
  <2> QED
    BY <2>1, <2>2
<1> QED
  BY <1>1 DEF Store, Item

\* Adding a record to a store, in memory or as loaded, and taking one out, keeps its type.
LEMMA RecordsTyped ==
    ASSUME TypeOK, NEW s \in Store \ {"settings"}, NEW m \in Mark
    PROVE  /\ mem[s] \cup {m} \in SUBSET Item(s) /\ mem[s] \ {m} \in SUBSET Item(s)
           /\ Loaded(file[s]) \cup {m} \in SUBSET Item(s)
           /\ Loaded(file[s]) \ {m} \in SUBSET Item(s)
           /\ SUBSET Item(s) \subseteq Content
<1>1. mem[s] \in SUBSET Item(s) /\ file[s] \in (SUBSET Item(s)) \cup {Missing, Damaged}
  BY DEF TypeOK
<1>2. Loaded(file[s]) \in SUBSET Item(s)
  <2>1. {} \in SUBSET Item(s)
    OBVIOUS
  <2>2. Loaded(file[s]) = {} \/ Loaded(file[s]) \in SUBSET Item(s)
    BY <1>1, Zenon DEF Loaded
  <2> QED
    BY <2>1, <2>2
<1> QED
  BY <1>1, <1>2, ItemFacts

\* What a start takes from the files has the type of the store.
LEMMA StartTyped ==
    ASSUME TypeOK, NEW s \in Store
    PROVE  /\ Loaded(file[s]) \in SUBSET Item(s) /\ sanitize(Loaded(file[s])) \in SUBSET Item(s)
           /\ SUBSET Item(s) \subseteq Content
<1>1. file[s] \in (SUBSET Item(s)) \cup {Missing, Damaged}
  BY DEF TypeOK
<1>2. Loaded(file[s]) \in SUBSET Item(s)
  <2>1. {} \in SUBSET Item(s)
    OBVIOUS
  <2>2. Loaded(file[s]) = {} \/ Loaded(file[s]) \in SUBSET Item(s)
    BY <1>1, Zenon DEF Loaded
  <2> QED
    BY <2>1, <2>2
<1> QED
  BY <1>2, ItemFacts DEF sanitize

\* Where a save stands after each step: the links hold in every initial
\* state and over every step.
LEMMA SaveInvInit == Init => SaveInv
BY DEF Init, SaveInv

\* Every step keeps what holds of a save under way.
LEMMA SaveInvStep == Inv /\ [Next]_vars => SaveInv'
<1> SUFFICES ASSUME Inv, [Next]_vars PROVE SaveInv'
  OBVIOUS
<1> USE DEF Inv, SaveInv, vars, disk, save, window
<1>1. CASE Backup
  BY <1>1, ContentFacts DEF Backup
<1>2. CASE OpenTmp
  BY <1>2, ContentFacts DEF OpenTmp
<1>3. CASE Fill
  BY <1>3, ContentFacts DEF Fill
<1>4. CASE Replace
  BY <1>4, ContentFacts DEF Replace, Finish
<1>5. CASE Fail
  BY <1>5, ContentFacts DEF Fail, Finish
<1>6. CASE Start
  <2> DEFINE now == [s \in Store |->
                   IF s = "settings" THEN sanitize(Loaded(file[s])) ELSE Loaded(file[s])]
  <2>1. now["settings"] \in Content
    BY StartTyped, ItemFacts
  <2>2. UNCHANGED <<tmp, kept, file>> /\ up'
    BY <1>6 DEF Start
  <2>3. CASE Outdated
    BY <1>6, <2>1, <2>2, <2>3, ContentFacts DEF Start, Begin, BacksUp
  <2>4. CASE ~Outdated
    BY <1>6, <2>2, <2>4, ContentFacts DEF Start
  <2> QED
    BY <2>3, <2>4
<1>7. CASE Stop
  BY <1>7, ContentFacts DEF Stop, Finish, Closed
<1>8. CASE SaveSettings
  <2>1. sanitize(mem["settings"]) \in Content
    BY ItemFacts DEF TypeOK, sanitize
  <2> QED
    BY <1>8, <2>1 DEF SaveSettings, Update, Begin, BacksUp, idle
<1>9. CASE OpenDialog
  BY <1>9, ContentFacts DEF OpenDialog
<1>10. CASE ApplyRefused
  BY <1>10, ContentFacts DEF ApplyRefused
<1>11. CASE Cancel
  BY <1>11, ContentFacts DEF Cancel, Closed
<1>12. CASE \E s \in Managed, m \in Mark : AddRecord(s, m) \/ RemoveRecord(s, m)
  <2>1. PICK s \in Managed, m \in Mark : AddRecord(s, m) \/ RemoveRecord(s, m)
    BY <1>12
  <2>2. mem[s] \cup {m} \in Content /\ mem[s] \ {m} \in Content
    BY RecordsTyped, <2>1 DEF Store
  <2> QED
    BY <2>1, <2>2 DEF AddRecord, RemoveRecord, Edit, Update, Begin, BacksUp, idle
<1>13. CASE \E m \in Mark : ManageFilters(m)
  <2>1. PICK m \in Mark : ManageFilters(m)
    BY <1>13
  <2>2. Loaded(file["filters"]) \cup {m} \in Content /\ Loaded(file["filters"]) \ {m} \in Content
    BY RecordsTyped, <2>1 DEF Store
  <2> QED
    BY <2>1, <2>2 DEF ManageFilters, FilterEdits, Update, Begin, BacksUp, idle
<1>14. CASE \E m \in Mark : _import_filters_csv(m) \/ _import_bookmarks_csv(m)
  <2>1. PICK s \in {"filters", "bookmarks"}, m \in Mark : Import(s, m)
    BY <1>14 DEF _import_filters_csv, _import_bookmarks_csv
  <2>2. Loaded(file[s]) \cup {m} \in Content
    BY RecordsTyped, <2>1 DEF Store, Import
  <2> QED
    BY <2>1, <2>2 DEF Import, Merged, Update, Begin, BacksUp, idle
<1>15. CASE \E r \in Root : AddShare(r)
  BY <1>15, ContentFacts DEF AddShare
<1>16. CASE \E l \in List : AddList(l) \/ MovePath(l)
  BY <1>16, ContentFacts DEF AddList, MovePath
<1>17. CASE \E x \in Root \cup List : RemoveRow(x)
  BY <1>17, ContentFacts DEF RemoveRow
<1>18. CASE \E c \in SUBSET (Root \cup List) : ImportSettings(c)
  BY <1>18, ContentFacts DEF ImportSettings
<1>19. CASE \E stays \in BOOLEAN : Apply(stays)
  BY <1>19, ContentFacts DEF Apply, Closed, Update, Begin, BacksUp, idle, TypeOK
<1>20. CASE \E s \in Store : DamageFile(s)
  BY <1>20, ContentFacts DEF DamageFile
<1>21. CASE UNCHANGED vars
  BY <1>21 DEF vars
<1> QED
  BY <1>1, <1>2, <1>3, <1>4, <1>5, <1>6, <1>7, <1>8, <1>9, <1>10, <1>11, <1>12,
     <1>13, <1>14, <1>15, <1>16, <1>17, <1>18, <1>19, <1>20, <1>21 DEF Next

\* The types hold in every initial state and over every step.
LEMMA TypeInit == Init => TypeOK
<1> SUFFICES ASSUME Init PROVE TypeOK
  OBVIOUS
<1>1. file \in [Store -> {{}, Missing}] /\ mem = [s \in Store |-> {}]
      /\ wanted = [s \in Store |-> {}] /\ saving = "none" /\ data = Nothing /\ there = List
  BY DEF Init
<1>2. file \in [Store -> Content \cup {Missing, Damaged}]
      /\ mem \in [Store -> Content] /\ wanted \in [Store -> Content]
  BY <1>1, ContentFacts
<1>3. \A s \in Store :
          /\ mem[s] \in SUBSET Item(s) /\ wanted[s] \in SUBSET Item(s)
          /\ file[s] \in (SUBSET Item(s)) \cup {Missing, Damaged}
          /\ saving = s => data \in SUBSET Item(s)
  BY <1>1 DEF Store
<1>4. budget \in [{"damage", "start", "save"} -> Nat]
  BY DEF Init
<1>5. creds \subseteq {ShareOf[r] : r \in Root}
  BY DEF Init
<1> QED
  BY <1>1, <1>2, <1>3, <1>4, <1>5, ContentFacts DEF Init, TypeOK

\* What the stores hold keeps its type where neither they nor a save is touched.
LEMMA StoresKept ==
    ASSUME TypeOK, UNCHANGED <<file, mem, wanted, save>>
    PROVE  /\ file' \in [Store -> Content \cup {Missing, Damaged}]
           /\ mem' \in [Store -> Content] /\ wanted' \in [Store -> Content]
           /\ \A s \in Store :
                 /\ mem'[s] \in SUBSET Item(s) /\ wanted'[s] \in SUBSET Item(s)
                 /\ file'[s] \in (SUBSET Item(s)) \cup {Missing, Damaged}
                 /\ saving' = s => data' \in SUBSET Item(s)
           /\ saving' \in Store \cup {"none"}
           /\ step' \in {"none", "backup", "open", "fill", "replace"}
           /\ data' \in Content \cup {Nothing} /\ how' \in {"none", "save", "migrate", "reload"}
BY DEF TypeOK, save

\* Every step keeps the types.
LEMMA TypeStep == Inv /\ [Next]_vars => TypeOK'
<1> SUFFICES ASSUME Inv, [Next]_vars PROVE TypeOK'
  OBVIOUS
<1> USE DEF Inv, vars, disk, save, window
<1>1. CASE Backup
  BY <1>1, ItemFacts DEF Backup, TypeOK
<1>2. CASE OpenTmp
  BY <1>2 DEF OpenTmp, TypeOK
<1>3. CASE Fill
  BY <1>3 DEF Fill, TypeOK, SaveInv
<1>4. CASE Replace
  <2>1. saving \in Store /\ tmp \in SUBSET Item(saving) /\ tmp \in Content /\ tmp = data
    BY <1>4 DEF Replace, TypeOK, SaveInv
  <2>2. /\ file' = [file EXCEPT ![saving] = tmp]
        /\ mem' = [mem EXCEPT ![saving] = tmp] \/ mem' = mem
        /\ wanted' = [wanted EXCEPT ![saving] = data] \/ wanted' = wanted
        /\ saving' = "none"
    BY <1>4 DEF Replace, Reread, Finish
  <2>3. file' \in [Store -> Content \cup {Missing, Damaged}]
    BY <2>1, <2>2 DEF TypeOK
  <2>4. mem' \in [Store -> Content] /\ wanted' \in [Store -> Content]
    BY <2>1, <2>2 DEF TypeOK
  <2>5. \A s \in Store :
            /\ mem'[s] \in SUBSET Item(s) /\ wanted'[s] \in SUBSET Item(s)
            /\ file'[s] \in (SUBSET Item(s)) \cup {Missing, Damaged}
            /\ saving' = s => data' \in SUBSET Item(s)
    BY <2>1, <2>2 DEF TypeOK, Store
  <2> QED
    BY <1>4, <2>1, <2>3, <2>4, <2>5 DEF Replace, Finish, TypeOK
<1>5. CASE Fail
  <2>1. /\ mem' = [mem EXCEPT !["settings"] = {}] \/ mem' = mem
        /\ wanted' = [wanted EXCEPT !["settings"] = {}] \/ wanted' = wanted
        /\ saving' = "none" /\ file' = file
    BY <1>5 DEF Fail, Finish
  <2>2. mem' \in [Store -> Content] /\ wanted' \in [Store -> Content]
    BY <2>1, ContentFacts DEF TypeOK
  <2>3. \A s \in Store :
            /\ mem'[s] \in SUBSET Item(s) /\ wanted'[s] \in SUBSET Item(s)
            /\ file'[s] \in (SUBSET Item(s)) \cup {Missing, Damaged}
            /\ saving' = s => data' \in SUBSET Item(s)
    BY <2>1 DEF TypeOK, Store
  <2>4. noticed' \subseteq Root /\ failed' \subseteq Store
    BY <1>5 DEF Fail, TypeOK
  <2> QED
    BY <1>5, <2>1, <2>2, <2>3, <2>4 DEF Fail, Finish, TypeOK
<1>6. CASE Start
  <2> DEFINE now == [s \in Store |->
                   IF s = "settings" THEN sanitize(Loaded(file[s])) ELSE Loaded(file[s])]
             hoped == [s \in Store |->
                        IF file[s] = Damaged THEN {}
                        ELSE IF s = "settings" THEN sanitize(wanted[s]) ELSE wanted[s]]
  <2>1. \A s \in Store : now[s] \in SUBSET Item(s) /\ now[s] \in Content
    BY StartTyped
  <2>2. \A s \in Store : hoped[s] \in SUBSET Item(s) /\ hoped[s] \in Content
    BY ItemFacts DEF TypeOK, sanitize
  <2>3. mem' = now /\ wanted' = hoped /\ UNCHANGED <<file, tmp, kept, old>> /\ up' = TRUE
    BY <1>6 DEF Start
  <2>4. now \in [Store -> Content] /\ hoped \in [Store -> Content]
    BY <2>1, <2>2
  <2>5. /\ saving' \in Store \cup {"none"} /\ data' \in Content \cup {Nothing}
        /\ step' \in {"none", "backup", "open", "fill", "replace"}
        /\ how' \in {"none", "save", "migrate", "reload"}
        /\ \A s \in Store : saving' = s => data' \in SUBSET Item(s)
    <3>1. CASE Outdated
      BY <1>6, <3>1, <2>1, ItemFacts DEF Start, Begin
    <3>2. CASE ~Outdated
      BY <1>6, <3>2 DEF Start, TypeOK
    <3> QED
      BY <3>1, <3>2
  <2>6. noticed' \subseteq Root /\ failed' \subseteq Store
    BY <1>6, ItemFacts DEF Start, Roots
  <2>7. budget' \in [{"damage", "start", "save"} -> Nat]
    BY <1>6 DEF Start, TypeOK
  <2> HIDE DEF now, hoped
  <2>8. \A s \in Store :
            /\ mem'[s] \in SUBSET Item(s) /\ wanted'[s] \in SUBSET Item(s)
            /\ file'[s] \in (SUBSET Item(s)) \cup {Missing, Damaged}
            /\ saving' = s => data' \in SUBSET Item(s)
    BY <2>1, <2>2, <2>3, <2>5 DEF TypeOK
  <2>9. UNCHANGED <<window, there, creds>>
    BY <1>6 DEF Start
  <2> QED
    BY <2>3, <2>4, <2>5, <2>6, <2>7, <2>8, <2>9 DEF TypeOK
<1>7. CASE Stop
  <2>1. \A s \in Store : Loaded(file[s]) \in SUBSET Item(s) /\ Loaded(file[s]) \in Content
    BY StartTyped
  <2>2. mem' = [s \in Store |-> {}] /\ file' = file /\ saving' = "none"
    BY <1>7 DEF Stop, Finish
  <2>3. wanted' = [s \in Store |-> IF s \in failed \cup {saving}
                                  THEN Loaded(file[s]) ELSE wanted[s]]
    BY <1>7 DEF Stop
  <2>4. mem' \in [Store -> Content] /\ wanted' \in [Store -> Content]
    BY <2>1, <2>2, <2>3, ContentFacts DEF TypeOK
  <2>5. \A s \in Store :
            /\ mem'[s] \in SUBSET Item(s) /\ wanted'[s] \in SUBSET Item(s)
            /\ file'[s] \in (SUBSET Item(s)) \cup {Missing, Damaged}
            /\ saving' = s => data' \in SUBSET Item(s)
    BY <2>1, <2>2, <2>3 DEF TypeOK, Store
  <2> QED
    BY <1>7, <2>2, <2>4, <2>5 DEF Stop, Finish, Closed, TypeOK
<1>8. CASE SaveSettings
  BY <1>8, ItemFacts DEF SaveSettings, Update, Begin, BacksUp, idle, TypeOK, sanitize
<1>9. CASE OpenDialog
  BY <1>9, ItemFacts, StoresKept DEF OpenDialog, TypeOK
<1>10. CASE ApplyRefused
  BY <1>10, ContentFacts, ItemFacts DEF ApplyRefused, TypeOK
<1>11. CASE Cancel
  BY <1>11, StoresKept DEF Cancel, Closed, TypeOK
<1>12. CASE \E s \in Managed, m \in Mark : AddRecord(s, m) \/ RemoveRecord(s, m)
  <2>1. PICK s \in Managed, m \in Mark : AddRecord(s, m) \/ RemoveRecord(s, m)
    BY <1>12
  <2>2. s \in Store \ {"settings"}
    BY DEF Store
  <2>3. PICK c : Edit(s, c) /\ c \in SUBSET Item(s) /\ c \in Content
    BY <2>1, <2>2, RecordsTyped DEF AddRecord, RemoveRecord
  <2>4. /\ mem' = [mem EXCEPT ![s] = c] /\ wanted' = [wanted EXCEPT ![s] = c]
        /\ saving' = s /\ data' = c /\ UNCHANGED file
    BY <2>3 DEF Edit, Update, Begin
  <2>5. mem' \in [Store -> Content] /\ wanted' \in [Store -> Content]
    BY <2>2, <2>3, <2>4 DEF TypeOK
  <2>6. \A t \in Store :
            /\ mem'[t] \in SUBSET Item(t) /\ wanted'[t] \in SUBSET Item(t)
            /\ file'[t] \in (SUBSET Item(t)) \cup {Missing, Damaged}
            /\ saving' = t => data' \in SUBSET Item(t)
    BY <2>2, <2>3, <2>4 DEF TypeOK
  <2>7. step' \in {"none", "backup", "open", "fill", "replace"} /\ how' = "save"
        /\ budget' \in [{"damage", "start", "save"} -> Nat]
    BY <2>3 DEF Edit, Update, Begin, TypeOK
  <2> QED
    BY <2>2, <2>3, <2>4, <2>5, <2>6, <2>7 DEF Edit, TypeOK
<1>13. CASE \E m \in Mark : ManageFilters(m)
  BY <1>13, RecordsTyped DEF ManageFilters, FilterEdits, Update, Begin, BacksUp, idle, TypeOK, Store
<1>14. CASE \E m \in Mark : _import_filters_csv(m) \/ _import_bookmarks_csv(m)
  <2>1. PICK s \in {"filters", "bookmarks"}, m \in Mark : Import(s, m)
    BY <1>14 DEF _import_filters_csv, _import_bookmarks_csv
  <2> QED
    BY <2>1, RecordsTyped DEF Import, Merged, Update, Begin, BacksUp, idle, TypeOK, Store
<1>15. CASE \E r \in Root : AddShare(r)
  BY <1>15 DEF AddShare, save_network_credential, TypeOK
<1>16. CASE \E l \in List : AddList(l) \/ MovePath(l)
  BY <1>16 DEF AddList, MovePath, TypeOK
<1>17. CASE \E x \in Root \cup List : RemoveRow(x)
  BY <1>17 DEF RemoveRow, TypeOK
<1>18. CASE \E c \in SUBSET (Root \cup List) : ImportSettings(c)
  BY <1>18, ContentFacts, StoresKept DEF ImportSettings, TypeOK
<1>19. CASE \E stays \in BOOLEAN : Apply(stays)
  <2>1. PICK stays \in BOOLEAN : Apply(stays)
    BY <1>19
  <2>2. shown \in SUBSET (Root \cup List) /\ shown \in Content
    BY ContentFacts DEF TypeOK
  <2>3. /\ mem' = [mem EXCEPT !["settings"] = shown]
        /\ wanted' = [wanted EXCEPT !["settings"] = shown]
        /\ saving' = "settings" /\ data' = shown /\ UNCHANGED file
    BY <2>1 DEF Apply, Update, Begin
  <2>4. mem' \in [Store -> Content] /\ wanted' \in [Store -> Content]
    BY <2>2, <2>3 DEF TypeOK
  <2>5. \A s \in Store :
            /\ mem'[s] \in SUBSET Item(s) /\ wanted'[s] \in SUBSET Item(s)
            /\ file'[s] \in (SUBSET Item(s)) \cup {Missing, Damaged}
            /\ saving' = s => data' \in SUBSET Item(s)
    BY <2>2, <2>3, ItemFacts DEF TypeOK
  <2>6. step' \in {"none", "backup", "open", "fill", "replace"} /\ how' = "save"
        /\ budget' \in [{"damage", "start", "save"} -> Nat]
    BY <2>1 DEF Apply, Update, Begin, TypeOK
  <2>7. /\ dialog' \in BOOLEAN /\ shared' \in BOOLEAN
        /\ shown' \subseteq Root \cup List /\ draft' \subseteq Root \cup List
    BY <2>1 DEF Apply, Closed, EmitsOwn, TypeOK
  <2>8. noticed' \subseteq Root /\ creds' \subseteq {ShareOf[r] : r \in Root}
    BY <2>1 DEF Apply, Roots, TypeOK
  <2> QED
    BY <2>1, <2>2, <2>3, <2>4, <2>5, <2>6, <2>7, <2>8, ItemFacts DEF Apply, TypeOK
<1>20. CASE \E s \in Store : DamageFile(s)
  BY <1>20 DEF DamageFile, TypeOK
<1>21. CASE UNCHANGED vars
  BY <1>21 DEF vars, TypeOK
<1> QED
  BY <1>1, <1>2, <1>3, <1>4, <1>5, <1>6, <1>7, <1>8, <1>9, <1>10, <1>11, <1>12,
     <1>13, <1>14, <1>15, <1>16, <1>17, <1>18, <1>19, <1>20, <1>21 DEF Next

\* The types of Profile hold in every reachable state.
THEOREM TypeCorrect == Spec => []TypeOK
<1>1. Init => Inv
  BY TypeInit, SaveInvInit DEF Inv
<1>2. Inv /\ [Next]_vars => Inv'
  BY TypeStep, SaveInvStep DEF Inv
<1>3. Inv => TypeOK
  BY DEF Inv
<1> QED
  BY <1>1, <1>2, <1>3, PTL DEF Spec

-----------------------------------------------------------------------------
(* The refinement. *)

\* What is asked for, seen from AtomicConfig.
askedBar == [s \in Store |-> IF s = saving THEN data ELSE Nothing]
keptBar == [s \in {"settings"} |-> kept]

\* Beginning a save of a store is asking for it.
LEMMA BeginAsks ==
    ASSUME Inv, saving = "none", NEW s \in Store, NEW c \in Content,
           saving' = s, data' = c, file' = file, kept' = kept
    PROVE  Config!Next
<1>1. askedBar[s] = Nothing
  BY DEF askedBar, Store
<1>2. askedBar' = [askedBar EXCEPT ![s] = c]
  BY DEF askedBar, Store
<1>3. Config!Ask(s, c)
  BY <1>1, <1>2 DEF Config!Ask, askedBar
<1> QED
  BY <1>3 DEF Config!Next

\* Ending one without replacing the file is abandoning it.
LEMMA EndAbandons ==
    ASSUME Inv, saving # "none", saving' = "none", file' = file, kept' = kept
    PROVE  Config!Next
<1>1. PICK s \in Store : s = saving
  BY DEF Inv, TypeOK
<1>2. askedBar[s] # Nothing
  BY <1>1, ContentFacts DEF askedBar, Inv, SaveInv
<1>3. askedBar' = [askedBar EXCEPT ![s] = Nothing]
  BY <1>1 DEF askedBar, Store
<1>4. Config!Abandon(s)
  BY <1>2, <1>3 DEF Config!Abandon, askedBar
<1> QED
  BY <1>4 DEF Config!Next

\* A step that leaves the files, the backup and the save alone is none.
LEMMA OtherStutters ==
    ASSUME UNCHANGED <<file, kept, saving, data>>
    PROVE  UNCHANGED Config!vars
BY DEF Config!vars

\* Every step of the program is a step of AtomicConfig or leaves it unchanged.
LEMMA StepRefines == Inv /\ [Next]_vars => [Config!Next]_(Config!vars)
<1> SUFFICES ASSUME Inv, [Next]_vars PROVE Config!Next \/ UNCHANGED Config!vars
  OBVIOUS
<1> USE DEF disk, save, window
<1>1. CASE Backup
  <2>1. saving = "settings" /\ file["settings"] # Missing /\ data \in Content
    BY <1>1 DEF Backup, Inv, SaveInv
  <2>2. askedBar["settings"] # Nothing /\ askedBar' = askedBar
    BY <1>1, <2>1, ContentFacts, ItemFacts DEF Backup, askedBar
  <2>3. keptBar' = [keptBar EXCEPT !["settings"] = file["settings"]] /\ file' = file
    BY <1>1 DEF Backup, keptBar
  <2>4. Config!Keep("settings")
    BY <2>1, <2>2, <2>3 DEF Config!Keep, askedBar, keptBar
  <2> QED
    BY <2>4, ItemFacts DEF Config!Next
<1>2. CASE OpenTmp \/ Fill
  BY <1>2, OtherStutters DEF OpenTmp, Fill
<1>3. CASE Replace
  <2>1. PICK s \in Store : s = saving
    BY <1>3 DEF Replace, Inv, TypeOK, SaveInv
  <2>2. tmp = data /\ data \in Content
    BY <1>3, <2>1 DEF Replace, Inv, SaveInv, Store
  <2>3. askedBar[s] = data /\ data # Nothing
    BY <2>1, <2>2, ContentFacts DEF askedBar
  <2>4. s \in {"settings"} /\ file[s] # Missing => keptBar[s] = file[s]
    BY <1>3, <2>1 DEF Replace, Inv, SaveInv, keptBar
  <2>5. file' = [file EXCEPT ![s] = data] /\ saving' = "none" /\ kept' = kept
    BY <1>3, <2>1, <2>2 DEF Replace, Finish
  <2>6. askedBar' = [askedBar EXCEPT ![s] = Nothing]
    BY <2>1, <2>5 DEF askedBar, Store
  <2>7. Config!Install(s)
    BY <2>3, <2>4, <2>5, <2>6 DEF Config!Install, askedBar, keptBar
  <2> QED
    BY <2>7 DEF Config!Next
<1>4. CASE Fail
  BY <1>4, EndAbandons DEF Fail, Finish
<1>5. CASE Start
  <2>1. saving = "none" /\ file' = file /\ kept' = kept
    BY <1>5 DEF Start, Inv, SaveInv
  <2>2. CASE Outdated
    <3> DEFINE now == [s \in Store |->
                   IF s = "settings" THEN sanitize(Loaded(file[s])) ELSE Loaded(file[s])]
    <3>1. now["settings"] \in Content
      BY StartTyped, ItemFacts DEF Inv
    <3>2. saving' = "settings" /\ data' = now["settings"]
      BY <1>5, <2>2 DEF Start, Begin
    <3> QED
      BY <2>1, <3>1, <3>2, BeginAsks, ItemFacts
  <2>3. CASE ~Outdated
    BY <1>5, <2>3, OtherStutters DEF Start
  <2> QED
    BY <2>2, <2>3
<1>6. CASE Stop
  <2>1. CASE saving # "none"
    BY <1>6, <2>1, EndAbandons DEF Stop, Finish
  <2>2. CASE saving = "none"
    <3>1. UNCHANGED <<file, kept, saving>> /\ askedBar' = askedBar
      BY <1>6, <2>2 DEF Stop, Finish, askedBar, Store
    <3> QED
      BY <3>1 DEF Config!vars, askedBar
  <2> QED
    BY <2>1, <2>2
<1>7. CASE SaveSettings
  <2>1. sanitize(mem["settings"]) \in Content
    BY ItemFacts DEF Inv, TypeOK, sanitize
  <2> QED
    BY <1>7, <2>1, BeginAsks, ItemFacts DEF SaveSettings, Update, Begin, idle
<1>8. CASE OpenDialog \/ ApplyRefused \/ Cancel
  BY <1>8, OtherStutters DEF OpenDialog, ApplyRefused, Cancel
<1>9. CASE \E s \in Managed, m \in Mark : AddRecord(s, m) \/ RemoveRecord(s, m)
  <2>1. PICK s \in Managed, m \in Mark : AddRecord(s, m) \/ RemoveRecord(s, m)
    BY <1>9
  <2>2. s \in Store \ {"settings"}
    BY DEF Store
  <2>3. PICK c : Edit(s, c) /\ c \in Content
    BY <2>1, <2>2, RecordsTyped DEF AddRecord, RemoveRecord, Inv
  <2> QED
    BY <2>2, <2>3, BeginAsks DEF Edit, Update, Begin, idle
<1>10. CASE \E m \in Mark : ManageFilters(m)
  <2>1. PICK m \in Mark : ManageFilters(m)
    BY <1>10
  <2>2. "filters" \in Store \ {"settings"}
    BY DEF Store
  <2>3. PICK c \in Content : Update("filters", "reload", c)
    BY <2>1, <2>2, RecordsTyped DEF ManageFilters, FilterEdits, Inv
  <2> QED
    BY <2>1, <2>2, <2>3, BeginAsks DEF ManageFilters, FilterEdits, Update, Begin, idle
<1>11. CASE \E m \in Mark : _import_filters_csv(m) \/ _import_bookmarks_csv(m)
  <2>1. PICK s \in {"filters", "bookmarks"}, m \in Mark : Import(s, m)
    BY <1>11 DEF _import_filters_csv, _import_bookmarks_csv
  <2>2. s \in Store \ {"settings"}
    BY <2>1 DEF Store, Import
  <2>3. Loaded(file[s]) \cup {m} \in Content
    BY <2>2, RecordsTyped DEF Inv
  <2> QED
    BY <2>1, <2>2, <2>3, BeginAsks DEF Import, Merged, Update, Begin, idle
<1>12. CASE \E r \in Root : AddShare(r)
  BY <1>12, OtherStutters DEF AddShare
<1>13. CASE \E l \in List : AddList(l) \/ MovePath(l)
  BY <1>13, OtherStutters DEF AddList, MovePath
<1>14. CASE \E x \in Root \cup List : RemoveRow(x)
  BY <1>14, OtherStutters DEF RemoveRow
<1>15. CASE \E c \in SUBSET (Root \cup List) : ImportSettings(c)
  BY <1>15, OtherStutters DEF ImportSettings
<1>16. CASE \E stays \in BOOLEAN : Apply(stays)
  <2>1. shown \in Content
    BY ContentFacts DEF Inv, TypeOK
  <2> QED
    BY <1>16, <2>1, BeginAsks, ItemFacts DEF Apply, Update, Begin, idle
<1>17. CASE \E s \in Store : DamageFile(s)
  <2>1. PICK s \in Store : DamageFile(s)
    BY <1>17
  <2>2. file[s] # Missing /\ file' = [file EXCEPT ![s] = Damaged]
        /\ UNCHANGED <<kept, saving, data>>
    BY <2>1 DEF DamageFile
  <2>3. Config!Damage(s)
    BY <2>2 DEF Config!Damage
  <2> QED
    BY <2>3 DEF Config!Next
<1>18. CASE UNCHANGED vars
  BY <1>18, OtherStutters DEF vars
<1> QED
  BY <1>1, <1>2, <1>3, <1>4, <1>5, <1>6, <1>7, <1>8, <1>9, <1>10, <1>11, <1>12,
     <1>13, <1>14, <1>15, <1>16, <1>17, <1>18 DEF Next

\* The files of the profile change as AtomicConfig says, whatever steps the
\* process dies at and the disk refuses (property FilesAtomic).
THEOREM ProfileIsAtomic == Spec => FilesAtomic
<1>1. Init => Config!Init
  <2> SUFFICES ASSUME Init PROVE Config!Init
    OBVIOUS
  <2>1. file \in [Store -> Content \cup {Missing}]
    BY ContentFacts DEF Init
  <2>2. askedBar = [s \in Store |-> Nothing] /\ keptBar = [s \in {"settings"} |-> Missing]
    BY DEF Init, askedBar, keptBar
  <2> QED
    BY <2>1, <2>2 DEF Config!Init, askedBar, keptBar
<1>2. Init => Inv
  BY TypeInit, SaveInvInit DEF Inv
<1>3. Inv /\ [Next]_vars => Inv'
  BY TypeStep, SaveInvStep DEF Inv
<1> QED
  BY <1>1, <1>2, <1>3, StepRefines, PTL DEF Spec, FilesAtomic, Config!Spec

-----------------------------------------------------------------------------
(* Updates and indexing. *)

\* While the program runs memory holds what the user wants, and so does
\* every file but those being saved from memory or whose last save failed;
\* while it does not, every readable file does.
KeptInv ==
    /\ up => /\ \A s \in Store : mem[s] = wanted[s]
             /\ \A s \in Store \ failed :
                   s # saving \/ how = "reload" => Loaded(file[s]) = wanted[s]
             /\ saving # "none" /\ how # "reload" => mem[saving] = data
    /\ ~up => \A s \in Store : file[s] = Damaged \/ Loaded(file[s]) = wanted[s]

\* The window's settings are its own object, and the index was last built for
\* the folders they name.
NoticedInv == ~shared /\ (up => noticed = Roots(mem["settings"]))

\* Memory and the user's wish change together, and the save takes what they are.
LEMMA SavedFromMemory ==
    ASSUME Inv, KeptInv, up, up' = up, saving = "none", NEW s \in Store, NEW c,
           mem' = [mem EXCEPT ![s] = c], wanted' = [wanted EXCEPT ![s] = c],
           saving' = s, data' = c, how' = "save", file' = file, failed' = failed
    PROVE  KeptInv'
<1>1. \A t \in Store : mem'[t] = wanted'[t] /\ mem'[s] = c
  BY DEF KeptInv, Inv, TypeOK
<1>2. \A t \in Store \ failed : t # s => Loaded(file[t])' = wanted'[t]
  BY DEF KeptInv, Inv, TypeOK, Loaded, Store
<1> QED
  BY <1>1, <1>2 DEF KeptInv

\* Every step keeps memory and files in agreement with what the user did.
LEMMA KeptStep == Inv /\ KeptInv /\ ~shared /\ [Next]_vars => KeptInv'
<1> SUFFICES ASSUME Inv, KeptInv, ~shared, [Next]_vars PROVE KeptInv'
  OBVIOUS
<1> USE DEF vars, disk, save, window
<1>0. \A s \in Store : mem[s] \in Content /\ wanted[s] \in Content
      /\ (\A c \in Content : Loaded(c) = c)
  BY ContentFacts DEF Inv, TypeOK, Loaded
<1>1. CASE Backup \/ OpenTmp \/ Fill
  BY <1>1 DEF Backup, OpenTmp, Fill, KeptInv
<1>3. CASE Replace
  <2>1. PICK s \in Store : s = saving
    BY <1>3 DEF Replace, Inv, TypeOK, SaveInv
  <2>2. tmp = data /\ data \in Content /\ up
    BY <1>3, <2>1 DEF Replace, Inv, SaveInv, Store
  <2>3. Loaded(data) = data
    BY <2>2, <1>0, <2>1
  <2>4. /\ file' = [file EXCEPT ![s] = data] /\ up' = up /\ saving' = "none"
        /\ how' = "none" /\ failed' = failed \ {s}
    BY <1>3, <2>1, <2>2 DEF Replace, Finish
  <2>5. CASE how = "reload"
    <3>1. mem' = [mem EXCEPT ![s] = data] /\ wanted' = [wanted EXCEPT ![s] = data]
      BY <1>3, <2>1, <2>2, <2>5 DEF Replace, Reread
    <3>2. \A t \in Store : mem'[t] = wanted'[t]
      BY <3>1, <2>2 DEF KeptInv, Inv, TypeOK
    <3>3. \A t \in Store \ failed' : Loaded(file[t])' = wanted'[t]
      BY <3>1, <2>1, <2>2, <2>3, <2>4 DEF KeptInv, Inv, TypeOK, Loaded
    <3> QED
      BY <2>2, <2>4, <3>2, <3>3 DEF KeptInv
  <2>6. CASE how # "reload"
    <3>1. mem' = mem /\ wanted' = wanted /\ mem[s] = data
      BY <1>3, <2>1, <2>2, <2>6 DEF Replace, Reread, KeptInv, Store
    <3>2. \A t \in Store : mem'[t] = wanted'[t]
      BY <3>1, <2>2 DEF KeptInv
    <3>3. \A t \in Store \ failed' : Loaded(file[t])' = wanted'[t]
      BY <3>1, <3>2, <2>1, <2>2, <2>3, <2>4 DEF KeptInv, Inv, TypeOK, Loaded
    <3> QED
      BY <2>2, <2>4, <3>2, <3>3 DEF KeptInv
  <2> QED
    BY <2>5, <2>6
<1>4. CASE Fail
  <2>1. up /\ up' /\ saving' = "none" /\ how' = "none" /\ file' = file
    BY <1>4 DEF Fail, Finish, Inv, SaveInv
  <2>2. PICK s \in Store : s = saving
    BY <1>4 DEF Fail, Inv, TypeOK
  <2>3. CASE how = "migrate"
    <3>1. /\ mem' = [mem EXCEPT !["settings"] = {}]
          /\ wanted' = [wanted EXCEPT !["settings"] = {}]
          /\ failed' = failed \cup {s} /\ s = "settings"
      BY <1>4, <2>2, <2>3 DEF Fail, Inv, SaveInv
    <3> QED
      BY <2>1, <2>2, <3>1 DEF KeptInv, Inv, TypeOK
  <2>4. CASE how # "migrate"
    <3>1. /\ mem' = mem /\ wanted' = wanted
          /\ failed' = IF how = "reload" THEN failed ELSE failed \cup {s}
      BY <1>4, <2>2, <2>4 DEF Fail
    <3> QED
      BY <2>1, <2>2, <3>1 DEF KeptInv
  <2> QED
    BY <2>3, <2>4
<1>5. CASE Start
  <2> DEFINE now == [s \in Store |->
                   IF s = "settings" THEN sanitize(Loaded(file[s])) ELSE Loaded(file[s])]
             hoped == [s \in Store |->
                        IF file[s] = Damaged THEN {}
                        ELSE IF s = "settings" THEN sanitize(wanted[s]) ELSE wanted[s]]
  <2>1. mem' = now /\ wanted' = hoped /\ file' = file /\ up'
    BY <1>5 DEF Start
  <2>2. \A s \in Store : file[s] = Damaged \/ Loaded(file[s]) = wanted[s]
    BY <1>5 DEF Start, KeptInv
  <2>3. \A s \in Store : file[s] = Damaged => Loaded(file[s]) = {}
    BY DEF Loaded
  <2>4. sanitize({}) = {}
    BY DEF sanitize
  <2>5. \A s \in Store : now[s] = hoped[s]
    BY <2>2, <2>3, <2>4
  <2>6. \A s \in Store \ failed' : Loaded(file[s]) = hoped[s]
    <3> SUFFICES ASSUME NEW s \in Store \ failed' PROVE Loaded(file[s]) = hoped[s]
      OBVIOUS
    <3>1. file[s] # Damaged
      BY <1>5 DEF Start
    <3>2. s = "settings" => now["settings"] = Loaded(file["settings"])
      BY <1>5 DEF Start
    <3> QED
      BY <2>2, <2>5, <3>1, <3>2
  <2>7. saving' # "none" => mem'[saving'] = data'
    <3>1. CASE Outdated
      BY <1>5, <3>1 DEF Start, Begin
    <3>2. CASE ~Outdated
      BY <1>5, <3>2 DEF Start, Inv, SaveInv
    <3> QED
      BY <3>1, <3>2
  <2>8. \A s \in Store : Loaded(file[s])' = Loaded(file[s])
    BY <2>1 DEF Loaded
  <2> QED
    BY <2>1, <2>5, <2>6, <2>7, <2>8 DEF KeptInv
<1>6. CASE Stop
  <2>1. /\ ~up' /\ file' = file
        /\ wanted' = [s \in Store |-> IF s \in failed \cup {saving}
                                      THEN Loaded(file[s]) ELSE wanted[s]]
    BY <1>6 DEF Stop
  <2>2. \A s \in Store \ (failed \cup {saving}) : Loaded(file[s]) = wanted[s]
    BY <1>6 DEF Stop, KeptInv
  <2>3. \A s \in Store : Loaded(file[s])' = wanted'[s]
    BY <2>1, <2>2 DEF Loaded
  <2> QED
    BY <2>1, <2>3 DEF KeptInv
<1>7. CASE SaveSettings
  <2> DEFINE c == sanitize(mem["settings"])
  <2>1. up /\ mem["settings"] = wanted["settings"]
    BY <1>7, ItemFacts DEF SaveSettings, idle, KeptInv
  <2>2. /\ mem' = [mem EXCEPT !["settings"] = c] /\ wanted' = [wanted EXCEPT !["settings"] = c]
        /\ saving' = "settings" /\ data' = c /\ how' = "save"
        /\ UNCHANGED <<up, file, failed>>
    BY <1>7, <2>1 DEF SaveSettings, Update, Begin, Inv, TypeOK
  <2> HIDE DEF c
  <2> QED
    BY <1>7, <2>1, <2>2, SavedFromMemory, ItemFacts DEF SaveSettings, idle
<1>8. CASE OpenDialog \/ ApplyRefused \/ Cancel
  <2>1. mem' = mem
    BY <1>8 DEF OpenDialog, ApplyRefused, Cancel
  <2> QED
    BY <1>8, <2>1 DEF OpenDialog, ApplyRefused, Cancel, KeptInv
<1>9. CASE \E s \in Managed, m \in Mark : AddRecord(s, m) \/ RemoveRecord(s, m)
  <2>0. PICK s \in Managed : \E c : Edit(s, c)
    BY <1>9 DEF AddRecord, RemoveRecord
  <2>1. PICK c : Edit(s, c)
    BY <2>0
  <2>2. s \in Store
    BY DEF Store
  <2>3. /\ mem' = [mem EXCEPT ![s] = c] /\ wanted' = [wanted EXCEPT ![s] = c]
        /\ saving' = s /\ data' = c /\ how' = "save" /\ up /\ saving = "none"
        /\ UNCHANGED <<up, file, failed>>
    BY <2>1 DEF Edit, Update, Begin, idle
  <2> QED
    BY <2>2, <2>3, SavedFromMemory
<1>10. CASE \E m \in Mark : ManageFilters(m)
  <2>1. up /\ saving = "none" /\ how' = "reload" /\ UNCHANGED <<up, mem, file, wanted, failed>>
    BY <1>10 DEF ManageFilters, FilterEdits, Update, Begin, idle
  <2> QED
    BY <2>1 DEF KeptInv, Store
<1>11. CASE \E m \in Mark : _import_filters_csv(m) \/ _import_bookmarks_csv(m)
  <2>1. up /\ saving = "none" /\ how' = "reload" /\ UNCHANGED <<up, mem, file, wanted, failed>>
    BY <1>11 DEF _import_filters_csv, _import_bookmarks_csv, Import, Merged, Update, Begin, idle
  <2> QED
    BY <2>1 DEF KeptInv, Store
<1>12. CASE \E r \in Root : AddShare(r)
  BY <1>12 DEF AddShare, KeptInv
<1>13. CASE \E l \in List : AddList(l) \/ MovePath(l)
  BY <1>13 DEF AddList, MovePath, KeptInv
<1>14. CASE \E x \in Root \cup List : RemoveRow(x)
  BY <1>14 DEF RemoveRow, KeptInv
<1>15. CASE \E c \in SUBSET (Root \cup List) : ImportSettings(c)
  BY <1>15 DEF ImportSettings, KeptInv
<1>16. CASE \E stays \in BOOLEAN : Apply(stays)
  <2>1. /\ mem' = [mem EXCEPT !["settings"] = shown]
        /\ wanted' = [wanted EXCEPT !["settings"] = shown]
        /\ saving' = "settings" /\ data' = shown /\ how' = "save" /\ up /\ saving = "none"
        /\ UNCHANGED <<up, file, failed>>
    BY <1>16 DEF Apply, Update, Begin, idle
  <2> QED
    BY <2>1, SavedFromMemory, ItemFacts
<1>17. CASE \E s \in Store : DamageFile(s)
  <2>1. PICK s \in Store : DamageFile(s)
    BY <1>17
  <2>2. ~up /\ file' = [file EXCEPT ![s] = Damaged] /\ UNCHANGED <<up, wanted>>
    BY <2>1 DEF DamageFile
  <2>3. \A t \in Store : file'[t] = Damaged \/ Loaded(file[t])' = wanted[t]
    BY <2>2 DEF KeptInv, Inv, TypeOK, Loaded
  <2> QED
    BY <2>2, <2>3 DEF KeptInv
<1>18. CASE UNCHANGED vars
  BY <1>18 DEF KeptInv
<1> QED
  BY <1>1, <1>3, <1>4, <1>5, <1>6, <1>7, <1>8, <1>9, <1>10, <1>11, <1>12,
     <1>13, <1>14, <1>15, <1>16, <1>17, <1>18 DEF Next

\* Every step keeps apart the objects of window and dialog.
LEMMA NoticedStep == Inv /\ NoticedInv /\ [Next]_vars => NoticedInv'
<1> SUFFICES ASSUME Inv, NoticedInv, [Next]_vars PROVE NoticedInv'
  OBVIOUS
<1> USE DEF vars, disk, save, window, NoticedInv
<1>1. CASE Backup \/ OpenTmp \/ Fill
  BY <1>1 DEF Backup, OpenTmp, Fill
<1>3. CASE Replace
  <2>1. mem'["settings"] = mem["settings"]
    BY <1>3, ItemFacts DEF Replace, Reread, Inv, SaveInv, TypeOK
  <2> QED
    BY <1>3, <2>1 DEF Replace, Roots
<1>4. CASE Fail
  <2>1. CASE how = "migrate"
    BY <1>4, <2>1, ItemFacts DEF Fail, Inv, TypeOK, Roots
  <2>2. CASE how # "migrate"
    BY <1>4, <2>2 DEF Fail, Roots
  <2> QED
    BY <2>1, <2>2
<1>5. CASE Start
  BY <1>5 DEF Start, Roots
<1>6. CASE Stop
  BY <1>6 DEF Stop, Closed
<1>7. CASE SaveSettings
  <2>1. mem'["settings"] = sanitize(mem["settings"])
    BY <1>7, ItemFacts DEF SaveSettings, Inv, TypeOK
  <2>2. Roots(sanitize(mem["settings"])) = Roots(mem["settings"])
    BY DEF Roots, sanitize
  <2> QED
    BY <1>7, <2>1, <2>2 DEF SaveSettings, Roots
<1>8. CASE OpenDialog \/ Cancel
  BY <1>8 DEF OpenDialog, Cancel, Closed, Roots
<1>9. CASE ApplyRefused
  BY <1>9 DEF ApplyRefused, Roots
<1>10. CASE \E s \in Managed, m \in Mark : AddRecord(s, m) \/ RemoveRecord(s, m)
  <2>0. PICK s \in Managed : \E c : Edit(s, c)
    BY <1>10 DEF AddRecord, RemoveRecord
  <2>1. PICK c : Edit(s, c)
    BY <2>0
  <2>2. mem'["settings"] = mem["settings"]
    BY <2>1, ItemFacts DEF Edit, Inv, TypeOK
  <2> QED
    BY <2>1, <2>2 DEF Edit, Roots
<1>11. CASE \E m \in Mark : ManageFilters(m)
  BY <1>11 DEF ManageFilters, Roots
<1>12. CASE \E m \in Mark : _import_filters_csv(m) \/ _import_bookmarks_csv(m)
  BY <1>12 DEF _import_filters_csv, _import_bookmarks_csv, Import, Roots
<1>13. CASE \E r \in Root : AddShare(r)
  BY <1>13 DEF AddShare, Roots
<1>14. CASE \E l \in List : AddList(l) \/ MovePath(l)
  BY <1>14 DEF AddList, MovePath, Roots
<1>15. CASE \E x \in Root \cup List : RemoveRow(x)
  BY <1>15 DEF RemoveRow, Roots
<1>16. CASE \E c \in SUBSET (Root \cup List) : ImportSettings(c)
  BY <1>16 DEF ImportSettings, Roots
<1>17. CASE \E stays \in BOOLEAN : Apply(stays)
  <2>1. mem'["settings"] = shown /\ up' = up /\ up
    BY <1>17, ItemFacts DEF Apply, idle, Inv, TypeOK
  <2>2. noticed' = Roots(shown)
    BY <1>17, <2>1 DEF Apply
  <2>3. ~shared'
    BY <1>17 DEF Apply, Closed, EmitsOwn
  <2> QED
    BY <2>1, <2>2, <2>3 DEF Roots
<1>18. CASE UNCHANGED vars
  BY <1>18 DEF Roots
<1>19. CASE \E s \in Store : DamageFile(s)
  BY <1>19 DEF DamageFile
<1> QED
  BY <1>1, <1>3, <1>4, <1>5, <1>6, <1>7, <1>8, <1>9, <1>10, <1>11, <1>12,
     <1>13, <1>14, <1>15, <1>16, <1>17, <1>18, <1>19 DEF Next

All == Inv /\ KeptInv /\ NoticedInv

\* The three invariants hold in every reachable state.
LEMMA AllHold == Spec => []All
<1>1. Init => All
  <2>1. Init => KeptInv
    <3> SUFFICES ASSUME Init PROVE KeptInv
      OBVIOUS
    <3>1. \A s \in Store : file[s] \in {{}, Missing} /\ wanted[s] = {}
      BY DEF Init
    <3> QED
      BY <3>1 DEF Init, KeptInv, Loaded
  <2>2. Init => NoticedInv
    BY DEF Init, NoticedInv
  <2> QED
    BY <2>1, <2>2, TypeInit, SaveInvInit DEF Inv, All
<1>2. All /\ [Next]_vars => All'
  BY TypeStep, SaveInvStep, KeptStep, NoticedStep DEF Inv, NoticedInv, All
<1> QED
  BY <1>1, <1>2, PTL DEF Spec

\* No update is lost over edits, imports behind an owner's back, saves that
\* fail and restarts (property UpdatesKept), whatever the constants.
THEOREM NoUpdateLost == Spec => []UpdatesKept
<1>1. All => UpdatesKept
  BY DEF All, UpdatesKept, KeptInv, idle, Store
<1> QED
  BY <1>1, AllHold, PTL

\* No change of the network folders escapes the indexing, over any number of
\* Apply in one dialog (property ChangesNoticed), whatever the constants.
THEOREM FoldersIndexed == Spec => []ChangesNoticed
<1>1. All => ChangesNoticed
  BY DEF All, ChangesNoticed, NoticedInv, idle
<1> QED
  BY <1>1, AllHold, PTL

=============================================================================

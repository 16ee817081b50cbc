------------------------- MODULE ContentCacheProofs --------------------------
(***************************************************************************)
(* What content: searches promise over any number of files, jobs, searches *)
(* and purges: a result is due to a text its file has had since the search *)
(* began, and no file that matched throughout is missed.  And what jobs    *)
(* store stays within the quota.                                           *)
(***************************************************************************)
EXTENDS ContentCache, TLAPS, FiniteSetTheorems

Content == Text \cup {Gone}
Version == [ver : Nat, text : Content]
Item == [file : File \cup {NoItem.file}, ver : Nat, text : Content]

\* The types of what searches and jobs share; the job's count of bytes is left out.
TypeOK ==
    /\ disk \in [File -> Version] /\ rows \in [File -> Version]
    /\ fts \in [File -> Content]
    /\ pc \in [Worker -> {"idle", "next", "extract", "store", "fts", "like", "match"}]
    /\ todo \in [Worker -> SUBSET File]
    /\ item \in [Worker -> Item]
    /\ \A w \in Worker : pc[w] \in {"extract", "store"} => item[w].file \in File
    /\ fresh \in [File -> Nat]
    /\ held \in [File -> SUBSET Content]
    /\ hits \subseteq File /\ found \subseteq File
    /\ excused \subseteq File /\ overtaken \subseteq File
    /\ byWord \in BOOLEAN

\* The values that stand for nothing have the types of what they replace.
LEMMA NothingTyped == NoRow \in Version /\ NoItem \in Item /\ Gone \in Content
<1>1. NoRow \in Version /\ Gone \in Content
  BY DEF NoRow, Version, Content
<1>2. NoItem.ver = 0 /\ NoItem.text = Gone
      /\ NoItem = [file |-> NoItem.file, ver |-> NoItem.ver, text |-> NoItem.text]
  BY DEF NoItem
<1> QED
  BY <1>1, <1>2 DEF Item, Content

\* The files, workers and texts of a state.
LEMMA WorkerNames == "job" \in Worker /\ "search" \in Worker
BY DEF Worker

-----------------------------------------------------------------------------
(* What a step may do to each part of the state *)

\* A file keeps its version and text, or gets a new version.
LEMMA DiskStep ==
  ASSUME TypeOK, [Next]_vars
  PROVE  /\ disk' \in [File -> Version]
         /\ \A f \in File : disk'[f] = disk[f] \/ disk'[f].ver > disk[f].ver
<1>1. ASSUME NEW f \in File, NEW t \in Content, ChangeFile(f, t)
      PROVE  /\ disk' \in [File -> Version]
             /\ \A g \in File : disk'[g] = disk[g] \/ disk'[g].ver > disk[g].ver
  <2>1. disk' = [disk EXCEPT ![f] = [ver |-> disk[f].ver + 1, text |-> t]]
    BY <1>1 DEF ChangeFile
  <2>2. disk \in [File -> Version] /\ disk[f].ver \in Nat
    BY DEF TypeOK, Version
  <2>3. [ver |-> disk[f].ver + 1, text |-> t] \in Version
    BY <2>2 DEF Version
  <2> QED
    BY <2>1, <2>2, <2>3
<1>2. CASE disk' = disk
  BY <1>2 DEF TypeOK
<1>3. ContentIndexWorker \/ Searching => disk' = disk
  BY DEF ContentIndexWorker, Searching, JobBegins, JobExtracts, JobStores, JobEnds,
         JobLooksAt, SearchBegins, SearchFts, SearchLike, SearchExtracts, SearchStores,
         SearchEnds, MatchCached, content_search, MatchMember
<1>4. (\E S \in {File} \cup {{f} : f \in File} : Purge(S)) \/ UNCHANGED vars => disk' = disk
  BY DEF Purge, vars
<1> QED
  BY <1>1, <1>2, <1>3, <1>4 DEF Next, Content

\* What the two kinds of steps of a job and of a search do to its item.
Keeps(w) == pc'[w] = pc[w] /\ item'[w] = item[w]
Leaves(w) == pc'[w] \notin {"extract", "store"} /\ item'[w] \in {item[w], NoItem}
Takes(w, f) == /\ pc'[w] = "extract"
               /\ item'[w] = [file |-> f, ver |-> disk[f].ver, text |-> Gone]
               /\ w = "search" => f \in todo[w] \ Archive
               /\ UNCHANGED <<disk, tables, held>> /\ todo'["search"] = todo["search"]
Reads(w) == /\ pc[w] = "extract" /\ pc'[w] = "store"
            /\ item'[w] = [file |-> item[w].file, ver |-> item[w].ver,
                           text |-> disk[item[w].file].text]
            /\ UNCHANGED <<disk, tables, held>> /\ todo'["search"] = todo["search"]

\* One worker moves at a time.
LEMMA ItemStep ==
  ASSUME TypeOK, [Next]_vars, NEW w \in Worker
  PROVE  Keeps(w) \/ Leaves(w) \/ Reads(w) \/ \E f \in File : Takes(w, f)
<1>1. \A v \in Worker : v # w => \A x : /\ [pc EXCEPT ![v] = x][w] = pc[w]
                                        /\ [item EXCEPT ![v] = x][w] = item[w]
  BY DEF TypeOK
<1>2. \A x : [pc EXCEPT ![w] = x][w] = x /\ [item EXCEPT ![w] = x][w] = x
  BY DEF TypeOK
<1>3. CASE UNCHANGED <<pc, item>>
  BY <1>3 DEF Keeps
<1>4. CASE JobBegins \/ JobEnds
  BY <1>1, <1>2, <1>4, WorkerNames DEF JobBegins, JobEnds, Keeps, Leaves
<1>5. ASSUME NEW f \in File, JobLooksAt(f)
      PROVE  Keeps(w) \/ Takes(w, f)
  <2>1. CASE UNCHANGED <<pc, item>>
    BY <2>1 DEF Keeps
  <2>2. CASE TakeFile("job", f)
    <3>1. UNCHANGED <<disk, tables, held>> /\ todo'["search"] = todo["search"]
      BY <1>5 DEF JobLooksAt, TypeOK, Worker
    <3>2. CASE w = "job"
      BY <1>2, <2>2, <3>1, <3>2 DEF TakeFile, Takes
    <3>3. CASE w # "job"
      BY <1>1, <2>2, <3>3, WorkerNames DEF TakeFile, Keeps
    <3> QED
      BY <3>2, <3>3
  <2> QED
    BY <1>5, <2>1, <2>2 DEF JobLooksAt
<1>6. CASE JobExtracts
  <2>1. pc["job"] = "extract" /\ UNCHANGED <<disk, tables, held, todo>>
    BY <1>6 DEF JobExtracts
  <2>2. CASE Extract("job")
    <3>1. CASE w = "job"
      BY <1>2, <2>1, <2>2, <3>1 DEF Extract, Reads
    <3>2. CASE w # "job"
      BY <1>1, <2>2, <3>2, WorkerNames DEF Extract, Keeps
    <3> QED
      BY <3>1, <3>2
  <2>3. CASE /\ pc' = [pc EXCEPT !["job"] = "next"]
             /\ item' = [item EXCEPT !["job"] = NoItem]
    BY <1>1, <1>2, <2>3, WorkerNames DEF Keeps, Leaves
  <2> QED
    BY <1>6, <2>2, <2>3 DEF JobExtracts
<1>7. CASE JobStores
  <2>1. /\ pc' = [pc EXCEPT !["job"] = "next"]
        /\ item' = [item EXCEPT !["job"] = NoItem]
    BY <1>7 DEF JobStores
  <2> QED
    BY <1>1, <1>2, <2>1, WorkerNames DEF Keeps, Leaves
<1>8. ASSUME NEW p \in {"fts", "like", "match", "idle"}, pc' = [pc EXCEPT !["search"] = p],
             item' = item
      PROVE  Keeps(w) \/ Leaves(w)
  BY <1>1, <1>2, <1>8, WorkerNames DEF Keeps, Leaves
<1>9. CASE SearchFts \/ SearchLike \/ SearchEnds \/ \E c \in BOOLEAN : SearchBegins(c)
  <2>1. /\ item' = item
        /\ \E p \in {"fts", "like", "match", "idle"} : pc' = [pc EXCEPT !["search"] = p]
    BY <1>9 DEF SearchFts, SearchLike, SearchEnds, SearchBegins, _content_cache_filter
  <2> QED
    BY <1>8, <2>1
<1>10. ASSUME NEW f \in File, content_search(f)
       PROVE  Keeps(w) \/ Takes(w, f)
  <2>1. CASE UNCHANGED <<pc, item>>
    BY <2>1 DEF Keeps
  <2>2. CASE TakeFile("search", f) /\ todo' = todo
    <3>1. UNCHANGED <<disk, tables, held>> /\ f \in todo["search"] \ Archive
      BY <1>10 DEF content_search
    <3>2. CASE w = "search"
      BY <1>2, <2>2, <3>1, <3>2 DEF TakeFile, Takes
    <3>3. CASE w # "search"
      BY <1>1, <2>2, <3>3, WorkerNames DEF TakeFile, Keeps
    <3> QED
      BY <3>2, <3>3
  <2> QED
    BY <1>10, <2>1, <2>2 DEF content_search
<1>11. CASE SearchExtracts
  <2>1. pc["search"] = "extract" /\ UNCHANGED <<disk, tables, held>>
    BY <1>11 DEF SearchExtracts
  <2>2. CASE Extract("search") /\ todo' = todo
    <3>1. CASE w = "search"
      BY <1>2, <2>1, <2>2, <3>1 DEF Extract, Reads
    <3>2. CASE w # "search"
      BY <1>1, <2>2, <3>2, WorkerNames DEF Extract, Keeps
    <3> QED
      BY <3>1, <3>2
  <2>3. CASE /\ pc' = [pc EXCEPT !["search"] = "match"]
             /\ item' = [item EXCEPT !["search"] = NoItem]
    BY <1>1, <1>2, <2>3, WorkerNames DEF Keeps, Leaves
  <2> QED
    BY <1>11, <2>2, <2>3 DEF SearchExtracts
<1>12. CASE SearchStores
  <2>1. /\ pc' = [pc EXCEPT !["search"] = "match"]
        /\ item' = [item EXCEPT !["search"] = NoItem]
    BY <1>12 DEF SearchStores
  <2> QED
    BY <1>1, <1>2, <2>1, WorkerNames DEF Keeps, Leaves
<1>13. ASSUME \/ \E f \in File : MatchCached(f) \/ MatchMember(f)
              \/ \E f \in File, t \in Text \cup {Gone} : ChangeFile(f, t)
              \/ \E S \in {File} \cup {{f} : f \in File} : Purge(S)
              \/ UNCHANGED vars
       PROVE  UNCHANGED <<pc, item>>
  BY <1>13 DEF MatchCached, MatchMember, ChangeFile, Purge, vars
<1> QED
  BY <1>3, <1>4, <1>5, <1>6, <1>7, <1>9, <1>10, <1>11, <1>12, <1>13
     DEF Next, ContentIndexWorker, Searching

\* What a step does to the row of a file.
Untouched(f) == rows'[f] = rows[f] /\ fts'[f] = fts[f]
Purged(f) == /\ rows'[f] = NoRow /\ fts'[f] = Gone /\ disk' = disk
             /\ pc'["search"] = pc["search"] /\ fresh' = fresh
             /\ pc["search"] \in {"fts", "like"} => f \in excused'
Stored(w, f) == /\ pc[w] = "store" /\ f = item[w].file
                /\ rows'[f] = [ver |-> item[w].ver, text |-> item[w].text]
                /\ fts'[f] = item[w].text /\ disk' = disk /\ fresh' = fresh
                /\ pc'[w] \notin {"extract", "store"}
                /\ w = "job" => pc'["search"] = pc["search"]
                /\ w = "job" /\ pc["search"] \in {"fts", "like"} /\ item[w].ver < fresh[f]
                       => f \in overtaken'

\* A row changes when a worker stores a text or a purge drops it.
LEMMA RowStep ==
  ASSUME TypeOK, [Next]_vars
  PROVE  /\ rows' \in [File -> Version] /\ fts' \in [File -> Content]
         /\ \A f \in File : Untouched(f) \/ Purged(f) \/ \E w \in Worker : Stored(w, f)
<1> DEFINE Goal == /\ rows' \in [File -> Version] /\ fts' \in [File -> Content]
                   /\ \A f \in File : \/ Untouched(f) \/ Purged(f)
                                      \/ \E w \in Worker : Stored(w, f)
<1>1. rows \in [File -> Version] /\ fts \in [File -> Content]
  BY DEF TypeOK
<1>2. CASE UNCHANGED tables
  BY <1>1, <1>2 DEF tables, Untouched
<1>3. ASSUME NEW w \in Worker, pc[w] = "store", upsert_content_cache(w), disk' = disk,
             fresh' = fresh, pc'[w] \notin {"extract", "store"},
             w = "job" => pc'["search"] = pc["search"],
             w = "job" => overtaken' = IF /\ pc["search"] \in {"fts", "like"}
                                          /\ item[w].ver < fresh[item[w].file]
                                       THEN overtaken \cup {item[w].file} ELSE overtaken
      PROVE  Goal
  <2> DEFINE f == item[w].file
  <2>1. f \in File /\ item[w].ver \in Nat /\ item[w].text \in Content
    BY <1>3 DEF TypeOK, Item
  <2>2. [ver |-> item[w].ver, text |-> item[w].text] \in Version
    BY <2>1 DEF Version
  <2>3. CASE UNCHANGED tables
    BY <2>3, <1>2
  <2>4. CASE /\ rows' = [rows EXCEPT ![f] = [ver |-> item[w].ver, text |-> item[w].text]]
             /\ fts' = [fts EXCEPT ![f] = item[w].text]
    <3>1. rows' \in [File -> Version] /\ fts' \in [File -> Content]
      BY <1>1, <2>1, <2>2, <2>4
    <3>2. \A g \in File : g # f => Untouched(g)
      BY <1>1, <2>4 DEF Untouched
    <3>3. /\ rows'[f] = [ver |-> item[w].ver, text |-> item[w].text]
          /\ fts'[f] = item[w].text
      BY <1>1, <2>1, <2>4
    <3>4. Stored(w, f)
      BY <1>3, <3>3 DEF Stored
    <3> QED
      BY <3>1, <3>2, <3>4
  <2> QED
    BY <1>3, <2>3, <2>4 DEF upsert_content_cache
<1>4. CASE JobStores
  <2>1. UNCHANGED <<disk, fresh>> /\ upsert_content_cache("job") /\ pc["job"] = "store"
    BY <1>4 DEF JobStores, query
  <2>2. pc'["search"] = pc["search"] /\ pc'["job"] = "next"
    BY <1>4, WorkerNames DEF JobStores, TypeOK
  <2>3. overtaken' = IF /\ pc["search"] \in {"fts", "like"}
                        /\ item["job"].ver < fresh[item["job"].file]
                     THEN overtaken \cup {item["job"].file} ELSE overtaken
    BY <1>4 DEF JobStores
  <2> QED
    BY <1>3, <2>1, <2>2, <2>3, WorkerNames
<1>5. CASE SearchStores
  <2>1. UNCHANGED <<disk, fresh>> /\ upsert_content_cache("search") /\ pc["search"] = "store"
    BY <1>5 DEF SearchStores
  <2>2. pc'["search"] = "match"
    BY <1>5, WorkerNames DEF SearchStores, TypeOK
  <2> QED
    BY <1>3, <2>1, <2>2, WorkerNames
<1>6. ASSUME NEW S, Purge(S)
      PROVE  Goal
  <2>1. /\ rows' = [f \in File |-> IF f \in S THEN NoRow ELSE rows[f]]
        /\ fts' = [f \in File |-> IF f \in S THEN Gone ELSE fts[f]]
        /\ UNCHANGED <<disk, pc, fresh>>
        /\ pc["search"] \in {"fts", "like"} => S \subseteq excused'
    BY <1>6 DEF Purge, query
  <2>2. \A f \in File : IF f \in S THEN Purged(f) ELSE Untouched(f)
    BY <2>1 DEF Purged, Untouched
  <2> QED
    BY <1>1, <2>1, <2>2, NothingTyped
<1>7. \/ JobBegins \/ JobEnds \/ JobExtracts \/ SearchFts \/ SearchLike \/ SearchExtracts
      \/ SearchEnds \/ (\E c \in BOOLEAN : SearchBegins(c)) \/ UNCHANGED vars
      \/ \E f \in File : \/ JobLooksAt(f) \/ MatchCached(f) \/ content_search(f)
                         \/ MatchMember(f)
      \/ \E f \in File, t \in Text \cup {Gone} : ChangeFile(f, t)
      => UNCHANGED tables
  BY DEF JobBegins, JobEnds, JobExtracts, SearchFts, SearchLike, SearchExtracts,
         SearchEnds, SearchBegins, vars, JobLooksAt, MatchCached, content_search,
         MatchMember, ChangeFile
<1> QED
  BY <1>2, <1>4, <1>5, <1>6, <1>7 DEF Next, ContentIndexWorker, Searching

-----------------------------------------------------------------------------
(* A search *)

Looking == pc["search"] \in {"fts", "like"}
Deciding == pc["search"] \in {"match", "extract", "store"}

\* A step of somebody else, as the search sees it.
Aside == /\ UNCHANGED <<fresh, hits, found, byWord>>
         /\ pc'["search"] = pc["search"] /\ todo'["search"] = todo["search"]
         /\ excused \subseteq excused' /\ overtaken \subseteq overtaken'

\* On what ground a file is found, or passed over.
Supports(f) ==
    \/ IsFresh(f) /\ f \in hits
    \/ Cached(f) /\ rows[f].text \in Matching
    \/ /\ pc["search"] = "store" /\ f = item["search"].file
       /\ item["search"].text \in Matching
Denies(f) ==
    \/ IsFresh(f) /\ f \notin hits
    \/ f \in Archive /\ ~IsFresh(f)
    \/ Cached(f) /\ rows[f].text \notin Matching
    \/ disk[f].text = Gone
    \/ f \in excused'
    \/ /\ pc["search"] = "store" /\ f = item["search"].file
       /\ item["search"].text \notin Matching

\* The search goes through the files, one at a time.
Goes == /\ Deciding /\ Deciding'
        /\ UNCHANGED <<disk, held, fresh, hits, byWord, overtaken>>
        /\ excused \subseteq excused'
        /\ \/ todo'["search"] = todo["search"] /\ found' = found
           \/ \E f \in todo["search"] :
                 /\ todo'["search"] = todo["search"] \ {f}
                 /\ \/ found' = found \cup {f} /\ Supports(f)
                    \/ found' = found /\ Denies(f)
                 /\ pc'["search"] = "match"

\* What a search does at a time.
LEMMA SearchStep ==
  ASSUME TypeOK, [Next]_vars,
         pc["search"] \in {"extract", "store"} => item["search"].file \in todo["search"]
  PROVE  \/ Aside \/ Goes \/ SearchFts \/ SearchLike \/ SearchEnds
         \/ \E c \in BOOLEAN : SearchBegins(c)
<1>1. /\ \A x : [pc EXCEPT !["job"] = x]["search"] = pc["search"]
      /\ \A x : [todo EXCEPT !["job"] = x]["search"] = todo["search"]
      /\ \A x : [pc EXCEPT !["search"] = x]["search"] = x
      /\ \A x : [todo EXCEPT !["search"] = x]["search"] = x
  BY DEF TypeOK, Worker
<1>2. CASE JobBegins \/ JobEnds \/ JobExtracts \/ JobStores
  <2>1. /\ UNCHANGED query /\ excused' = excused /\ overtaken \subseteq overtaken'
        /\ todo' = todo \/ \E x : todo' = [todo EXCEPT !["job"] = x]
    BY <1>2 DEF JobBegins, JobEnds, JobExtracts, JobStores
  <2>2. \E x : pc' = [pc EXCEPT !["job"] = x]
    BY <1>2 DEF JobBegins, JobEnds, JobExtracts, JobStores, Extract
  <2> QED
    BY <1>1, <2>1, <2>2 DEF Aside, query
<1>3. ASSUME NEW f \in File, JobLooksAt(f)
      PROVE  Aside
  BY <1>1, <1>3 DEF JobLooksAt, TakeFile, Aside, query
<1>4. CASE \/ UNCHANGED vars
           \/ \E f \in File, t \in Text \cup {Gone} : ChangeFile(f, t)
           \/ \E S \in {File} \cup {{f} : f \in File} : Purge(S)
  BY <1>4 DEF vars, ChangeFile, Purge, Aside, query
<1>5. ASSUME NEW f \in File, MatchCached(f) \/ MatchMember(f)
      PROVE  Goes
  <2>1. /\ pc["search"] = "match" /\ f \in todo["search"] /\ pc' = pc
        /\ UNCHANGED <<disk, held, fresh, hits, byWord, overtaken, excused>>
    BY <1>5 DEF MatchCached, MatchMember
  <2>2. CASE MatchCached(f)
    <3>1. Decide(f, f \in hits) /\ IsFresh(f)
      BY <2>2 DEF MatchCached
    <3> QED
      BY <1>1, <2>1, <3>1 DEF Decide, Goes, Deciding, Supports, Denies
  <2>3. CASE MatchMember(f)
    <3>1. Decide(f, f \in hits /\ IsFresh(f)) /\ f \in Archive
      BY <2>1, <2>3 DEF MatchMember
    <3> QED
      BY <1>1, <2>1, <3>1 DEF Decide, Goes, Deciding, Supports, Denies
  <2> QED
    BY <1>5, <2>2, <2>3
<1>6. ASSUME NEW f \in File, content_search(f)
      PROVE  Goes
  <2>1. /\ pc["search"] = "match" /\ f \in todo["search"]
        /\ UNCHANGED <<disk, held, fresh, hits, byWord, overtaken, excused>>
    BY <1>6 DEF content_search
  <2>2. CASE (disk[f].text = Gone \/ Cached(f)) /\ pc' = pc
             /\ Decide(f, Cached(f) /\ rows[f].text \in Matching)
    BY <1>1, <2>1, <2>2 DEF Decide, Goes, Deciding, Supports, Denies
  <2>3. CASE TakeFile("search", f) /\ UNCHANGED <<todo, found>>
    BY <1>1, <2>1, <2>3 DEF TakeFile, Goes, Deciding
  <2> QED
    BY <1>6, <2>2, <2>3 DEF content_search
<1>7. CASE SearchExtracts
  <2>1. /\ pc["search"] = "extract" /\ item["search"].file \in todo["search"]
        /\ UNCHANGED <<disk, held, fresh, hits, byWord, overtaken>>
    BY <1>7 DEF SearchExtracts
  <2>2. CASE Extract("search") /\ UNCHANGED <<todo, found, excused>>
    BY <1>1, <2>1, <2>2 DEF Extract, Goes, Deciding
  <2>3. CASE /\ pc' = [pc EXCEPT !["search"] = "match"]
             /\ Decide(item["search"].file, FALSE)
             /\ excused' = excused \cup {item["search"].file}
    BY <1>1, <2>1, <2>3 DEF Decide, Goes, Deciding, Denies
  <2> QED
    BY <1>7, <2>2, <2>3 DEF SearchExtracts
<1>8. CASE SearchStores
  <2>1. /\ pc["search"] = "store" /\ item["search"].file \in todo["search"]
        /\ UNCHANGED <<disk, held, fresh, hits, byWord, overtaken, excused>>
        /\ pc' = [pc EXCEPT !["search"] = "match"]
        /\ Decide(item["search"].file, item["search"].text \in Matching)
    BY <1>8 DEF SearchStores
  <2> QED
    BY <1>1, <2>1 DEF Decide, Goes, Deciding, Supports, Denies
<1> QED
  BY <1>2, <1>3, <1>4, <1>5, <1>6, <1>7, <1>8 DEF Next, ContentIndexWorker, Searching

-----------------------------------------------------------------------------
(* Types, and the histories *)

Places == {"idle", "next", "extract", "store", "fts", "like", "match"}

\* Where the workers are and what they have before them.
LEMMA WorkTyped ==
  ASSUME TypeOK, [Next]_vars
  PROVE  pc' \in [Worker -> Places] /\ todo' \in [Worker -> SUBSET File]
<1>1. pc \in [Worker -> Places] /\ todo \in [Worker -> SUBSET File]
  BY DEF TypeOK, Places
<1>2. pc' = pc \/ \E w \in Worker, p \in Places : pc' = [pc EXCEPT ![w] = p]
  BY WorkerNames DEF Next, ContentIndexWorker, Searching, JobBegins, JobExtracts,
     JobStores, JobEnds, JobLooksAt, SearchBegins, SearchFts, SearchLike, SearchExtracts,
     SearchStores, SearchEnds, MatchCached, content_search, MatchMember, ChangeFile,
     Purge, TakeFile, Extract, _content_cache_filter, Places, vars
<1>3. todo' = todo \/ \E w \in Worker, T \in SUBSET File : todo' = [todo EXCEPT ![w] = T]
  <2>1. CASE ContentIndexWorker
    BY <2>1, <1>1, WorkerNames
       DEF ContentIndexWorker, JobBegins, JobExtracts, JobStores, JobEnds, JobLooksAt
  <2>2. CASE Searching
    BY <2>2, <1>1, WorkerNames
       DEF Searching, SearchBegins, SearchFts, SearchLike, SearchExtracts, SearchStores,
           SearchEnds, MatchCached, content_search, MatchMember, Decide
  <2>3. (\E f \in File, t \in Text \cup {Gone} : ChangeFile(f, t))
        \/ (\E S \in {File} \cup {{f} : f \in File} : Purge(S)) \/ UNCHANGED vars
        => todo' = todo
    BY DEF ChangeFile, Purge, vars
  <2> QED
    BY <2>1, <2>2, <2>3 DEF Next
<1> QED
  BY <1>1, <1>2, <1>3

\* The texts a file has had since the search began.
LEMMA HeldStep ==
  ASSUME TypeOK, [Next]_vars
  PROVE  /\ held' \in [File -> SUBSET Content]
         /\ pc["search"] # "idle" /\ pc'["search"] # "idle" =>
               \A f \in File : /\ held[f] \subseteq held'[f]
                               /\ disk'[f] = disk[f] \/ disk'[f].text \in held'[f]
<1>1. held \in [File -> SUBSET Content] /\ disk \in [File -> Version]
  BY DEF TypeOK
<1>2. ASSUME NEW f \in File, NEW t \in Content, ChangeFile(f, t)
      PROVE  /\ held' \in [File -> SUBSET Content]
             /\ pc["search"] # "idle" =>
                   \A g \in File : /\ held[g] \subseteq held'[g]
                                   /\ disk'[g] = disk[g] \/ disk'[g].text \in held'[g]
  <2>1. /\ disk' = [disk EXCEPT ![f] = [ver |-> disk[f].ver + 1, text |-> t]]
        /\ held' = [held EXCEPT ![f] = IF pc["search"] = "idle" THEN {} ELSE held[f] \cup {t}]
    BY <1>2 DEF ChangeFile
  <2>2. held' \in [File -> SUBSET Content]
    BY <1>1, <2>1
  <2>3. disk'[f].text = t /\ \A g \in File : g # f => disk'[g] = disk[g]
    BY <1>1, <2>1
  <2> QED
    BY <1>1, <2>1, <2>2, <2>3
<1>3. CASE SearchEnds \/ \E c \in BOOLEAN : SearchBegins(c)
  <2>1. \/ held' = [f \in File |-> {}] /\ pc'["search"] = "idle"
        \/ held' = [f \in File |-> {disk[f].text}] /\ pc["search"] = "idle"
    BY <1>3, WorkerNames DEF SearchEnds, SearchBegins, TypeOK
  <2> QED
    BY <1>1, <2>1 DEF Version
<1>4. CASE UNCHANGED <<disk, held>>
  BY <1>1, <1>4
<1>5. \/ ContentIndexWorker \/ SearchFts \/ SearchLike \/ SearchExtracts \/ SearchStores
      \/ (\E f \in File : MatchCached(f) \/ content_search(f) \/ MatchMember(f))
      \/ (\E S \in {File} \cup {{f} : f \in File} : Purge(S)) \/ UNCHANGED vars
      => UNCHANGED <<disk, held>>
  BY DEF ContentIndexWorker, JobBegins, JobExtracts, JobStores, JobEnds, JobLooksAt,
         SearchFts, SearchLike, SearchExtracts, SearchStores, MatchCached,
         content_search, MatchMember, Purge, vars
<1> QED
  BY <1>2, <1>3, <1>4, <1>5 DEF Next, Searching, Content

\* A file is overtaken by a job that stores an older text than the one found fresh.
LEMMA OvertakenStep ==
  ASSUME TypeOK, [Next]_vars, NEW f \in overtaken', f \notin overtaken
  PROVE  /\ f \in File
         /\ pc["job"] = "store" /\ f = item["job"].file /\ item["job"].ver < fresh[f]
<1>1. overtaken' \subseteq overtaken \/ JobStores
  BY DEF Next, ContentIndexWorker, Searching, JobBegins, JobExtracts,
     JobEnds, JobLooksAt, SearchBegins, SearchFts, SearchLike, SearchExtracts,
     SearchStores, SearchEnds, MatchCached, content_search, MatchMember, ChangeFile,
     Purge, vars
<1> QED
  BY <1>1, WorkerNames DEF JobStores, TypeOK

\* The results and histories stay sets of files.
LEMMA SearchTyped ==
  ASSUME TypeOK, [Next]_vars
  PROVE  /\ fresh' \in [File -> Nat] /\ byWord' \in BOOLEAN
         /\ hits' \subseteq File /\ found' \subseteq File
         /\ excused' \subseteq File /\ overtaken' \subseteq File
<1>1. /\ fresh \in [File -> Nat] /\ byWord \in BOOLEAN
      /\ hits \subseteq File /\ found \subseteq File
      /\ excused \subseteq File /\ overtaken \subseteq File
  BY DEF TypeOK
<1>2. fresh' \in [File -> Nat]
  <2>1. \/ fresh' = fresh \/ fresh' = [f \in File |-> 0]
        \/ fresh' = [f \in File |-> rows[f].ver]
    BY DEF Next, ContentIndexWorker, Searching, JobBegins, JobExtracts, JobStores,
       JobEnds, JobLooksAt, SearchBegins, SearchFts, SearchLike, SearchExtracts,
       SearchStores, SearchEnds, MatchCached, content_search, MatchMember, ChangeFile,
       Purge, vars, _content_cache_filter, query, get_content_cache_freshness
  <2> QED
    BY <1>1, <2>1 DEF TypeOK, Version
<1>3. byWord' \in BOOLEAN /\ hits' \subseteq File
  <2>1. /\ byWord' \in {byWord, FALSE} \/ byWord' = (hits' # {})
        /\ hits' \in {hits, {}} \/ \E P : hits' = {f \in File : f \in P}
    <3>1. CASE SearchFts
      <4>1. hits' = {f \in File : f \in {g \in File :
                       fts[g] = "word" \/ (g \in Named /\ fts[g] # Gone)}}
        BY <3>1 DEF SearchFts
      <4> QED
        BY <3>1, <4>1 DEF SearchFts
    <3>2. CASE SearchLike
      <4>1. hits' = {f \in File : f \in {g \in File : rows[g].text \in Matching}}
        BY <3>2 DEF SearchLike
      <4> QED
        BY <3>2, <4>1 DEF SearchLike
    <3>3. CASE SearchEnds
      BY <3>3 DEF SearchEnds
    <3>4. CASE \/ ContentIndexWorker \/ SearchExtracts \/ SearchStores
               \/ (\E c \in BOOLEAN : SearchBegins(c))
               \/ (\E f \in File : MatchCached(f) \/ content_search(f) \/ MatchMember(f))
               \/ (\E f \in File, t \in Text \cup {Gone} : ChangeFile(f, t))
               \/ (\E S \in {File} \cup {{f} : f \in File} : Purge(S)) \/ UNCHANGED vars
      <4>1. UNCHANGED <<byWord, hits>>
        BY <3>4 DEF ContentIndexWorker, JobBegins, JobExtracts, JobStores, JobEnds,
           JobLooksAt, SearchBegins, SearchExtracts, SearchStores, MatchCached,
           content_search, MatchMember, ChangeFile, Purge, vars, query
      <4> QED
        BY <4>1
    <3> QED
      BY <3>1, <3>2, <3>3, <3>4 DEF Next, Searching
  <2> QED
    BY <1>1, <2>1
<1>4. found' \subseteq File
  <2>1. found' \subseteq found \cup File
    <3>1. CASE ContentIndexWorker
      BY <3>1 DEF ContentIndexWorker, JobBegins, JobExtracts, JobStores, JobEnds,
         JobLooksAt, query
    <3>2. CASE Searching
      BY <3>2 DEF Searching, SearchBegins, SearchFts, SearchLike, SearchExtracts,
         SearchStores, SearchEnds, MatchCached, content_search, MatchMember, Decide,
         TypeOK, Worker
    <3>3. (\E f \in File, t \in Text \cup {Gone} : ChangeFile(f, t))
          \/ (\E S \in {File} \cup {{f} : f \in File} : Purge(S)) \/ UNCHANGED vars
          => found' = found
      BY DEF ChangeFile, Purge, vars, query
    <3> QED
      BY <3>1, <3>2, <3>3 DEF Next
  <2> QED
    BY <1>1, <2>1
<1>5. excused' \subseteq File
  <2>1. \/ excused' \subseteq excused \/ SearchExtracts
        \/ \E S \in {File} \cup {{f} : f \in File} : Purge(S)
    BY DEF Next, ContentIndexWorker, Searching, JobBegins, JobExtracts, JobStores,
       JobEnds, JobLooksAt, SearchBegins, SearchFts, SearchLike, SearchStores, SearchEnds,
       MatchCached, content_search, MatchMember, ChangeFile, vars
  <2>2. CASE SearchExtracts
    BY <1>1, <2>2 DEF SearchExtracts, TypeOK, Worker
  <2>3. CASE \E S \in {File} \cup {{f} : f \in File} : Purge(S)
    BY <1>1, <2>3 DEF Purge
  <2> QED
    BY <1>1, <2>1, <2>2, <2>3
<1>6. overtaken' \subseteq File
  BY <1>1, OvertakenStep
<1> QED
  BY <1>2, <1>3, <1>4, <1>5, <1>6

\* Every step keeps the types.
LEMMA TypeStep == ASSUME TypeOK, [Next]_vars PROVE TypeOK'
<1>1. ASSUME NEW w \in Worker
      PROVE  item'[w] \in Item /\ (pc'[w] \in {"extract", "store"} => item'[w].file \in File)
  <2>1. /\ item[w] \in Item /\ (pc[w] \in {"extract", "store"} => item[w].file \in File)
        /\ disk \in [File -> Version]
    BY DEF TypeOK
  <2>2. CASE Keeps(w) \/ Leaves(w)
    BY <2>1, <2>2, NothingTyped DEF Keeps, Leaves
  <2>3. CASE Reads(w)
    BY <2>1, <2>3 DEF Reads, Item, Version
  <2>4. ASSUME NEW f \in File, Takes(w, f)
        PROVE  item'[w] \in Item /\ item'[w].file \in File
    BY <2>1, <2>4 DEF Takes, Item, Version, Content
  <2> QED
    BY <2>2, <2>3, <2>4, ItemStep
<1>2. item' \in [Worker -> Item]
  <2>1. \/ item' = item
        \/ \E w \in Worker : \E x : item' = [item EXCEPT ![w] = x]
    BY WorkerNames DEF Next, ContentIndexWorker, Searching, JobBegins, JobExtracts,
       JobStores, JobEnds, JobLooksAt, SearchBegins, SearchFts, SearchLike, SearchExtracts,
       SearchStores, SearchEnds, MatchCached, content_search, MatchMember, ChangeFile,
       Purge, vars, TakeFile, Extract
  <2> QED
    BY <1>1, <2>1 DEF TypeOK
<1> QED
  BY <1>1, <1>2, DiskStep, RowStep, WorkTyped, HeldStep, SearchTyped DEF TypeOK, Places

\* Initially nothing is stored, searched or extracted.
LEMMA TypeInit == Init => TypeOK
<1> SUFFICES ASSUME Init PROVE TypeOK
  OBVIOUS
<1>1. disk \in [File -> Version]
  BY DEF Init, Version, Content
<1>2. rows \in [File -> Version] /\ fts \in [File -> Content] /\ item \in [Worker -> Item]
  BY NothingTyped DEF Init
<1> QED
  BY <1>1, <1>2 DEF Init, TypeOK

-----------------------------------------------------------------------------
(* What is stored under a version is the text of that version, or a later one *)

RowsTrue ==
    \A f \in File : /\ disk[f].ver > 0
                    /\ fts[f] = rows[f].text /\ rows[f].ver <= disk[f].ver
                    /\ rows[f].ver = disk[f].ver => rows[f].text = disk[f].text

\* os.stat came before the text was read.
ItemsTrue ==
    \A w \in Worker :
        /\ pc[w] \in {"extract", "store"} => item[w].ver <= disk[item[w].file].ver
        /\ pc[w] = "store" /\ item[w].ver = disk[item[w].file].ver
             => item[w].text = disk[item[w].file].text

SearchItem ==
    /\ pc["search"] \in {"extract", "store"}
         => item["search"].file \in todo["search"] \ Archive
    /\ pc["search"] = "store" => item["search"].text \in held[item["search"].file]

\* The versions found fresh are no newer than the files, and the texts of now are
\* among those held.
FreshOld == \A f \in File : fresh[f] <= disk[f].ver
HeldNow == pc["search"] # "idle" => \A f \in File : disk[f].text \in held[f]

\* Only jobs store the text of an archive, so its row never gets older.
ArchiveOrder ==
    /\ overtaken \cap Archive = {}
    /\ pc["job"] \in {"extract", "store"} /\ item["job"].file \in Archive =>
         /\ rows[item["job"].file].ver <= item["job"].ver
         /\ fresh[item["job"].file] <= item["job"].ver

\* Versions are numbers.
LEMMA Numbers ==
  ASSUME TypeOK
  PROVE  /\ \A f \in File : /\ disk[f].ver \in Nat /\ rows[f].ver \in Nat
                            /\ fresh[f] \in Nat /\ disk[f].text \in Content
         /\ \A w \in Worker : item[w].ver \in Nat /\ item[w].text \in Content
         /\ \A w \in Worker : pc[w] \in {"extract", "store"} => item[w].file \in File
BY DEF TypeOK, Version, Item

\* A row that is stored is true when the item was.
LEMMA RowsTrueStep ==
  ASSUME TypeOK, [Next]_vars, RowsTrue, ItemsTrue
  PROVE  RowsTrue'
<1> SUFFICES ASSUME NEW f \in File
             PROVE  /\ disk'[f].ver > 0
                    /\ fts'[f] = rows'[f].text /\ rows'[f].ver <= disk'[f].ver
                    /\ rows'[f].ver = disk'[f].ver => rows'[f].text = disk'[f].text
  BY DEF RowsTrue
<1>1. /\ disk[f].ver \in Nat /\ rows[f].ver \in Nat /\ disk'[f].ver \in Nat
      /\ disk'[f] = disk[f] \/ disk'[f].ver > disk[f].ver
  BY DiskStep, Numbers DEF Version
<1>2. /\ disk[f].ver > 0 /\ fts[f] = rows[f].text /\ rows[f].ver <= disk[f].ver
      /\ rows[f].ver = disk[f].ver => rows[f].text = disk[f].text
  BY DEF RowsTrue
<1>3. CASE Untouched(f)
  BY <1>1, <1>2, <1>3 DEF Untouched
<1>4. CASE Purged(f)
  <2>1. rows'[f].ver = 0 /\ rows'[f].text = Gone /\ fts'[f] = Gone /\ disk'[f] = disk[f]
    BY <1>4 DEF Purged, NoRow
  <2> QED
    BY <1>1, <1>2, <2>1
<1>5. ASSUME NEW w \in Worker, Stored(w, f)
      PROVE  /\ fts'[f] = rows'[f].text /\ rows'[f].ver <= disk'[f].ver
             /\ rows'[f].ver = disk'[f].ver => rows'[f].text = disk'[f].text
  BY <1>5 DEF Stored, ItemsTrue
<1> QED
  BY <1>1, <1>2, <1>3, <1>4, <1>5, RowStep

\* What was looked at before it was read stays so.
LEMMA ItemsTrueStep ==
  ASSUME TypeOK, [Next]_vars, ItemsTrue
  PROVE  ItemsTrue'
<1> SUFFICES ASSUME NEW w \in Worker
             PROVE  /\ pc'[w] \in {"extract", "store"}
                         => item'[w].ver <= disk'[item'[w].file].ver
                    /\ pc'[w] = "store" /\ item'[w].ver = disk'[item'[w].file].ver
                         => item'[w].text = disk'[item'[w].file].text
  BY DEF ItemsTrue
<1>1. /\ pc[w] \in {"extract", "store"} => item[w].ver <= disk[item[w].file].ver
      /\ pc[w] = "store" /\ item[w].ver = disk[item[w].file].ver
           => item[w].text = disk[item[w].file].text
      /\ pc[w] \in {"extract", "store"} => item[w].file \in File /\ item[w].ver \in Nat
  BY Numbers DEF ItemsTrue
<1>2. \A f \in File : /\ disk'[f] = disk[f] \/ disk'[f].ver > disk[f].ver
                      /\ disk[f].ver \in Nat /\ disk'[f].ver \in Nat
  BY DiskStep, Numbers DEF Version
<1>3. CASE Keeps(w)
  BY <1>1, <1>2, <1>3 DEF Keeps
<1>4. CASE Leaves(w)
  BY <1>4 DEF Leaves
<1>5. CASE Reads(w)
  BY <1>1, <1>5 DEF Reads
<1>6. ASSUME NEW f \in File, Takes(w, f)
      PROVE  pc'[w] = "extract" /\ item'[w].ver <= disk'[item'[w].file].ver
  BY <1>2, <1>6 DEF Takes
<1> QED
  BY <1>3, <1>4, <1>5, <1>6, ItemStep

\* The versions found fresh are those of the rows when the search began.
LEMMA FreshStep ==
  ASSUME TypeOK, [Next]_vars, NEW f \in File
  PROVE  \/ fresh'[f] \in {fresh[f], 0}
         \/ fresh'[f] = rows[f].ver /\ pc["search"] = "idle"
<1>1. CASE \E c \in BOOLEAN : SearchBegins(c)
  BY <1>1 DEF SearchBegins, _content_cache_filter, get_content_cache_freshness
<1>2. CASE SearchEnds
  BY <1>2 DEF SearchEnds
<1>3. CASE ~SearchEnds /\ ~\E c \in BOOLEAN : SearchBegins(c)
  <2>1. fresh' = fresh
    BY <1>3 DEF Next, ContentIndexWorker, Searching, JobBegins, JobExtracts, JobStores,
       JobEnds, JobLooksAt, SearchFts, SearchLike, SearchExtracts, SearchStores,
       MatchCached, content_search, MatchMember, ChangeFile, Purge, vars, query
  <2> QED
    BY <2>1
<1> QED
  BY <1>1, <1>2, <1>3

\* No file becomes older than what was found.
LEMMA FreshOldStep ==
  ASSUME TypeOK, [Next]_vars, RowsTrue, FreshOld
  PROVE  FreshOld'
<1> SUFFICES ASSUME NEW f \in File PROVE fresh'[f] <= disk'[f].ver
  BY DEF FreshOld
<1>1. /\ disk[f].ver \in Nat /\ rows[f].ver \in Nat /\ fresh[f] \in Nat
      /\ disk'[f].ver \in Nat /\ (disk'[f] = disk[f] \/ disk'[f].ver > disk[f].ver)
  BY DiskStep, Numbers DEF Version
<1>2. rows[f].ver <= disk[f].ver /\ fresh[f] <= disk[f].ver
  BY DEF RowsTrue, FreshOld
<1> QED
  BY <1>1, <1>2, FreshStep

\* What the disk holds is among the texts held.
LEMMA HeldNowStep ==
  ASSUME TypeOK, [Next]_vars, SearchItem, HeldNow
  PROVE  HeldNow'
<1> SUFFICES ASSUME pc'["search"] # "idle", NEW f \in File
             PROVE  disk'[f].text \in held'[f]
  BY DEF HeldNow
<1>1. CASE pc["search"] # "idle"
  BY <1>1, HeldStep DEF HeldNow
<1>2. CASE pc["search"] = "idle"
  <2>1. \E c \in BOOLEAN : SearchBegins(c)
    BY <1>2, SearchStep
       DEF SearchItem, Aside, Goes, Deciding, SearchFts, SearchLike, SearchEnds
  <2> QED
    BY <2>1 DEF SearchBegins
<1> QED
  BY <1>1, <1>2

\* What a search extracts is a file it has still to decide.
LEMMA SearchItemStep ==
  ASSUME TypeOK, [Next]_vars, SearchItem, HeldNow
  PROVE  SearchItem'
<1> SUFFICES ASSUME pc'["search"] \in {"extract", "store"}
             PROVE  /\ item'["search"].file \in todo'["search"] \ Archive
                    /\ pc'["search"] = "store"
                          => item'["search"].text \in held'[item'["search"].file]
  BY DEF SearchItem
<1>1. CASE Keeps("search")
  <2>1. /\ pc["search"] = pc'["search"] /\ item'["search"] = item["search"]
        /\ item["search"].file \in todo["search"] \ Archive
        /\ item["search"].file \in File
    BY <1>1, WorkerNames DEF Keeps, SearchItem, TypeOK
  <2>2. todo'["search"] = todo["search"]
    <3>1. Aside \/ Goes
      BY <2>1, SearchStep, WorkerNames DEF SearchItem, SearchFts, SearchLike, SearchEnds,
         SearchBegins
    <3> QED
      BY <2>1, <3>1 DEF Aside, Goes
  <2>3. held[item["search"].file] \subseteq held'[item["search"].file]
    BY <2>1, HeldStep
  <2> QED
    BY <2>1, <2>2, <2>3 DEF SearchItem
<1>2. CASE Leaves("search")
  BY <1>2 DEF Leaves
<1>3. CASE Reads("search")
  <2>1. item["search"].file \in File
    BY <1>3, WorkerNames DEF Reads, TypeOK
  <2> QED
    BY <1>3, <2>1 DEF Reads, SearchItem, HeldNow
<1>4. ASSUME NEW f \in File, Takes("search", f)
      PROVE  /\ item'["search"].file \in todo'["search"] \ Archive
             /\ pc'["search"] = "extract"
  BY <1>4 DEF Takes
<1> QED
  BY <1>1, <1>2, <1>3, <1>4, ItemStep, WorkerNames

\* The row of an archive is stored by jobs alone, one after the other.
LEMMA ArchiveOrderStep ==
  ASSUME TypeOK, [Next]_vars, RowsTrue, FreshOld, SearchItem, ArchiveOrder
  PROVE  ArchiveOrder'
<1>1. overtaken' \cap Archive = {}
  <2> SUFFICES ASSUME NEW f \in overtaken', f \in Archive PROVE FALSE
    OBVIOUS
  <2>1. CASE f \in overtaken
    BY <2>1 DEF ArchiveOrder
  <2>2. CASE f \notin overtaken
    <3>1. pc["job"] = "store" /\ f = item["job"].file /\ item["job"].ver < fresh[f] /\ f \in File
      BY <2>2, OvertakenStep
    <3>2. fresh[f] <= item["job"].ver
      BY <3>1 DEF ArchiveOrder
    <3> QED
      BY <3>1, <3>2, Numbers, WorkerNames
  <2> QED
    BY <2>1, <2>2
<1> DEFINE g == item'["job"].file
<1>2. ASSUME pc'["job"] \in {"extract", "store"}, g \in Archive
      PROVE  rows'[g].ver <= item'["job"].ver /\ fresh'[g] <= item'["job"].ver
  <2>1. ASSUME NEW f \in File, Takes("job", f)
        PROVE  rows'[g].ver <= item'["job"].ver /\ fresh'[g] <= item'["job"].ver
    <3>1. g = f /\ item'["job"].ver = disk[f].ver /\ rows' = rows
      BY <2>1 DEF Takes, tables
    <3>2. rows[f].ver <= disk[f].ver /\ fresh[f] <= disk[f].ver
      BY DEF RowsTrue, FreshOld
    <3>3. fresh'[f] \in {fresh[f], 0, rows[f].ver}
      BY FreshStep
    <3> QED
      BY <3>1, <3>2, <3>3, Numbers
  <2>2. CASE Keeps("job") \/ Reads("job")
    <3>1. /\ g = item["job"].file /\ item'["job"].ver = item["job"].ver
          /\ pc["job"] \in {"extract", "store"} /\ g \in File
      BY <1>2, <2>2, WorkerNames DEF Keeps, Reads, TypeOK
    <3>2. rows[g].ver <= item["job"].ver /\ fresh[g] <= item["job"].ver
      BY <1>2, <3>1 DEF ArchiveOrder
    <3>3. fresh'[g] \in {fresh[g], 0, rows[g].ver}
      BY <3>1, FreshStep
    <3>4. rows'[g].ver \in {rows[g].ver, 0}
      <4>1. CASE Untouched(g)
        BY <4>1 DEF Untouched
      <4>2. CASE Purged(g)
        BY <4>2 DEF Purged, NoRow
      <4>3. ASSUME NEW w \in Worker, Stored(w, g)
            PROVE  FALSE
        BY <1>2, <4>3 DEF Stored, SearchItem, Worker
      <4> QED
        BY <3>1, <4>1, <4>2, <4>3, RowStep
    <3> QED
      BY <3>1, <3>2, <3>3, <3>4, Numbers, WorkerNames
  <2>3. CASE Leaves("job")
    BY <1>2, <2>3 DEF Leaves
  <2> QED
    BY <2>1, <2>2, <2>3, ItemStep, WorkerNames
<1> QED
  BY <1>1, <1>2 DEF ArchiveOrder

-----------------------------------------------------------------------------
(* What the search has found out *)

\* Between the two reads of the tables a row becomes older only by a job that stores
\* an older text, or goes by a purge.
RowsSince ==
    Looking => \A f \in File : rows[f].ver < fresh[f] =>
                  f \in overtaken \/ (rows[f] = NoRow /\ f \in excused)

Wanted == IF byWord THEN {"word"} ELSE Matching

\* The answer of the tables, for a file that has not changed since.
HitsTrue ==
    Deciding => \A f \in File \ overtaken : IsFresh(f) =>
        /\ f \in hits => disk[f].text \in Matching \/ (byWord /\ f \in Named)
        /\ f \notin excused /\ disk[f].text \in Wanted => f \in hits

BeforeDeciding ==
    /\ ~Deciding => found = {} /\ ~byWord
    /\ Looking => todo["search"] = File

\* No file that has been decided was missed.
FoundAll ==
    Deciding => \A f \in File \ (todo["search"] \cup excused \cup overtaken) :
                   Findable(f) => f \in found

SearchInv ==
    /\ TypeOK
    /\ RowsTrue /\ ItemsTrue /\ SearchItem /\ FreshOld /\ HeldNow /\ ArchiveOrder
    /\ RowsSince /\ HitsTrue /\ BeforeDeciding /\ FoundAll /\ ResultsCurrent

\* What a search does at a time, from the invariant.
LEMMA SearchMove ==
  ASSUME SearchInv, [Next]_vars
  PROVE  \/ Aside \/ Goes \/ SearchFts \/ SearchLike \/ SearchEnds
         \/ \E c \in BOOLEAN : SearchBegins(c)
BY SearchStep DEF SearchInv, SearchItem

\* Where the search is after its own steps.
LEMMA SearchPlace ==
  ASSUME TypeOK
  PROVE  /\ SearchEnds => pc'["search"] = "idle" /\ pc["search"] = "match"
         /\ SearchFts => pc["search"] = "fts" /\ pc'["search"] \in {"like", "match"}
         /\ SearchLike => pc["search"] = "like" /\ pc'["search"] = "match"
         /\ (\E c \in BOOLEAN : SearchBegins(c))
               => pc["search"] = "idle" /\ pc'["search"] \in {"match", "fts", "like"}
BY WorkerNames DEF TypeOK, SearchEnds, SearchFts, SearchLike, SearchBegins,
   _content_cache_filter

\* The rows that were fresh stay, are replaced by newer ones, or excuse the file.
LEMMA RowsSinceStep ==
  ASSUME SearchInv, [Next]_vars
  PROVE  RowsSince'
<1> SUFFICES ASSUME Looking', NEW f \in File, rows'[f].ver < fresh'[f]
             PROVE  f \in overtaken' \/ (rows'[f] = NoRow /\ f \in excused')
  BY DEF RowsSince
<1>0. TypeOK
  BY DEF SearchInv
<1>1. CASE \E c \in BOOLEAN : SearchBegins(c)
  <2>1. rows' = rows /\ fresh'[f] = rows[f].ver
    BY <1>1 DEF SearchBegins, _content_cache_filter, get_content_cache_freshness, tables
  <2> QED
    BY <1>0, <2>1, Numbers
<1>2. CASE SearchFts
  <2>1. UNCHANGED <<rows, fresh, overtaken, excused>> /\ Looking
    BY <1>2 DEF SearchFts, tables, Looking
  <2> QED
    BY <2>1 DEF SearchInv, RowsSince
<1>3. CASE Aside
  <2>1. /\ fresh' = fresh /\ Looking /\ overtaken \subseteq overtaken'
        /\ excused \subseteq excused'
    BY <1>3 DEF Aside, Looking
  <2>2. rows[f].ver \in Nat /\ fresh[f] \in Nat
    BY <1>0, Numbers
  <2>3. rows[f].ver < fresh[f] => f \in overtaken \/ (rows[f] = NoRow /\ f \in excused)
    BY <2>1 DEF SearchInv, RowsSince
  <2>4. CASE Untouched(f)
    BY <2>1, <2>3, <2>4 DEF Untouched
  <2>5. CASE Purged(f)
    BY <2>1, <2>5 DEF Purged, Looking
  <2>6. ASSUME NEW w \in Worker, Stored(w, f)
        PROVE  f \in overtaken'
    <3>1. w = "job"
      BY <2>1, <2>6 DEF Stored, Looking, Worker
    <3>2. rows'[f].ver = item[w].ver
      BY <2>6 DEF Stored
    <3> QED
      BY <2>1, <2>6, <3>1, <3>2 DEF Stored, Looking
  <2> QED
    BY <1>0, <2>4, <2>5, <2>6, RowStep
<1>4. CASE Goes \/ SearchEnds \/ SearchLike
  BY <1>0, <1>4, SearchPlace DEF Goes, Deciding, Looking
<1> QED
  BY <1>1, <1>2, <1>3, <1>4, SearchMove

\* The tables answer for each text that is fresh what it holds.
LEMMA HitsTrueStep ==
  ASSUME SearchInv, [Next]_vars
  PROVE  HitsTrue'
<1> SUFFICES ASSUME Deciding', NEW f \in File, f \notin overtaken', IsFresh(f)'
             PROVE  /\ f \in hits' => disk'[f].text \in Matching \/ (byWord' /\ f \in Named)
                    /\ f \notin excused' /\ disk'[f].text \in Wanted' => f \in hits'
  BY DEF HitsTrue, Matching
<1>0. TypeOK
  BY DEF SearchInv
<1>n. /\ disk[f].ver \in Nat /\ rows[f].ver \in Nat /\ fresh[f] \in Nat
      /\ disk'[f].ver \in Nat /\ (disk'[f] = disk[f] \/ disk'[f].ver > disk[f].ver)
      /\ fresh[f] <= disk[f].ver
      /\ fresh'[f] # 0 /\ fresh'[f] = disk'[f].ver
  BY <1>0, DiskStep, Numbers DEF Version, SearchInv, FreshOld, IsFresh
<1>1. CASE Aside \/ Goes
  <2>1. /\ fresh' = fresh /\ byWord' = byWord /\ hits' = hits /\ Deciding
        /\ overtaken \subseteq overtaken' /\ excused \subseteq excused'
    BY <1>1 DEF Aside, Goes, Deciding
  <2>2. disk'[f] = disk[f] /\ IsFresh(f)
    BY <1>n, <2>1 DEF IsFresh
  <2> QED
    BY <2>1, <2>2 DEF SearchInv, HitsTrue, Wanted
<1>2. CASE \E c \in BOOLEAN : SearchBegins(c)
  <2>1. fresh'[f] = rows[f].ver
    BY <1>2 DEF SearchBegins, _content_cache_filter, get_content_cache_freshness
  <2>2. rows = [g \in File |-> NoRow]
    <3>1. pc'["search"] \notin {"fts", "like"}
      BY DEF Deciding
    <3> QED
      BY <1>0, <1>2, <3>1, WorkerNames DEF SearchBegins, _content_cache_filter, TypeOK
  <2> QED
    BY <1>n, <2>1, <2>2 DEF NoRow
<1>3. CASE SearchFts \/ SearchLike
  <2>1. UNCHANGED <<disk, fresh, rows, fts, overtaken, excused>> /\ Looking
    BY <1>3 DEF SearchFts, SearchLike, Looking, tables
  <2>2. /\ rows[f].ver = disk[f].ver => rows[f].text = disk[f].text
        /\ fts[f] = rows[f].text
    BY DEF SearchInv, RowsTrue
  <2>3. f \notin excused => rows[f].ver = disk[f].ver
    <3>1. rows[f].ver < fresh[f] => f \in excused
      BY <2>1 DEF SearchInv, RowsSince
    <3>2. rows[f].ver <= disk[f].ver
      BY DEF SearchInv, RowsTrue
    <3> QED
      BY <1>n, <2>1, <3>1, <3>2
  <2>4. rows[f].text = disk[f].text \/ rows[f].text = Gone
    <3>1. rows[f].ver < fresh[f] => rows[f] = NoRow
      BY <2>1 DEF SearchInv, RowsSince
    <3>2. rows[f].ver <= disk[f].ver
      BY DEF SearchInv, RowsTrue
    <3>3. rows[f] = NoRow => rows[f].text = Gone
      BY DEF NoRow
    <3> QED
      BY <1>n, <2>1, <2>2, <3>1, <3>2, <3>3
  <2>5. CASE SearchFts
    <3>1. /\ hits' = {g \in File : fts[g] = "word" \/ (g \in Named /\ fts[g] # Gone)}
          /\ byWord' = (hits' # {})
          /\ pc' = [pc EXCEPT !["search"] = IF hits' = {} THEN "like" ELSE "match"]
      BY <2>5 DEF SearchFts
    <3>2. byWord' /\ hits' # {}
      BY <1>0, <3>1, WorkerNames DEF TypeOK, Deciding
    <3>3. Wanted' = {"word"}
      BY <3>2 DEF Wanted
    <3>4. f \in hits' => disk'[f].text \in Matching \/ f \in Named
      BY <2>1, <2>2, <2>4, <3>1 DEF Matching, Gone
    <3>5. f \notin excused /\ disk[f].text = "word" => f \in hits'
      BY <2>2, <2>3, <3>1
    <3> QED
      BY <2>1, <3>2, <3>3, <3>4, <3>5
  <2>6. CASE SearchLike
    <3>1. hits' = {g \in File : rows[g].text \in Matching} /\ byWord' = byWord /\ ~byWord
      BY <2>6 DEF SearchLike, SearchInv, BeforeDeciding, Deciding
    <3>2. Wanted' = Matching
      BY <3>1 DEF Wanted
    <3> QED
      BY <2>1, <2>2, <2>3, <2>4, <3>1, <3>2 DEF Matching, Gone
  <2> QED
    BY <1>3, <2>5, <2>6
<1>4. CASE SearchEnds
  BY <1>0, <1>4, SearchPlace DEF Deciding
<1> QED
  BY <1>1, <1>2, <1>3, <1>4, SearchMove

\* Until the tables have answered nothing is decided.
LEMMA BeforeDecidingStep ==
  ASSUME SearchInv, [Next]_vars
  PROVE  BeforeDeciding'
<1>0. TypeOK /\ BeforeDeciding
  BY DEF SearchInv
<1>1. CASE Aside
  BY <1>0, <1>1 DEF BeforeDeciding, Aside, Deciding, Looking
<1>2. CASE Goes
  BY <1>2 DEF BeforeDeciding, Goes, Deciding, Looking
<1>3. CASE SearchFts \/ SearchLike
  <2>1. /\ found' = found /\ todo' = todo /\ Looking
        /\ SearchFts => byWord' = (hits' # {})
                        /\ (pc'["search"] = "like" => hits' = {})
        /\ pc'["search"] \in {"like", "match"} /\ (SearchLike => pc'["search"] = "match")
    BY <1>0, <1>3, SearchPlace, WorkerNames DEF SearchFts, SearchLike, Looking, TypeOK
  <2>2. found = {} /\ todo["search"] = File
    BY <1>0, <2>1 DEF BeforeDeciding, Looking, Deciding
  <2> QED
    BY <1>0, <1>3, <2>1, <2>2 DEF BeforeDeciding, Looking, Deciding
<1>4. CASE SearchEnds
  BY <1>0, <1>4, SearchPlace DEF SearchEnds, BeforeDeciding, Looking
<1>5. CASE \E c \in BOOLEAN : SearchBegins(c)
  <2>1. /\ found' = found /\ byWord' = byWord /\ pc["search"] = "idle"
        /\ todo' = [todo EXCEPT !["search"] = File]
    BY <1>5 DEF SearchBegins
  <2>2. found = {} /\ ~byWord /\ todo'["search"] = File
    BY <1>0, <2>1, WorkerNames DEF BeforeDeciding, Deciding, TypeOK
  <2> QED
    BY <2>1, <2>2 DEF BeforeDeciding
<1> QED
  BY <1>1, <1>2, <1>3, <1>4, <1>5, SearchMove

\* What is found is due to a text the file has had.
LEMMA ResultsCurrentStep ==
  ASSUME SearchInv, [Next]_vars
  PROVE  ResultsCurrent'
<1> SUFFICES ASSUME NEW f \in found', f \notin overtaken' \ Archive
             PROVE  held'[f] \cap Matching # {} \/ (byWord' /\ f \in Named)
  BY DEF ResultsCurrent, Matching
<1>0. TypeOK /\ ResultsCurrent /\ BeforeDeciding /\ HeldNow
  BY DEF SearchInv
<1>1. CASE Aside
  <2>1. f \in found \ (overtaken \ Archive) /\ byWord' = byWord /\ f \in File
    BY <1>0, <1>1 DEF Aside, TypeOK
  <2>2. pc["search"] # "idle" /\ pc'["search"] # "idle"
    BY <1>0, <1>1, <2>1 DEF Aside, BeforeDeciding, Deciding
  <2>3. held[f] \subseteq held'[f]
    BY <1>0, <2>1, <2>2, HeldStep
  <2> QED
    BY <1>0, <2>1, <2>3 DEF ResultsCurrent
<1>2. CASE Goes
  <2>1. /\ held' = held /\ byWord' = byWord /\ overtaken' = overtaken /\ Deciding
    BY <1>2 DEF Goes
  <2>2. CASE f \in found
    BY <1>0, <2>1, <2>2 DEF ResultsCurrent
  <2>3. CASE f \notin found
    <3>1. Supports(f) /\ f \in File
      BY <1>0, <1>2, <2>3, WorkerNames DEF Goes, TypeOK
    <3>2. disk[f].text \in held[f]
      BY <1>0, <2>1, <3>1 DEF HeldNow, Deciding
    <3>3. CASE IsFresh(f) /\ f \in hits
      <4>1. f \notin overtaken
        BY <2>1 DEF SearchInv, ArchiveOrder
      <4>2. disk[f].text \in Matching \/ (byWord /\ f \in Named)
        BY <2>1, <3>1, <3>3, <4>1 DEF SearchInv, HitsTrue
      <4> QED
        BY <2>1, <3>2, <4>2
    <3>4. CASE Cached(f) /\ rows[f].text \in Matching
      <4>1. disk[f].text = rows[f].text
        BY <3>1, <3>4 DEF Cached, SearchInv, RowsTrue
      <4> QED
        BY <2>1, <3>2, <3>4, <4>1
    <3>5. CASE pc["search"] = "store" /\ f = item["search"].file
               /\ item["search"].text \in Matching
      <4>1. item["search"].text \in held[f]
        BY <3>5 DEF SearchInv, SearchItem
      <4> QED
        BY <2>1, <3>5, <4>1
    <3> QED
      BY <3>1, <3>3, <3>4, <3>5 DEF Supports
  <2> QED
    BY <2>2, <2>3
<1>3. CASE SearchFts \/ SearchLike \/ SearchEnds \/ \E c \in BOOLEAN : SearchBegins(c)
  <2>1. found' = {} \/ (found' = found /\ ~Deciding)
    BY <1>0, <1>3, SearchPlace DEF SearchFts, SearchLike, SearchEnds, SearchBegins, Deciding
  <2> QED
    BY <1>0, <2>1 DEF BeforeDeciding
<1> QED
  BY <1>1, <1>2, <1>3, SearchMove

\* A file decided against could not be found.
LEMMA NotMissed ==
  ASSUME SearchInv, Deciding, NEW f \in File \ (excused \cup overtaken),
         Denies(f), f \notin excused'
  PROVE  ~Findable(f)
<1>1. disk[f].text \in held[f]
  BY DEF SearchInv, HeldNow, Deciding
<1>2. Findable(f) => held[f] \subseteq Wanted /\ (f \in Archive => IsFresh(f))
  BY DEF Findable, Wanted
<1>3. Wanted \subseteq Matching /\ Gone \notin Matching
  BY DEF Wanted, Matching, Gone
<1>4. CASE IsFresh(f) /\ f \notin hits
  BY <1>1, <1>2, <1>4 DEF SearchInv, HitsTrue
<1>5. CASE f \in Archive /\ ~IsFresh(f)
  BY <1>2, <1>5
<1>6. CASE Cached(f) /\ rows[f].text \notin Matching
  <2>1. disk[f].text = rows[f].text
    BY <1>6 DEF Cached, SearchInv, RowsTrue
  <2> QED
    BY <1>1, <1>2, <1>3, <1>6, <2>1
<1>7. CASE disk[f].text = Gone
  BY <1>1, <1>2, <1>3, <1>7
<1>8. CASE pc["search"] = "store" /\ f = item["search"].file
           /\ item["search"].text \notin Matching
  <2>1. item["search"].text \in held[f]
    BY <1>8 DEF SearchInv, SearchItem
  <2> QED
    BY <1>2, <1>3, <1>8, <2>1
<1> QED
  BY <1>4, <1>5, <1>6, <1>7, <1>8 DEF Denies

\* What can be found later could be found before.
LEMMA FindableBefore ==
  ASSUME SearchInv, [Next]_vars, NEW f \in File, Findable(f)', Aside \/ Goes, Deciding
  PROVE  Findable(f)
<1>0. TypeOK
  BY DEF SearchInv
<1>1. byWord' = byWord /\ fresh' = fresh
  BY DEF Aside, Goes
<1>2. held[f] \subseteq held'[f]
  BY <1>0, HeldStep DEF Aside, Goes, Deciding
<1>3. IsFresh(f)' => IsFresh(f)
  <2>1. /\ disk[f].ver \in Nat /\ disk'[f].ver \in Nat /\ fresh[f] \in Nat
        /\ disk'[f] = disk[f] \/ disk'[f].ver > disk[f].ver
        /\ fresh[f] <= disk[f].ver
    BY <1>0, DiskStep, Numbers DEF Version, SearchInv, FreshOld
  <2> QED
    BY <1>1, <2>1 DEF IsFresh
<1> QED
  BY <1>1, <1>2, <1>3 DEF Findable, Matching

\* The search misses nothing on its way.
LEMMA FoundAllStep ==
  ASSUME SearchInv, [Next]_vars
  PROVE  FoundAll'
<1> SUFFICES ASSUME Deciding', NEW f \in File \ (todo'["search"] \cup excused' \cup overtaken'),
                    Findable(f)'
             PROVE  f \in found'
  BY DEF FoundAll
<1>0. TypeOK /\ BeforeDeciding /\ FoundAll
  BY DEF SearchInv
<1>1. CASE Aside
  <2>1. Deciding /\ Findable(f)
    BY <1>1, FindableBefore DEF Aside, Deciding
  <2> QED
    BY <1>0, <1>1, <2>1 DEF Aside, FoundAll
<1>2. CASE Goes
  <2>1. Deciding /\ Findable(f) /\ f \notin excused \cup overtaken
    BY <1>2, FindableBefore DEF Goes
  <2>2. CASE f \notin todo["search"]
    BY <1>0, <1>2, <2>1, <2>2 DEF FoundAll, Goes
  <2>3. CASE f \in todo["search"]
    <3>1. f \in found' \/ Denies(f)
      BY <1>2, <2>3 DEF Goes
    <3> QED
      BY <2>1, <3>1, NotMissed
  <2> QED
    BY <2>2, <2>3
<1>3. CASE SearchFts \/ SearchLike
  <2>1. todo'["search"] = File
    BY <1>0, <1>3 DEF SearchFts, SearchLike, BeforeDeciding, Looking
  <2> QED
    BY <2>1
<1>4. CASE SearchEnds
  BY <1>0, <1>4, SearchPlace DEF Deciding
<1>5. CASE \E c \in BOOLEAN : SearchBegins(c)
  BY <1>0, <1>5, WorkerNames DEF SearchBegins, TypeOK
<1> QED
  BY <1>1, <1>2, <1>3, <1>4, <1>5, SearchMove

\* The invariant of jobs, searches, purges and changes holds at first ...
LEMMA SearchInit == Init => SearchInv
<1> SUFFICES ASSUME Init PROVE SearchInv
  OBVIOUS
<1>1. RowsTrue /\ FreshOld
  <2>1. \A f \in File : /\ rows[f].ver = 0 /\ rows[f].text = Gone /\ fts[f] = Gone
                        /\ fresh[f] = 0 /\ disk[f].ver = 1
    BY DEF Init, NoRow
  <2> QED
    BY <2>1 DEF RowsTrue, FreshOld
<1>2. \A w \in Worker : pc[w] = "idle"
  BY DEF Init
<1>3. ItemsTrue /\ SearchItem /\ HeldNow /\ ArchiveOrder
  BY <1>2, WorkerNames DEF Init, ItemsTrue, SearchItem, HeldNow, ArchiveOrder
<1>4. RowsSince /\ HitsTrue /\ BeforeDeciding /\ FoundAll /\ ResultsCurrent
  BY <1>2, WorkerNames DEF Init, RowsSince, HitsTrue, BeforeDeciding, FoundAll,
     ResultsCurrent, Looking, Deciding
<1> QED
  BY <1>1, <1>3, <1>4, TypeInit DEF SearchInv

\* ... and every step keeps it.
LEMMA SearchNext == SearchInv /\ [Next]_vars => SearchInv'
<1> SUFFICES ASSUME SearchInv, [Next]_vars PROVE SearchInv'
  OBVIOUS
<1>1. /\ TypeOK /\ RowsTrue /\ ItemsTrue /\ SearchItem /\ FreshOld /\ HeldNow
      /\ ArchiveOrder
  BY DEF SearchInv
<1>2. TypeOK' /\ RowsTrue' /\ ItemsTrue' /\ SearchItem'
  BY <1>1, TypeStep, RowsTrueStep, ItemsTrueStep, SearchItemStep
<1>3. FreshOld' /\ HeldNow' /\ ArchiveOrder'
  BY <1>1, FreshOldStep, HeldNowStep, ArchiveOrderStep
<1>4. RowsSince' /\ HitsTrue' /\ BeforeDeciding' /\ FoundAll' /\ ResultsCurrent'
  BY RowsSinceStep, HitsTrueStep, BeforeDecidingStep, FoundAllStep, ResultsCurrentStep
<1> QED
  BY <1>2, <1>3, <1>4 DEF SearchInv

\* Any number of files, jobs and searches: what content: finds was in the file while
\* the search ran, or its path was taken for the text (_content_cache_filter,
\* search_content_cache_hits).
THEOREM FoundIsCurrent == Spec => []ResultsCurrent
<1>1. SearchInv => ResultsCurrent
  BY DEF SearchInv
<1> QED
  BY <1>1, SearchInit, SearchNext, PTL DEF Spec

\* ... and what matched all the time is found, when no purge, job or failure came
\* between (content_search, _archive_member_hits).
THEOREM NothingMissed == Spec => []ResultsComplete
<1>1. SearchInv => ResultsComplete
  BY DEF SearchInv, FoundAll, ResultsComplete, Deciding
<1> QED
  BY <1>1, SearchInit, SearchNext, PTL DEF Spec
-----------------------------------------------------------------------------
(* The quota *)

\* A text is not longer in characters than in bytes.
LEMMA LettersBytes == \A t : Letters(t) \in 0..3 /\ Bytes(t) \in Nat /\ Letters(t) <= Bytes(t)
BY DEF Letters, Bytes, Gone

\* How many characters an interval of them has.
LEMMA IntervalSize == \A k \in Nat : IsFiniteSet(1..k) /\ Cardinality(1..k) = k
<1> TAKE k \in Nat
<1>1. IsFiniteSet(1..k) /\ Cardinality(1..k) = IF 1 > k THEN 0 ELSE k - 1 + 1
  BY FS_Interval, SMT
<1> QED
  BY <1>1

\* The characters of a table can be counted.
LEMMA CharactersCounted ==
  ASSUME NEW r
  PROVE  IsFiniteSet(Characters(r)) /\ Cardinality(Characters(r)) \in Nat
<1>1. IsFiniteSet(File) /\ IsFiniteSet(1..3)
  BY ContentCacheAssumption, IntervalSize
<1>2. IsFiniteSet(File \X (1..3))
  BY <1>1, FS_Product
<1>3. \A f \in File : 1..Letters(r[f].text) \subseteq 1..3
  BY LettersBytes
<1>4. Characters(r) \subseteq File \X (1..3)
  BY <1>3 DEF Characters
<1> QED
  BY <1>2, <1>4, FS_Subset, FS_CardinalityType

\* Rows whose texts are not longer have no more characters.
LEMMA FewerCharacters ==
  ASSUME NEW r, NEW q, \A f \in File : Letters(q[f].text) <= Letters(r[f].text)
  PROVE  Cardinality(Characters(q)) <= Cardinality(Characters(r))
<1>1. \A f \in File : 1..Letters(q[f].text) \subseteq 1..Letters(r[f].text)
  BY LettersBytes
<1>2. Characters(q) \subseteq Characters(r)
  BY <1>1 DEF Characters
<1> QED
  BY <1>2, CharactersCounted, FS_Subset

\* A row that is replaced adds at most its own characters.
LEMMA OneMoreText ==
  ASSUME NEW r, NEW q, NEW f \in File, \A g \in File : g # f => q[g].text = r[g].text
  PROVE  Cardinality(Characters(q)) <= Cardinality(Characters(r)) + Letters(q[f].text)
<1> DEFINE n == Letters(q[f].text)
           T == {f} \X (1..n)
<1>1. n \in Nat
  BY LettersBytes
<1>2. /\ IsFiniteSet({f}) /\ Cardinality({f}) = 1
      /\ IsFiniteSet(1..n) /\ Cardinality(1..n) = n
  BY <1>1, FS_Singleton, IntervalSize
<1> HIDE DEF n
<1>3. IsFiniteSet(T) /\ Cardinality(T) = n
  <2>1. IsFiniteSet(T) /\ Cardinality(T) = Cardinality({f}) * Cardinality(1..n)
    BY <1>2, FS_Product, Zenon
  <2> QED
    BY <1>1, <1>2, <2>1
<1>4. Characters(q) \subseteq Characters(r) \cup T
  BY DEF Characters, n
<1> HIDE DEF T
<1>5. /\ IsFiniteSet(Characters(r)) /\ Cardinality(Characters(r)) \in Nat
      /\ Cardinality(Characters(q)) \in Nat
  BY CharactersCounted
<1>6. IsFiniteSet(Characters(r) \cup T) /\ Cardinality(Characters(r) \cap T) \in Nat
      /\ Cardinality(Characters(r) \cup T)
            = Cardinality(Characters(r)) + Cardinality(T) - Cardinality(Characters(r) \cap T)
  BY <1>3, <1>5, FS_Union, FS_Intersection, FS_CardinalityType
<1>7. Cardinality(Characters(q)) <= Cardinality(Characters(r) \cup T)
  BY <1>4, <1>6, FS_Subset
<1>8. Cardinality(Characters(r) \cup T) \in Nat
  BY <1>6, FS_CardinalityType
<1> QED
  BY <1>1, <1>3, <1>5, <1>6, <1>7, <1>8 DEF n

\* As long as only jobs store, the cache is not larger than the job's count of bytes, which
\* is within the quota and stays there with the text the job is about to store.
QuotaInv ==
    /\ bytes \in Nat
    /\ ~stored =>
         /\ CacheSize <= MaxCache
         /\ pc["job"] # "idle" => CacheSize <= bytes /\ bytes <= MaxCache
         /\ pc["job"] = "store" => bytes + Bytes(item["job"].text) <= MaxCache

\* An empty cache is within every quota.
LEMMA QuotaInit == Init => QuotaInv
<1> SUFFICES ASSUME Init PROVE QuotaInv
  OBVIOUS
<1>1. \A f \in File : Letters(rows[f].text) = 0
  BY DEF Init, NoRow, Letters, Gone
<1>2. Characters(rows) = {}
  BY <1>1 DEF Characters
<1>3. CacheSize = 0
  BY <1>2, FS_EmptySet DEF CacheSize
<1>4. MaxCache \in Nat
  BY ContentCacheAssumption
<1> QED
  BY <1>3, <1>4, WorkerNames DEF Init, QuotaInv

\* Two checks, before and after the extraction, and the end of each store keep the quota.
LEMMA QuotaStep ==
  ASSUME TypeOK, QuotaInv, [Next]_vars
  PROVE  QuotaInv'
<1>1. /\ CacheSize \in Nat /\ CacheSize' \in Nat /\ MaxCache \in Nat
      /\ \A t : Bytes(t) \in Nat
  BY CharactersCounted, LettersBytes, ContentCacheAssumption DEF CacheSize
<1>2. /\ \A x : [pc EXCEPT !["job"] = x]["job"] = x
      /\ \A x : [item EXCEPT !["job"] = x]["job"] = x
      /\ \A x : [pc EXCEPT !["search"] = x]["job"] = pc["job"]
      /\ \A x : [item EXCEPT !["search"] = x]["job"] = item["job"]
  BY DEF TypeOK, Worker
<1>3. rows' = rows => CacheSize' = CacheSize
  BY DEF CacheSize
<1>4. CASE JobBegins
  <2>1. /\ bytes' = CacheSize /\ rows' = rows /\ item' = item /\ stored' = stored
        /\ pc'["job"] = "next"
    BY <1>2, <1>4 DEF JobBegins, tables
  <2> QED
    BY <1>1, <1>3, <2>1 DEF QuotaInv
<1>5. ASSUME NEW f \in File, JobLooksAt(f)
      PROVE  QuotaInv'
  <2>1. /\ UNCHANGED <<bytes, rows, stored>> /\ pc["job"] = "next"
        /\ pc'["job"] \in {"next", "extract"}
    BY <1>2, <1>5 DEF JobLooksAt, TakeFile, tables
  <2> QED
    BY <1>1, <1>3, <2>1 DEF QuotaInv
<1>6. CASE JobExtracts
  <2> DEFINE t == disk[item["job"].file].text
  <2>1. UNCHANGED <<bytes, rows, stored>> /\ pc["job"] = "extract"
    BY <1>6 DEF JobExtracts, tables
  <2>2. CASE bytes + Bytes(t) <= MaxCache /\ Extract("job")
    <3>1. pc'["job"] = "store" /\ item'["job"].text = t
      BY <1>2, <2>2 DEF Extract
    <3> HIDE DEF t
    <3> QED
      BY <1>1, <1>3, <2>1, <2>2, <3>1 DEF QuotaInv
  <2>3. CASE pc' = [pc EXCEPT !["job"] = "next"]
    BY <1>1, <1>2, <1>3, <2>1, <2>3 DEF QuotaInv
  <2> QED
    BY <1>6, <2>2, <2>3 DEF JobExtracts
<1>7. CASE JobStores
  <2> DEFINE f == item["job"].file
             t == item["job"].text
  <2>1. /\ stored' = stored /\ pc["job"] = "store" /\ pc'["job"] = "next"
        /\ bytes' = bytes + Bytes(t) /\ upsert_content_cache("job")
    BY <1>2, <1>7 DEF JobStores
  <2>2. CacheSize' <= CacheSize + Bytes(t)
    <3>1. CASE rows' = rows
      BY <1>1, <1>3, <3>1
    <3>2. CASE rows' = [rows EXCEPT ![f] = [ver |-> item["job"].ver, text |-> t]]
      <4>1. f \in File /\ rows \in [File -> Version]
        BY <2>1, WorkerNames DEF TypeOK
      <4>2. rows'[f].text = t /\ \A g \in File : g # f => rows'[g].text = rows[g].text
        BY <3>2, <4>1
      <4> HIDE DEF f, t
      <4>3. CacheSize' <= CacheSize + Letters(t)
        BY <4>1, <4>2, OneMoreText DEF CacheSize
      <4> QED
        BY <1>1, <4>3, LettersBytes
    <3> QED
      BY <2>1, <3>1, <3>2 DEF upsert_content_cache, tables
  <2> HIDE DEF t
  <2> QED
    BY <1>1, <2>1, <2>2 DEF QuotaInv, t
<1>8. CASE JobEnds
  <2>1. bytes' = 0 /\ UNCHANGED <<rows, stored>> /\ pc'["job"] = "idle"
    BY <1>2, <1>8 DEF JobEnds, tables
  <2> QED
    BY <1>1, <1>3, <2>1 DEF QuotaInv
<1>9. ASSUME NEW S, Purge(S)
      PROVE  QuotaInv'
  <2>1. UNCHANGED <<pc, item, bytes, stored>>
    BY <1>9 DEF Purge
  <2>2. \A f \in File : rows'[f] = rows[f] \/ rows'[f].text = Gone
    BY <1>9 DEF Purge, NoRow
  <2>3. Letters(Gone) = 0 /\ \A t : Letters(t) \in Nat
    BY LettersBytes DEF Letters, Gone
  <2>4. \A f \in File : Letters(rows'[f].text) <= Letters(rows[f].text)
    BY <2>2, <2>3
  <2>5. CacheSize' <= CacheSize
    BY <2>4, FewerCharacters DEF CacheSize
  <2> QED
    BY <1>1, <2>1, <2>5 DEF QuotaInv
<1>10. CASE SearchStores
  <2>1. stored' = TRUE /\ bytes' = bytes
    BY <1>10 DEF SearchStores
  <2> QED
    BY <2>1 DEF QuotaInv
<1>11. CASE \/ SearchFts \/ SearchLike \/ SearchExtracts \/ SearchEnds \/ UNCHANGED vars
            \/ (\E c \in BOOLEAN : SearchBegins(c))
            \/ (\E f \in File : MatchCached(f) \/ content_search(f) \/ MatchMember(f))
            \/ \E f \in File, t \in Text \cup {Gone} : ChangeFile(f, t)
  <2>1. /\ UNCHANGED <<bytes, rows, stored>>
        /\ pc' = pc \/ \E x : pc' = [pc EXCEPT !["search"] = x]
        /\ item' = item \/ \E x : item' = [item EXCEPT !["search"] = x]
    BY <1>11 DEF SearchFts, SearchLike, SearchExtracts, SearchEnds, vars, tables,
       SearchBegins, _content_cache_filter, MatchCached, content_search, MatchMember,
       ChangeFile, TakeFile, Extract
  <2>2. pc'["job"] = pc["job"] /\ item'["job"] = item["job"]
    BY <1>2, <2>1
  <2> QED
    BY <1>1, <1>3, <2>1, <2>2 DEF QuotaInv
<1> QED
  BY <1>4, <1>5, <1>6, <1>7, <1>8, <1>9, <1>10, <1>11
     DEF Next, ContentIndexWorker, Searching

\* Whatever jobs replace, purges drop and interleaved searches read, the cache stays within
\* max_cache_bytes for as long as no search has stored a text of its own (ContentIndexJob.run).
THEOREM QuotaIsKept == Spec => []QuotaKept
<1>1. QuotaInv => QuotaKept
  BY DEF QuotaInv, QuotaKept
<1>2. SearchInv => TypeOK
  BY DEF SearchInv
<1> QED
  BY <1>1, <1>2, SearchInit, SearchNext, QuotaInit, QuotaStep, PTL DEF Spec
=============================================================================

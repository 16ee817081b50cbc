---------------------------- MODULE ContentCache ----------------------------
(***************************************************************************)
(* Texts extracted from files, kept in SQLite and searched: the background *)
(* job (core/content/indexer.py), content: searches (core/search.py), the  *)
(* tables content_cache and content_fts and their purge (core/cache.py).   *)
(* Each thread has a connection of its own, so every call of core/cache.py *)
(* is a step and another thread's steps come between two of them; os.stat  *)
(* and the look-up of the row it is for are one step.                      *)
(*                                                                         *)
(* A version of a file stands for its size and date: two versions that     *)
(* agree in both are taken for one by the program and by the model.  Of a  *)
(* text only this matters: it holds what is searched for as a word, inside *)
(* a word ("part") or not at all.  An archive stands for its one member,   *)
(* whose text is kept under the archive's version.                         *)
(***************************************************************************)
EXTENDS Integers, FiniteSetsExt

CONSTANTS File,
          Archive,     \* the files that are archives
          Named,       \* the files whose path holds what is searched for as a word
          MaxCache,    \* max_cache_bytes
          MaxChanges,  \* bound: changes of files
          MaxJobs,     \* bound: content indexing jobs
          MaxSearches, \* bound: searches
          MaxPurges    \* bound: purges

ASSUME ContentCacheAssumption ==
    /\ IsFiniteSet(File) /\ Archive \subseteq File /\ Named \subseteq File
    /\ {MaxCache, MaxChanges, MaxJobs, MaxSearches, MaxPurges} \subseteq Nat

VARIABLES
    disk,    \* the version and the text of each file
    rows,    \* content_cache: the version a text is stored under, 0 if none is
    fts,     \* content_fts
    pc,      \* per worker, where it is
    todo,    \* per worker, entries it has not looked at
    item,    \* per worker, the file it extracts, its version as of os.stat, its text
    bytes,   \* ContentIndexStats.bytes_cached
    fresh,   \* freshness: the versions a search found rows for
    hits,    \* what search_content_cache_hits answered
    found,   \* the results of the search
    changes, jobs, searches, purges,
    held,    \* history: texts each file has had since the search began
    excused, \* history: files purged under the search, or not extracted
    overtaken, \* history: files whose row an older text replaced under the search
    byWord,  \* history: the hits are those of content_fts
    stored   \* history: a search has stored a text

tables == <<rows, fts>>
query == <<fresh, hits, found, searches, byWord>>
counts == <<changes, jobs, purges>>
vars == <<disk, tables, pc, todo, item, bytes, query, counts, held, excused, overtaken,
          stored>>

Worker == {"job", "search"}
Text == {"none", "part", "word"}
Gone == "gone"
NoRow == [ver |-> 0, text |-> Gone]
NoItem == [file |-> CHOOSE f \in File : TRUE, ver |-> 0, text |-> Gone]
Matching == {"part", "word"}  \* LIKE, str.find
Bytes(t) == CASE t = "word" -> 4 [] t = Gone -> 0 [] OTHER -> 1
Letters(t) == CASE t = "word" -> 3 [] t = Gone -> 0 [] OTHER -> 1

\* get_content_cache_size_bytes: SUM(length(text)), which counts characters.
Characters(table) == UNION {{f} \X (1..Letters(table[f].text)) : f \in File}
CacheSize == Cardinality(Characters(rows))

get_content_cache_freshness == [f \in File |-> rows[f].ver]

\* get_content_cache for the file's size and date of now
Cached(f) == rows[f].ver = disk[f].ver

ChangeFile(f, t) ==
    /\ changes < MaxChanges /\ <<disk[f].text, t>> # <<Gone, Gone>>
    /\ changes' = changes + 1
    /\ disk' = [disk EXCEPT ![f] = [ver |-> disk[f].ver + 1, text |-> t]]
    /\ held' = [held EXCEPT ![f] = IF pc["search"] = "idle" THEN {} ELSE @ \cup {t}]
    /\ UNCHANGED <<tables, pc, todo, item, bytes, query, jobs, purges, excused,
                   overtaken, stored>>

-----------------------------------------------------------------------------
\* What job and search do with a text that is not in the cache

\* os.stat comes before the text is read.
TakeFile(w, f) ==
    /\ pc' = [pc EXCEPT ![w] = "extract"]
    /\ item' = [item EXCEPT ![w] = [file |-> f, ver |-> disk[f].ver, text |-> Gone]]

\* extract_text_with_diagnostics: the text is read in a process of its own.
Extract(w) ==
    /\ disk[item[w].file].text # Gone
    /\ pc' = [pc EXCEPT ![w] = "store"]
    /\ item' = [item EXCEPT ![w] = [file |-> @.file, ver |-> @.ver,
                                   text |-> disk[item[w].file].text]]

StampLate(w) ==  \* mutant: os.stat after the extraction
    LET f == item[w].file IN
    \/ /\ rows' = [rows EXCEPT ![f] = [ver |-> disk[f].ver, text |-> item[w].text]]
       /\ fts' = [fts EXCEPT ![f] = item[w].text]
    \/ UNCHANGED tables
\* upsert_content_cache: one transaction, whose failure is only logged.
upsert_content_cache(w) ==
    LET f == item[w].file IN
    \/ /\ rows' = [rows EXCEPT ![f] = [ver |-> item[w].ver, text |-> item[w].text]]
       /\ fts' = [fts EXCEPT ![f] = item[w].text]
    \/ UNCHANGED tables

-----------------------------------------------------------------------------
\* ContentIndexJob.run

\* MainWindow._start_content_indexing: not while a worker runs.
_start_content_indexing ==
    /\ pc["job"] = "idle" /\ jobs < MaxJobs
    /\ jobs' = jobs + 1

JobBegins ==
    /\ _start_content_indexing
    /\ pc' = [pc EXCEPT !["job"] = "next"]
    /\ todo' = [todo EXCEPT !["job"] = File]
    /\ bytes' = CacheSize
    /\ UNCHANGED <<disk, tables, item, query, changes, purges, held, excused, overtaken,
                   stored>>

\* Skipped for its kind, place or size; gone; cached; beyond the quota.
JobLooksAt(f) ==
    /\ pc["job"] = "next" /\ f \in todo["job"]
    /\ todo' = [todo EXCEPT !["job"] = @ \ {f}]
    /\ \/ /\ disk[f].text # Gone /\ ~Cached(f) /\ bytes < MaxCache
          /\ TakeFile("job", f)
       \/ UNCHANGED <<pc, item>>
    /\ UNCHANGED <<disk, tables, bytes, query, counts, held, excused, overtaken, stored>>

NoSecondCheck ==  \* mutant: the quota is not checked against the text's own size
    /\ pc["job"] = "extract"
    /\ Extract("job")
    /\ UNCHANGED <<disk, tables, todo, bytes, query, counts, held, excused, overtaken,
                   stored>>
\* The worker process fails or times out, or the text is too long for the quota.
JobExtracts ==
    /\ pc["job"] = "extract"
    /\ \/ /\ bytes + Bytes(disk[item["job"].file].text) <= MaxCache
          /\ Extract("job")
       \/ /\ pc' = [pc EXCEPT !["job"] = "next"]
          /\ item' = [item EXCEPT !["job"] = NoItem]
    /\ UNCHANGED <<disk, tables, todo, bytes, query, counts, held, excused, overtaken,
                   stored>>

JobStores ==
    /\ pc["job"] = "store"
    /\ upsert_content_cache("job")
    /\ bytes' = bytes + Bytes(item["job"].text)
    /\ pc' = [pc EXCEPT !["job"] = "next"]
    /\ item' = [item EXCEPT !["job"] = NoItem]
    /\ overtaken' = IF /\ pc["search"] \in {"fts", "like"}
                       /\ item["job"].ver < fresh[item["job"].file]
                    THEN overtaken \cup {item["job"].file} ELSE overtaken
    /\ UNCHANGED <<disk, todo, query, counts, held, excused, stored>>

\* ... or is cancelled.
JobEnds ==
    /\ pc["job"] = "next"
    /\ pc' = [pc EXCEPT !["job"] = "idle"]
    /\ todo' = [todo EXCEPT !["job"] = {}]
    /\ bytes' = 0
    /\ UNCHANGED <<disk, tables, item, query, counts, held, excused, overtaken, stored>>

-----------------------------------------------------------------------------
\* SearchEngine._memory_search for content:

\* _content_cache_filter reads the rows' versions first; with no row it gives up, and
\* every file is read.  A search that minds case does not ask content_fts.
_content_cache_filter(matchCase) ==
    /\ fresh' = get_content_cache_freshness
    /\ pc' = [pc EXCEPT !["search"] = IF rows = [f \in File |-> NoRow] THEN "match"
                                      ELSE IF matchCase THEN "like" ELSE "fts"]

SearchBegins(matchCase) ==
    /\ pc["search"] = "idle" /\ searches < MaxSearches
    /\ searches' = searches + 1
    /\ _content_cache_filter(matchCase)
    /\ todo' = [todo EXCEPT !["search"] = File]
    /\ held' = [f \in File |-> {disk[f].text}]
    /\ UNCHANGED <<disk, tables, item, bytes, hits, found, byWord, counts, excused,
                   overtaken, stored>>

\* search_content_cache_hits: content_fts, a table of paths and texts, is asked for a
\* word without naming a column; LIKE is asked if no row has the word.
SearchFts ==
    /\ pc["search"] = "fts"
    /\ hits' = {f \in File : fts[f] = "word" \/ (f \in Named /\ fts[f] # Gone)}
    /\ byWord' = (hits' # {})
    /\ pc' = [pc EXCEPT !["search"] = IF hits' = {} THEN "like" ELSE "match"]
    /\ UNCHANGED <<disk, tables, todo, item, bytes, fresh, found, searches, counts,
                   held, excused, overtaken, stored>>

SearchLike ==
    /\ pc["search"] = "like"
    /\ hits' = {f \in File : rows[f].text \in Matching}
    /\ pc' = [pc EXCEPT !["search"] = "match"]
    /\ UNCHANGED <<disk, tables, todo, item, bytes, fresh, found, searches, byWord,
                   counts, held, excused, overtaken, stored>>

\* The cache speaks for a file, or for an archive's member, whose row is fresh.
IsFresh(f) == fresh[f] # 0 /\ fresh[f] = disk[f].ver
Decide(f, matches) ==
    /\ todo' = [todo EXCEPT !["search"] = @ \ {f}]
    /\ found' = IF matches THEN found \cup {f} ELSE found

MatchCached(f) ==
    /\ pc["search"] = "match" /\ f \in todo["search"] \ Archive /\ IsFresh(f)
    /\ Decide(f, f \in hits)
    /\ UNCHANGED <<disk, tables, pc, item, bytes, fresh, hits, searches, byWord,
                   counts, held, excused, overtaken, stored>>

\* _archive_member_hits, after all entries
MatchMember(f) ==
    /\ pc["search"] = "match" /\ f \in todo["search"]
    /\ todo["search"] \subseteq Archive
    /\ Decide(f, f \in hits /\ IsFresh(f))
    /\ UNCHANGED <<disk, tables, pc, item, bytes, fresh, hits, searches, byWord,
                   counts, held, excused, overtaken, stored>>

\* content_search, for a file whose row is missing or old
CacheOnly(f) ==  \* mutant: what is not in the cache is not read
    /\ pc["search"] = "match" /\ f \in todo["search"] \ Archive /\ ~IsFresh(f)
    /\ Decide(f, Cached(f) /\ rows[f].text \in Matching)
    /\ UNCHANGED <<disk, tables, pc, item, bytes, fresh, hits, searches, byWord,
                   counts, held, excused, overtaken, stored>>
content_search(f) ==
    /\ pc["search"] = "match" /\ f \in todo["search"] \ Archive /\ ~IsFresh(f)
    /\ \/ /\ disk[f].text = Gone \/ Cached(f)
          /\ Decide(f, Cached(f) /\ rows[f].text \in Matching)
          /\ UNCHANGED <<pc, item>>
       \/ /\ disk[f].text # Gone /\ ~Cached(f)
          /\ TakeFile("search", f)
          /\ UNCHANGED <<todo, found>>
    /\ UNCHANGED <<disk, tables, bytes, fresh, hits, searches, byWord, counts, held,
                   excused, overtaken, stored>>

SearchExtracts ==
    /\ pc["search"] = "extract"
    /\ \/ /\ Extract("search")
          /\ UNCHANGED <<todo, found, excused>>
       \/ /\ pc' = [pc EXCEPT !["search"] = "match"]
          /\ item' = [item EXCEPT !["search"] = NoItem]
          /\ Decide(item["search"].file, FALSE)
          /\ excused' = excused \cup {item["search"].file}
    /\ UNCHANGED <<disk, tables, bytes, fresh, hits, searches, byWord, counts, held,
                   overtaken, stored>>

SearchStores ==
    /\ pc["search"] = "store"
    /\ upsert_content_cache("search")
    /\ pc' = [pc EXCEPT !["search"] = "match"]
    /\ Decide(item["search"].file, item["search"].text \in Matching)
    /\ item' = [item EXCEPT !["search"] = NoItem]
    /\ stored' = TRUE
    /\ UNCHANGED <<disk, bytes, fresh, hits, searches, byWord, counts, held,
                   excused, overtaken>>

\* The results go to the caller.
SearchEnds ==
    /\ pc["search"] = "match" /\ todo["search"] = {}
    /\ pc' = [pc EXCEPT !["search"] = "idle"]
    /\ fresh' = [f \in File |-> 0] /\ hits' = {} /\ found' = {} /\ byWord' = FALSE
    /\ held' = [f \in File |-> {}] /\ excused' = {} /\ overtaken' = {}
    /\ UNCHANGED <<disk, tables, todo, item, bytes, searches, counts, stored>>

-----------------------------------------------------------------------------
\* purge_content_cache, purge_content_cache_by_root
Purge(S) ==
    /\ purges < MaxPurges
    /\ purges' = purges + 1
    /\ rows' = [f \in File |-> IF f \in S THEN NoRow ELSE rows[f]]
    /\ fts' = [f \in File |-> IF f \in S THEN Gone ELSE fts[f]]
    /\ excused' = IF pc["search"] \in {"fts", "like"} THEN excused \cup S ELSE excused
    /\ UNCHANGED <<disk, pc, todo, item, bytes, query, changes, jobs, held, overtaken,
                   stored>>

Init ==
    /\ disk \in [File -> [ver : {1}, text : Text]]
    /\ rows = [f \in File |-> NoRow] /\ fts = [f \in File |-> Gone]
    /\ pc = [w \in Worker |-> "idle"] /\ todo = [w \in Worker |-> {}]
    /\ item = [w \in Worker |-> NoItem]
    /\ bytes = 0 /\ fresh = [f \in File |-> 0] /\ hits = {} /\ found = {}
    /\ changes = 0 /\ jobs = 0 /\ searches = 0 /\ purges = 0
    /\ held = [f \in File |-> {}] /\ excused = {} /\ overtaken = {}
    /\ byWord = FALSE /\ stored = FALSE

\* The thread of ContentIndexWorker.
ContentIndexWorker ==
    JobBegins \/ JobExtracts \/ JobStores \/ JobEnds \/ \E f \in File : JobLooksAt(f)

Searching ==
    \/ \E matchCase \in BOOLEAN : SearchBegins(matchCase)
    \/ SearchFts \/ SearchLike \/ SearchExtracts \/ SearchStores \/ SearchEnds
    \/ \E f \in File : MatchCached(f) \/ content_search(f) \/ MatchMember(f)
Next == \/ \E f \in File, t \in Text \cup {Gone} : ChangeFile(f, t)
        \/ ContentIndexWorker \/ Searching
        \/ \E S \in {File} \cup {{f} : f \in File} : Purge(S)
Spec == Init /\ [][Next]_vars

-----------------------------------------------------------------------------
\* A result is never due to a text the file had before the search: results "drop
\* automatically when the archive changes", and so do those of files, unless a job
\* stored an older text over the row between the search's two reads of the tables or
\* the path was taken for the text.
ResultsCurrent ==
    \A f \in found \ (overtaken \ Archive) :
        held[f] \cap Matching # {} \/ (byWord /\ f \in Named)

\* A file that matches all through a search is found, and so is a member of an
\* archive whose text is cached, unless it was purged or overtaken between the two
\* reads of the tables, could not be extracted, or holds what is searched for inside
\* a word only and other files hold the word.
Findable(f) == /\ held[f] \subseteq (IF byWord THEN {"word"} ELSE Matching)
               /\ f \in Archive => IsFresh(f)
ResultsComplete ==
    pc["search"] = "match" /\ todo["search"] = {} =>
        \A f \in File \ (excused \cup overtaken) : Findable(f) => f \in found

\* Content cache quota enforcement: what jobs store, whatever is replaced, purged and
\* stored again, stays within the quota, as the statistics count it.
QuotaKept == ~stored => CacheSize <= MaxCache
=============================================================================

---------------------------- MODULE SearchEngine ----------------------------
(***************************************************************************)
(* SearchEngine.search (src/core/search.py): a query is parsed, the        *)
(* active filter applied, and the answer looked up either in the database  *)
(* (src/core/cache.py, db_search) or by a walk over the entries in memory. *)
(*                                                                         *)
(* The index does not change here; what changes is which entries have      *)
(* their size and dates loaded (_stat_loaded): a walk loads them as it     *)
(* tests or sorts, a save writes them to the rows, a start reads them      *)
(* back.  An entry is a record: name is the sequence of the parts of its   *)
(* name between dots, folder that of the parts of its path before it; is   *)
(* the set of the tests that hold of it (Tests of QueryParse, and the      *)
(* patterns its text matches); excluded says that an exclusion rule keeps  *)
(* it out of the list that a walk visits.                                  *)
(***************************************************************************)
EXTENDS QueryParse, FiniteSets

CONSTANTS
    Entry,      \* the entries of the index, a sequence in the order of the list
    Within,     \* pairs <<t, u>> of texts: t is a proper part of u
    Scattered,  \* pairs <<t, u>>: the letters of t are in u, in order
    Options,    \* the flags that the window's menu may set
    Slots,      \* the saved slots: [names -> queries]
    Words,      \* the queries of words alone that may be typed
    Queries,    \* those that may be typed with options, filters and limits
    Filters,    \* the filters that may be active, NoFilter among them
    Limits      \* max_results, 0 for no limit

VARIABLES
    loaded,     \* the entries with their size and dates loaded
    rows,       \* the entries whose row has them
    last        \* the last search: its query, filter, parse, limit, route, answer

vars == <<loaded, rows, last>>

NoFilter == [exts |-> {}, min |-> 0, max |-> 0, flags |-> {}, exclude |-> {}]
Files == Range(Entry)

----------------------------------------------------------------------------
(* Matching. *)

Equal(parsed, t, u) == IF "match_case" \in parsed.flags THEN t = u ELSE Lower[t] = Lower[u]

(* `t in text', for one part of the text. *)
PartOf(parsed, t, part) ==
    \/ Equal(parsed, t, part)
    \/ \E pair \in Within : Equal(parsed, t, pair[1]) /\ Equal(parsed, part, pair[2])

(* _make_matcher.  The translated wildcard is searched for, not matched,   *)
(* so it holds anywhere, but a term without one only at the end.           *)
Hit(parsed, term, text) ==
    LET Some(t) == \E i \in DOMAIN text : PartOf(parsed, t, text[i])
    IN CASE "use_regex" \in parsed.flags -> Some(term)
         [] term \in DOMAIN Stem -> Some(Stem[term])
         [] "use_wildcards" \in parsed.flags -> PartOf(parsed, term, text[Len(text)])
         [] "match_whole_word" \in parsed.flags ->
                \E i \in DOMAIN text : Equal(parsed, term, text[i])
         [] "match_whole_filename" \in parsed.flags ->
                Len(text) = 1 /\ Equal(parsed, term, text[1])
         [] "use_fuzzy" \in parsed.flags ->
                \/ Some(term)
                \/ \E pair \in Scattered, i \in DOMAIN text :
                      Equal(parsed, term, pair[1]) /\ Equal(parsed, text[i], pair[2])
         [] OTHER -> Some(term)

RECURSIVE Holds(_, _, _)
Holds(parsed, node, text) ==
    LET Child(i) == Holds(parsed, node.children[i], text)
    IN CASE node.op = "term" -> Hit(parsed, node.term, text)
         [] node.op = "not" -> ~Child(1)
         [] node.op = "or" -> \E i \in DOMAIN node.children : Child(i)
         [] OTHER -> \A i \in DOMAIN node.children : Child(i)

Path(f) == f.folder \o f.name

Target(parsed, f) ==
    IF "match_path" \in parsed.flags \/ parsed.path_includes # <<>> THEN Path(f) ELSE f.name

NameMatches(parsed, f) ==
    LET text == Target(parsed, f)
        folded == [parsed EXCEPT !.flags = {}]
    IN /\ \A i \in DOMAIN parsed.path_includes :
             \E j \in DOMAIN text : PartOf(folded, parsed.path_includes[i], text[j])
       /\ IF parsed.expression # None THEN Holds(parsed, parsed.expression, text)
          ELSE /\ \A i \in DOMAIN parsed.or_groups :
                     \E j \in DOMAIN parsed.or_groups[i] :
                        Hit(parsed, parsed.or_groups[i][j], text)
               /\ \A i \in DOMAIN parsed.terms : Hit(parsed, parsed.terms[i], text)

InFolder(f, words) == \E w \in words : \E i \in DOMAIN Path(f) : Lower[Path(f)[i]] = w

(* FileEntry.extension: what follows the last dot; a directory has none. *)
extension(f) == IF f.dir \/ Len(f.name) = 1 THEN End ELSE Last(f.name)

SizeAsked(parsed) == parsed.size_min # 0 \/ parsed.size_max # 0
SizeFits(parsed, size) ==
    /\ size >= parsed.size_min
    /\ parsed.size_max # 0 => size <= parsed.size_max

(* _matches up to the size, which loads the entry when it is asked for... *)
KindMatches(parsed, filter, f) ==
    /\ ~InFolder(f, filter.exclude)
    /\ "files_only" \in parsed.flags => ~f.dir
    /\ "folders_only" \in parsed.flags => f.dir
    /\ parsed.ext_filter # {} => extension(f) \in parsed.ext_filter

(* ... and the rest.  The dates of an entry not loaded are missing, and no *)
(* bound accepts a missing date.                                           *)
_matches(parsed, filter, f, known) ==
    /\ KindMatches(parsed, filter, f)
    /\ SizeAsked(parsed) => SizeFits(parsed, f.size)
    /\ (parsed.flags \intersect Tests) \subseteq f.is
    /\ parsed.date_after # 0 => known /\ f.date >= parsed.date_after
    /\ parsed.date_before # 0 => known /\ f.date <= parsed.date_before
    /\ NameMatches(parsed, f)

----------------------------------------------------------------------------
(* The two routes. *)

(* Mutant of Matched: sizes and dates are taken as they are.               *)
MatchedUnloaded(parsed, filter) ==
    SelectSeq(Entry, LAMBDA f : ~f.excluded /\ _matches(parsed, filter, f, f \in loaded))

(* A walk over the list that the exclusion rules have left.  It stops at   *)
(* the limit; find_duplicates needs all results first.  It loads what it   *)
(* compares by size and then, to sort by date, every result.               *)
Matched(parsed, filter) ==
    SelectSeq(Entry, LAMBDA f : /\ ~f.excluded
                                /\ _matches(parsed, filter, f,
                                            f \in loaded \/ SizeAsked(parsed)))

Duplicated(results) ==
    LET Twin(f) == /\ ~f.dir
                   /\ \E i \in DOMAIN results :
                        /\ results[i] # f /\ ~results[i].dir
                        /\ [j \in DOMAIN f.name |-> Lower[f.name[j]]]
                             = [j \in DOMAIN results[i].name |-> Lower[results[i].name[j]]]
    IN SelectSeq(results, Twin)

Newest(results) == SortSeq(results, LAMBDA f, g : f.date > g.date)
Take(results, limit) ==
    IF limit = 0 \/ limit > Len(results) THEN results ELSE SubSeq(results, 1, limit)

_memory_search(parsed, filter, limit) ==
    LET dupes == "dupe" \in parsed.flags
        all == Matched([parsed EXCEPT !.flags = @ \ {"dupe"}], filter)
    IN IF dupes THEN Take(Newest(Duplicated(all)), limit) ELSE Newest(Take(all, limit))

Visited(parsed, filter, limit) ==
    LET all == Matched(parsed, filter) IN
    IF limit = 0 \/ "dupe" \in parsed.flags \/ Len(all) < limit THEN Files
    ELSE {Entry[i] : i \in 1..(CHOOSE i \in DOMAIN Entry : Entry[i] = all[limit])}

Loads(parsed, filter, limit, results) ==
    Range(results) \union
    {f \in Visited(parsed, filter, limit) :
        SizeAsked(parsed) /\ ~f.excluded /\ KindMatches(parsed, filter, f)}

(* One SELECT over the rows.  The extension is what follows the first dot, *)
(* of directories too; a row that no stat has filled holds zeros.          *)
RowSize(f) == IF f \in rows THEN f.size ELSE 0
RowDate(f) == IF f \in rows THEN f.date ELSE 0

RowMatches(parsed, filter, f) ==
    LET exts == IF filter.exts # {} THEN filter.exts ELSE parsed.ext_filter
        text == IF parsed.terms # <<>> THEN parsed.terms ELSE parsed.path_includes
        column == Target(parsed, f)
    IN /\ exts # {} => Len(f.name) = 2 /\ Last(f.name) \in exts
       /\ "files_only" \in parsed.flags => ~f.dir
       /\ "folders_only" \in parsed.flags => f.dir
       /\ SizeFits(parsed, RowSize(f))
       /\ RowDate(f) >= parsed.date_after
       /\ parsed.date_before # 0 => RowDate(f) <= parsed.date_before
       /\ ~InFolder(f, filter.exclude)
       /\ text # <<>> => \E i \in DOMAIN column :
                            PartOf([parsed EXCEPT !.flags = {}], text[1], column[i])

_db_search(parsed, filter, limit) ==
    LET found == SelectSeq(Entry, LAMBDA f : RowMatches(parsed, filter, f))
    IN Take(SortSeq(found, LAMBDA f, g : RowDate(f) > RowDate(g)), limit)

\* Mutant: a path beside a term is left to the SELECT, which has one text.
CanUseDbPaths(parsed) ==
    /\ parsed.flags \intersect
          ({"use_regex", "match_case", "match_whole_word", "match_whole_filename",
            "use_wildcards", "use_fuzzy"} \union Tests) = {}
    /\ parsed.expression = None /\ parsed.or_groups = <<>>
    /\ Len(parsed.path_includes) <= 1 /\ Len(parsed.terms) <= 1

(* What a SELECT cannot express takes the walk. *)
_can_use_db(parsed) ==
    /\ parsed.flags \intersect
          ({"use_regex", "match_case", "match_whole_word", "match_whole_filename",
            "use_wildcards", "use_fuzzy"} \union Tests) = {}
    /\ parsed.expression = None
    /\ parsed.or_groups = <<>>
    /\ parsed.path_includes # <<>> => parsed.terms = <<>> /\ Len(parsed.path_includes) = 1
    /\ Len(parsed.terms) <= 1

(* The filter's flags are added; its sizes replace those of the query, its *)
(* extensions only stand in for missing ones.                              *)
ApplyFilter(parsed, filter) ==
    [parsed EXCEPT !.flags = @ \union filter.flags,
                   !.ext_filter = IF @ = {} THEN filter.exts ELSE @,
                   !.size_min = IF filter.min # 0 THEN filter.min ELSE @,
                   !.size_max = IF filter.max # 0 THEN filter.max ELSE @]

Understood(query, options, filter) ==
    ApplyFilter(_apply_synonyms(parse_query(query, Slots, options)), filter)

----------------------------------------------------------------------------
(* Actions. *)

search(query, options, filter, limit) ==
    LET parsed == Understood(query, options, filter)
        db == _can_use_db(parsed)
        answer == IF db THEN _db_search(parsed, filter, limit)
                  ELSE _memory_search(parsed, filter, limit)
    IN /\ loaded' = IF db THEN loaded ELSE loaded \union Loads(parsed, filter, limit, answer)
       /\ last' = [query |-> query, options |-> options, filter |-> filter, limit |-> limit,
                   parsed |-> parsed, db |-> db, answer |-> answer]
       /\ UNCHANGED rows

(* A bound: a query is typed into an empty box, and one of Words only      *)
(* before any entry is loaded.                                             *)
Search ==
    /\ last.query = <<>>
    /\ \/ \E query \in Queries, options \in Options, filter \in Filters, limit \in Limits :
             search(query, options, filter, limit)
       \/ /\ loaded = {} /\ rows = {}
          /\ \E query \in Words : search(query, {}, NoFilter, 0)

(* The box is emptied: the query that finds every row. *)
Clear ==
    /\ last.query # <<>>
    /\ search(<<>>, {}, NoFilter, 0)

(* save_cache writes the rows anew. *)
Save ==
    /\ loaded # rows
    /\ rows' = loaded
    /\ UNCHANGED <<loaded, last>>

(* A new start reads the entries from the rows. *)
Restart ==
    /\ loaded # rows
    /\ loaded' = rows
    /\ UNCHANGED <<rows, last>>

Idle == [query |-> <<>>, options |-> {}, filter |-> NoFilter, limit |-> 0,
         parsed |-> NoQuery, db |-> TRUE, answer |-> <<>>]

Init ==
    /\ loaded = {}
    /\ rows = {}
    /\ last = Idle

Next == Search \/ Clear \/ Save \/ Restart

Spec == Init /\ [][Next]_vars

----------------------------------------------------------------------------
(* Properties. *)

(* What the words of a query mean by the table of the README: each word    *)
(* the files whose name has it, a bar either side, words side by side both *)
(* sides, ! the others, brackets their content.                            *)
RECURSIVE WellFormed(_), Denotes(_, _)
WellFormed(texts) ==
    LET n == Len(texts) IN
    IF n <= 1 THEN n = 1 /\ texts[1] \notin Operators
    ELSE \/ texts[1] = "!" /\ WellFormed(Tail(texts))
         \/ texts[1] = "(" /\ texts[n] = ")" /\ WellFormed(SubSeq(texts, 2, n - 1))
         \/ \E k \in 2..n : /\ WellFormed(SubSeq(texts, 1, k - 1))
                           /\ WellFormed(SubSeq(texts, IF texts[k] = "|" THEN k + 1 ELSE k, n))

Denotes(texts, Word_) ==
    LET n == Len(texts)
        Bars == {k \in 2..n - 1 : /\ texts[k] = "|" /\ WellFormed(SubSeq(texts, 1, k - 1))
                                /\ WellFormed(SubSeq(texts, k + 1, n))}
        Seams == {k \in 2..n : /\ WellFormed(SubSeq(texts, 1, k - 1))
                              /\ WellFormed(SubSeq(texts, k, n))}
        Left(k) == Denotes(SubSeq(texts, 1, k - 1), Word_)
    IN IF n = 1 THEN Word_[texts[1]]
       ELSE IF Bars # {}
            THEN LET k == CHOOSE k \in Bars : TRUE
                 IN Left(k) \union Denotes(SubSeq(texts, k + 1, n), Word_)
       ELSE IF Seams # {}
            THEN LET k == CHOOSE k \in Seams : TRUE
                 IN Left(k) \intersect Denotes(SubSeq(texts, k, n), Word_)
       ELSE IF texts[1] = "!" THEN Files \ Denotes(Tail(texts), Word_)
       ELSE Denotes(SubSeq(texts, 2, n - 1), Word_)

Unfolded(query) ==
    LET Once(q, i) == FlattenSeq([j \in DOMAIN q |->
                         IF q[j].mod = "@" /\ q[j].text \in DOMAIN Slots
                         THEN Slots[q[j].text] ELSE <<q[j]>>])
    IN FoldLeft(Once, query, [i \in 1..MaxDepth |-> i])

(* A well-formed query of words, quoted words, operators and saved slots   *)
(* finds the files its words denote once every slot stands for its query:  *)
(* parse_query's modifiers, tokens and parser, and the matcher compiled    *)
(* from them, agree with the table of README.md (Search Syntax).  A walk   *)
(* leaves out what the exclusion rules exclude.  Not covered: synonyms,    *)
(* wildcards and the modifiers.                                            *)
MeaningKept ==
    LET tokens == Unfolded(last.query)
        texts == [i \in DOMAIN tokens |-> tokens[i].text]
        sensitive == \/ "match_case" \in last.options
                     \/ \E i \in DOMAIN texts : Lower[texts[i]] # texts[i]
        reading == [NoQuery EXCEPT !.flags = IF sensitive THEN {"match_case"} ELSE {}]
        Named == [t \in Range(texts) \ Operators |->
                     {f \in Files : \E i \in DOMAIN f.name : PartOf(reading, t, f.name[i])}]
        plain == /\ \A i \in DOMAIN tokens : tokens[i].mod \in {"", "quote"}
                 /\ Range(texts) \intersect (DOMAIN Stem \union DOMAIN Synonyms) = {}
                 /\ last.options \subseteq {"match_case"}
                 /\ last.filter = NoFilter /\ last.limit = 0
    IN plain /\ WellFormed(texts) =>
         Range(last.answer) = IF last.db THEN Denotes(texts, Named)
                              ELSE {f \in Denotes(texts, Named) : ~f.excluded}

(* A query that _can_use_db sends to the database finds a file there       *)
(* exactly when a walk over the entries finds it, but for the files of the *)
(* exceptions: an exclusion rule's, those with several dots and the        *)
(* directories when extensions are asked for, those whose size or date is  *)
(* asked for and not yet loaded or saved, and all when the filter's        *)
(* extensions replace the query's.                                         *)
SameAnswer ==
    LET parsed == last.parsed
        exts == parsed.ext_filter
        Unlike(f) ==
          \/ f.excluded
          \/ exts # {} /\ (f.dir \/ Len(f.name) > 2)
          \/ last.filter.exts \notin {{}, exts}
          \/ /\ SizeAsked(parsed) \/ parsed.date_after # 0 \/ parsed.date_before # 0
             /\ f \notin loaded \/ f \notin rows
    IN last.db => \A f \in {g \in Files : ~Unlike(g)} :
         f \in Range(_db_search(parsed, last.filter, 0))
            <=> f \in Range(_memory_search(parsed, last.filter, 0))

(* What a walk finds does not depend on which entries earlier walks have   *)
(* loaded, unless the query has a date and no size: _matches loads an      *)
(* entry for its size, never for its date.                                 *)
AnswerStable ==
    LET parsed == last.parsed IN
    SizeAsked(parsed) \/ (parsed.date_after = 0 /\ parsed.date_before = 0) =>
        LET Finds(f, all) == _matches(parsed, last.filter, f, f \in all) IN
        \A f \in Files : ~f.excluded /\ "dupe" \notin parsed.flags =>
            (f \in Range(_memory_search(parsed, last.filter, 0)) <=> Finds(f, Files))

=============================================================================

--------------------------- MODULE MCSearchEngine ---------------------------
(* Five entries, one of them a directory, one excluded, one with two dots; *)
(* every sequence of up to five words and operators, and every pair of     *)
(* modifiers.                                                              *)
EXTENDS SearchEngine

Texts == {"a", "A", "b", "ab", "d", "x", "y", "t", "z", "a*", "s", "u", "v", ""} \union Operators
MCLower == [t \in Texts |-> IF t = "A" THEN "a" ELSE t]
MCStem == [t \in {"a*"} |-> "a"]
MCSynonyms == [t \in {"z"} |-> <<"b">>]
MCWithin == {<<"a", "ab">>, <<"b", "ab">>}
MCScattered == {<<"x", "ab">>}
MCSlots == [s |-> <<Word("a"), Word("|"), Word("b")>>,
            u |-> <<Slot("s"), Slot("v")>>,
            v |-> <<Word("!"), Slot("v")>>]
MCOptions == {{}, {"match_case"}}

File(name, folder, dir, size, date, is, excluded) ==
    [name |-> name, folder |-> folder, dir |-> dir, size |-> size, date |-> date,
     is |-> is, excluded |-> excluded]
MCEntry == <<File(<<"a">>, <<"d">>, TRUE, 0, 1, {}, FALSE),
             File(<<"A", "x">>, <<"d">>, FALSE, 2, 2, {"attrib"}, FALSE),
             File(<<"ab", "t", "x">>, <<>>, FALSE, 1, 3, {}, FALSE),
             File(<<"b", "y">>, <<"a">>, FALSE, 2, 1, {"content"}, FALSE),
             File(<<"a", "x">>, <<>>, FALSE, 2, 2, {"attrib"}, TRUE)>>

Atoms == {Word(t) : t \in {"a", "A", "b"} \union Operators}
Mod(mod, text, num) == [mod |-> mod, text |-> text, num |-> num]
Mods == {Mod(m, "", 0) : m \in {"case", "wholeword", "path", "attrib", "dupe"}}
        \union {Mod(m, "a", 0) : m \in {"file", "folder", "regex", "fuzzy"}}
        \union {Mod("path", "d", 0)}
        \union {Mod("ext", "x", 0)}
        \union {Mod(m, "", 2) : m \in {"size>", "dm", "dm<"}}
        \union {Word(t) : t \in {"a", "A", "z", "a*"}} \union {Slot("s"), Slot("u")}
SeqsTo(S, n) == UNION {[1..k -> S] : k \in 0..n}
MCQueries == SeqsTo(Mods, 2) \ {<<>>}
MCWords == SeqsTo(Atoms, 5)
           \union {<<x, y, z>> : x \in {Word("!"), Word("b")}, y \in {Slot("s"), Slot("u")},
                          z \in {Word("!"), Mod("quote", "|", 0), Word("b")}}
MCFilters == {NoFilter, [NoFilter EXCEPT !.exts = {"y"}, !.flags = {"files_only"}],
              [NoFilter EXCEPT !.min = 2, !.exclude = {"d"}]}
MCLimits == {0, 1}
=============================================================================

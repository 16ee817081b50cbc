----------------------------- MODULE QueryParse -----------------------------
(***************************************************************************)
(* From a typed query to a ParsedQuery (src/core/search.py), with the      *)
(* expansion of saved query slots (src/core/query_slots.py) and of         *)
(* synonyms (src/core/synonyms.py).                                        *)
(*                                                                         *)
(* A query is a sequence of tokens, each what stands between two spaces or *)
(* operators of the text: a token has a modifier (mod: "" for a plain      *)
(* word, "quote" for a quoted one, "@" for a slot), a text and, for the    *)
(* modifiers that take one, a number.  The four operators are plain words  *)
(* of the texts in Operators.  The options and the modifiers that only     *)
(* switch something on or off are members of one set of flags.             *)
(***************************************************************************)
EXTENDS Naturals, Sequences, SequencesExt

CONSTANTS
    Lower,      \* [texts -> texts]: str.lower() of the texts of the instance
    Stem,       \* [wildcard terms -> texts]: the term without its trailing *
    Synonyms,   \* [texts -> sequences of texts]: ~/.quickfind/synonyms.json
    MaxDepth    \* max_depth of expand_query_slots, 8 in the code

Operators == {"|", "!", "(", ")"}
End == ""       \* what _peek returns past the last token

Word(text) == [mod |-> "", text |-> text, num |-> 0]
Slot(name) == [mod |-> "@", text |-> name, num |-> 0]

----------------------------------------------------------------------------
(* Saved slots. *)

(* Each slot token is replaced by the query the slot stands for, itself    *)
(* expanded; a slot that is not defined, or is being expanded already, is  *)
(* left as it is, and at max_depth the replacement is.                     *)
RECURSIVE expand_text(_, _, _)
expand_text(slots, query, stack) ==
    FlattenSeq([i \in DOMAIN query |->
        LET token == query[i] IN
        IF token.mod # "@" \/ token.text \notin DOMAIN slots \ stack THEN <<token>>
        ELSE IF Cardinality(stack) + 1 >= MaxDepth THEN slots[token.text]
        ELSE expand_text(slots, slots[token.text], stack \union {token.text})])

expand_query_slots(slots, query) == expand_text(slots, query, {})

----------------------------------------------------------------------------
(* The expression parser: recursive descent over the tokens from pos on.   *)

None == [op |-> "none", term |-> "", children |-> <<>>]
Term(text) == [op |-> "term", term |-> text, children |-> <<>>]
Not(node) == [op |-> "not", term |-> "", children |-> <<node>>]

(* One node stands for itself; none for nothing. *)
Join(op, nodes) ==
    LET real == SelectSeq(nodes, LAMBDA node : node # None) IN
    IF real = <<>> THEN None
    ELSE IF Len(real) = 1 THEN real[1]
    ELSE [op |-> op, term |-> "", children |-> real]

_peek(tokens, pos) == IF pos <= Len(tokens) THEN tokens[pos] ELSE End

RECURSIVE _parse_or(_, _, _), _parse_and(_, _, _), _parse_not(_, _), _parse_primary(_, _)

(* nodes: the operands read before pos. *)
_parse_or(tokens, pos, nodes) ==
    LET operand == _parse_and(tokens, pos, <<>>)
        all == Append(nodes, operand.node)
    IN IF _peek(tokens, operand.pos) = "|" THEN _parse_or(tokens, operand.pos + 1, all)
       ELSE [node |-> Join("or", all), pos |-> operand.pos]

_parse_and(tokens, pos, nodes) ==
    IF _peek(tokens, pos) \in {End, ")", "|"} THEN [node |-> Join("and", nodes), pos |-> pos]
    ELSE LET operand == _parse_not(tokens, pos)
         IN _parse_and(tokens, operand.pos, Append(nodes, operand.node))

_parse_not(tokens, pos) ==
    IF _peek(tokens, pos) # "!" THEN _parse_primary(tokens, pos)
    ELSE LET operand == _parse_not(tokens, pos + 1)
         IN [node |-> IF operand.node = None THEN Term("!") ELSE Not(operand.node),
             pos |-> operand.pos]

\* Mutant: the closing bracket of a group is left for the caller.
GroupLeftOpen(tokens, pos) ==
    LET token == _peek(tokens, pos) IN
    CASE token \in {End, ")"} -> [node |-> None, pos |-> pos]
      [] token = "(" -> _parse_or(tokens, pos + 1, <<>>)
      [] OTHER -> [node |-> Term(token), pos |-> pos + 1]

_parse_primary(tokens, pos) ==
    LET token == _peek(tokens, pos) IN
    CASE token \in {End, ")"} -> [node |-> None, pos |-> pos]
      [] token = "(" ->
           LET inner == _parse_or(tokens, pos + 1, <<>>)
           IN [node |-> inner.node,
               pos |-> IF _peek(tokens, inner.pos) = ")" THEN inner.pos + 1 ELSE inner.pos]
      [] OTHER -> [node |-> Term(token), pos |-> pos + 1]

(* What follows an unmatched ")" is not read. *)
_parse_boolean_expression(tokens) ==
    IF \A i \in DOMAIN tokens : tokens[i] \notin Operators THEN None
    ELSE _parse_or(tokens, 1, <<>>).node

RECURSIVE _boolean_expression_terms(_)
_boolean_expression_terms(node) ==
    IF node.op = "term" THEN <<node.term>>
    ELSE FlattenSeq([i \in DOMAIN node.children |->
                        _boolean_expression_terms(node.children[i])])

(* The fields of older callers: a conjunction of terms and negated terms,  *)
(* or one group of alternatives; anything else leaves them empty.          *)
RECURSIVE OnlyAnds(_), OnlyOrs(_)
OnlyAnds(node) ==
    \/ node.op = "term"
    \/ node.op = "not" /\ node.children[1].op = "term"
    \/ node.op = "and" /\ \A i \in DOMAIN node.children : OnlyAnds(node.children[i])
OnlyOrs(node) ==
    \/ node.op = "term"
    \/ node.op = "or" /\ \A i \in DOMAIN node.children : OnlyOrs(node.children[i])

RECURSIVE Positives(_)
Positives(node) ==
    CASE node.op = "term" -> <<node.term>>
      [] node.op = "not" -> <<>>
      [] OTHER -> FlattenSeq([i \in DOMAIN node.children |-> Positives(node.children[i])])

_legacy_boolean_fields(node) ==
    [terms |-> IF OnlyAnds(node) THEN Positives(node) ELSE <<>>,
     or_groups |-> IF OnlyOrs(node) /\ ~OnlyAnds(node)
                   THEN <<_boolean_expression_terms(node)>> ELSE <<>>]

----------------------------------------------------------------------------
(* Modifiers. *)

(* The modifiers that switch flags on and off. *)
Switches ==
    [case |-> [on |-> {"match_case", "explicit"}, off |-> {}],
     nocase |-> [on |-> {"explicit"}, off |-> {"match_case"}],
     regex |-> [on |-> {"use_regex"}, off |-> {}],
     noregex |-> [on |-> {}, off |-> {"use_regex"}],
     wildcards |-> [on |-> {"use_wildcards"}, off |-> {}],
     nowildcards |-> [on |-> {}, off |-> {"use_wildcards"}],
     fuzzy |-> [on |-> {"use_fuzzy"}, off |-> {}],
     nofuzzy |-> [on |-> {}, off |-> {"use_fuzzy"}],
     wholeword |-> [on |-> {"match_whole_word"}, off |-> {}],
     nowholeword |-> [on |-> {}, off |-> {"match_whole_word"}],
     wholefilename |-> [on |-> {"match_whole_filename"}, off |-> {}],
     nowholefilename |-> [on |-> {}, off |-> {"match_whole_filename"}],
     path |-> [on |-> {"match_path"}, off |-> {}],
     nopath |-> [on |-> {}, off |-> {"match_path"}],
     file |-> [on |-> {"files_only"}, off |-> {"folders_only"}],
     folder |-> [on |-> {"folders_only"}, off |-> {"files_only"}]]

(* Of these, the ones whose value, if any, is one more term. *)
Carrying == {"regex", "wildcards", "fuzzy", "wholefilename", "file", "folder"}

(* The modifiers that test something else than the name (archive:, which   *)
(* looks into archives instead, is left out).                              *)
Tests == {"attrib", "len", "parent", "content", "dupe", "broken", "git", "plugin"}

NoQuery == [flags |-> {}, rest |-> <<>>, path_includes |-> <<>>, ext_filter |-> {},
            size_min |-> 0, size_max |-> 0, date_after |-> 0, date_before |-> 0,
            terms |-> <<>>, or_groups |-> <<>>, expression |-> None]

Modify(parsed, token) ==
    LET flags == IF token.mod \in DOMAIN Switches
                 THEN (parsed.flags \ Switches[token.mod].off) \union Switches[token.mod].on
                 ELSE IF token.mod \in Tests THEN parsed.flags \union {token.mod}
                 ELSE parsed.flags
        isTerm == \/ token.mod \in {"", "quote", "@"}
                  \/ token.mod \in Carrying /\ token.text # ""
        isPath == token.mod = "path" /\ token.text # ""
    IN [parsed EXCEPT
          !.flags = flags,
          !.rest = IF isTerm THEN Append(@, token.text) ELSE @,
          !.path_includes = IF isPath THEN Append(@, token.text) ELSE @,
          !.ext_filter = IF token.mod = "ext" THEN @ \union {token.text} ELSE @,
          !.size_min = IF token.mod \in {"size", "size>"} THEN token.num ELSE @,
          !.size_max = IF token.mod \in {"size", "size<"} THEN token.num ELSE @,
          !.date_after = IF token.mod \in {"dm", "dm>"} THEN token.num ELSE @,
          !.date_before = IF token.mod \in {"dm", "dm<"} THEN token.num ELSE @]

(* Terms with a wildcard switch wildcards on.  Unless a modifier has       *)
(* spoken, the case counts as the index's case mode says: in smart mode    *)
(* when it did already, or when a term has capitals.                       *)
Guess(parsed) ==
    LET texts == parsed.terms \o FlattenSeq(parsed.or_groups)
                    \o _boolean_expression_terms(parsed.expression)
        wild == /\ "use_regex" \notin parsed.flags
                /\ \E i \in DOMAIN parsed.terms : parsed.terms[i] \in DOMAIN Stem
        sensitive == CASE "explicit" \in parsed.flags -> "match_case" \in parsed.flags
                       [] "insensitive" \in parsed.flags -> FALSE
                       [] OTHER -> \/ parsed.flags \intersect {"sensitive", "match_case"} # {}
                                   \/ \E i \in DOMAIN texts : Lower[texts[i]] # texts[i]
    IN [parsed EXCEPT !.flags = (@ \ {"match_case"})
                                \union (IF wild THEN {"use_wildcards"} ELSE {})
                                \union (IF sensitive THEN {"match_case"} ELSE {})]

parse_query(query, slots, options) ==
    LET blank == [NoQuery EXCEPT !.flags = options]
        read == FoldLeft(Modify, blank, expand_query_slots(slots, query))
        expression == _parse_boolean_expression(read.rest)
        legacy == _legacy_boolean_fields(expression)
    IN IF query = <<>> THEN blank
       ELSE Guess(IF expression = None THEN [read EXCEPT !.terms = read.rest]
                  ELSE [read EXCEPT !.expression = expression, !.terms = legacy.terms,
                                    !.or_groups = legacy.or_groups])

(* expand_query_terms: a term with synonyms becomes a group of             *)
(* alternatives, unless the query is an expression.                        *)
_apply_synonyms(parsed) ==
    LET Known(term) == Lower[term] \in DOMAIN Synonyms
        Unknown(term) == ~Known(term)
        known == SelectSeq(parsed.terms, Known)
    IN IF parsed.expression # None THEN parsed
       ELSE [parsed EXCEPT
               !.terms = SelectSeq(@, Unknown),
               !.or_groups = @ \o [i \in DOMAIN known |->
                                      <<known[i]>> \o Synonyms[Lower[known[i]]]]]
=============================================================================

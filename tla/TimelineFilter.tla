---------------------------- MODULE TimelineFilter ----------------------------
(***************************************************************************)
(* The filter of the inspector (server/ui/src/lib/timeline-filter.ts) and  *)
(* how the inspector adds to a query (components/trace-inspector.tsx).     *)
(*                                                                          *)
(* A text is a sequence of pieces: the characters that the filter tells    *)
(* apart, and words.  A kind is the sequence of its parts.  Letter case,   *)
(* the numeric fields, tags and models are left out.                       *)
(***************************************************************************)
EXTENDS TraceOperations

Space == " "
Quote == "quote"
Backslash == "backslash"
Colon == ":"
Minus == "-"
Bar == "|"
Star == "*"
Comparisons == {">=", "<=", ">", "<", "="}

ValueFields == {"kind", "agent", "tool", "status", "trace"}
FilterFields == ValueFields \union {"has"}

-----------------------------------------------------------------------------
Includes(text, part) ==
    \E i \in 0..(Len(text) - Len(part)) : SubSeq(text, i + 1, i + Len(part)) = part

\* The parts of a text between the given positions.
PartsOf(text, breaks) ==
    {SubSeq(text, a + 1, Min({b \in breaks \union {Len(text) + 1} : b > a}) - 1)
        : a \in breaks \union {0}}

Positions(text, piece) == {i \in DOMAIN text : text[i] = piece}

\* tokenize: split at the spaces that are not quoted.
Quoted(text, i) == Cardinality({j \in Positions(text, Quote) : j < i}) % 2 = 1

\* Mutant of Tokens: a quoted space ends a token too.
TokensUnquoted(query) == PartsOf(query, Positions(query, Space)) \ {<<>>}

Tokens(query) ==
    PartsOf(query, {i \in Positions(query, Space) : ~Quoted(query, i)}) \ {<<>>}

Unquote(text) ==
    IF text # <<>> /\ Head(text) = Quote /\ Last(text) = Quote
    THEN SubSeq(text, 2, Len(text) - 1)
    ELSE text

Body(token) == IF Head(token) = Minus THEN Tail(token) ELSE token

\* The position of the first colon, 0 if there is none.
Separator(body) == SelectInSeq(body, LAMBDA piece : piece = Colon)

\* A clause for a field, of its value as written.
FieldClause(negated, field, written) ==
    LET compares == Len(written) > 1 /\ Head(written) \in Comparisons
    IN  [field |-> field, negated |-> negated,
         exact |-> compares /\ Head(written) = "=",
         split |-> ~compares,
         value |-> IF compares THEN Tail(written) ELSE written]

\* The clauses of a token: none if it is in error.
Clauses(token) ==
    LET body == Body(token)
        at == Separator(body)
        name == SubSeq(body, 1, at - 1)
        written == Unquote(SubSeq(body, at + 1, Len(body)))
        negated == Head(token) = Minus
    IN  IF at <= 1
        THEN {[field |-> "text", negated |-> negated, value |-> value]
              : value \in {Unquote(body)} \ {<<>>}}
        ELSE {FieldClause(negated, field, written)
              : field \in {f \in FilterFields : name = <<f>> /\ written # <<>>}}

ParseTimelineQuery(query) == UNION {Clauses(token) : token \in Tokens(query)}

-----------------------------------------------------------------------------
FieldText(entry, field) ==
    CASE field = "kind" -> entry.kind
      [] field = "agent" -> entry.agent
      [] field = "tool" -> entry.tool
      [] field = "status" -> IF entry.status = Absent THEN Absent ELSE <<entry.status>>
      [] field = "trace" -> entry.trace

\* A star stands for any text, and the rest must match from end to end: begin[i] is
\* where piece i of the pattern begins.
MatchesPattern(text, pattern) ==
    \E begin \in [1..(Len(pattern) + 1) -> 1..(Len(text) + 1)] :
        /\ begin[1] = 1 /\ begin[Len(pattern) + 1] = Len(text) + 1
        /\ \A i \in DOMAIN pattern :
              IF pattern[i] = Star THEN begin[i] <= begin[i + 1]
              ELSE begin[i + 1] = begin[i] + 1 /\ text[begin[i]] = pattern[i]

CompareText(text, target) ==
    IF Star \in Range(target) THEN MatchesPattern(text, target) ELSE Includes(text, target)

FieldMatches(entry, clause) ==
    LET text == FieldText(entry, clause.field)
        targets == IF clause.split THEN PartsOf(clause.value, Positions(clause.value, Bar))
                   ELSE {clause.value}
    IN  IF clause.field = "has"
        THEN \E f \in ValueFields \ {"kind"} :
                clause.value = <<f>> /\ FieldText(entry, f) # Absent
        ELSE /\ text # Absent
             /\ IF clause.exact THEN text = clause.value
                ELSE \E target \in targets : CompareText(text, target)

\* entrySearchText: the fields one after the other.
SearchText(entry) ==
    FlattenSeq([i \in 1..5 |->
        LET text == FieldText(entry, <<"kind", "agent", "tool", "status", "trace">>[i])
        IN  IF text = Absent THEN <<>> ELSE text \o <<Space>>])

TimelineEntryMatches(entry, clauses) ==
    \A clause \in clauses :
        clause.negated #
            (IF clause.field = "text" THEN Includes(SearchText(entry), clause.value)
             ELSE FieldMatches(entry, clause))

\* indexesForContext, among n operations.
IndexesForContext(n, matches, mode) ==
    CASE mode = "full" -> 1..n
      [] mode = "matches" -> matches
      [] mode = "context" -> {i \in 1..n : \E m \in matches : m \in (i - 1)..(i + 1)}

ObservedFilterValues(t, field) ==
    {FieldText(t[i], field) : i \in DOMAIN t} \ {Absent}

-----------------------------------------------------------------------------
\* Additions to a query.

QuoteFilterValue(value) ==
    LET escaped == FlattenSeq([i \in DOMAIN value |->
                      IF value[i] = Quote THEN <<Backslash, Quote>> ELSE <<value[i]>>])
    IN  IF Space \in Range(value) THEN <<Quote>> \o escaped \o <<Quote>> ELSE value

Words(query) == PartsOf(query, Positions(query, Space))

Trim(text) ==
    LET solid == DOMAIN text \ Positions(text, Space)
    IN  IF solid = {} THEN <<>> ELSE SubSeq(text, Min(solid), Max(solid))

\* addFilter.
WithFilter(query, field, value) ==
    LET token == <<field, Colon>> \o QuoteFilterValue(value)
        kept == Trim(query)
    IN  IF token \in Words(query) THEN query
        ELSE IF kept = <<>> THEN token ELSE kept \o <<Space>> \o token

\* What is being typed: the text after the last space.
Start(query) == Max({0} \union Positions(query, Space))
Typing(query) == SubSeq(query, Start(query) + 1, Len(query))

Unquoted(text) ==
    LET from == IF text # <<>> /\ Head(text) = Quote THEN 2 ELSE 1
        to == IF text # <<>> /\ Last(text) = Quote THEN Len(text) - 1 ELSE Len(text)
    IN  SubSeq(text, from, to)

\* The values suggested for the field that is being typed (the code keeps seven).
Suggestions(t, query) ==
    LET typing == Typing(query)
        body == IF typing = <<>> THEN <<>> ELSE Body(typing)
        sign == IF body = typing THEN <<>> ELSE <<Minus>>
        partial == Unquoted(SubSeq(body, 3, Len(body)))
    IN  IF Separator(body) # 2 \/ body[1] \notin ValueFields THEN {}
        ELSE {sign \o SubSeq(body, 1, 2) \o QuoteFilterValue(value)
              : value \in {v \in ObservedFilterValues(t, body[1]) : Includes(v, partial)}}

\* applySuggestion.
WithSuggestion(query, value) ==
    LET kept == Trim(SubSeq(query, 1, Start(query) - 1))
    IN  (IF kept = <<>> THEN <<>> ELSE kept \o <<Space>>) \o value \o <<Space>>
===============================================================================

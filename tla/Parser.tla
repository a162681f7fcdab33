------------------------------- MODULE Parser -------------------------------
(***************************************************************************)
(* Parser::parse, and the text of a statement as a client writes it.  A    *)
(* text is a sequence of words, in capitals and on one line; brackets and  *)
(* commas are words of their own, and no value contains one.  An optional  *)
(* part of a statement (has_join, has_order) is a sequence of at most one  *)
(* element.                                                                *)
(***************************************************************************)
EXTENDS Integers, SequencesExt, FiniteSetsExt

CONSTANT Qualified      \* the word T.C for the name C of a column of T

ASSUME QualifiedAssumption == IsInjective(Qualified)

\* The part of a word behind the last dot, nothing for a bracket or a comma.
strip_delimiters(word) ==
    CASE word \in Range(Qualified) -> CHOOSE name \in DOMAIN Qualified : Qualified[name] = word
      [] word \in {"(", ",", ";"} -> ""
      [] OTHER -> word

-----------------------------------------------------------------------------
(* Finding things in a text *)

\* Where find(" phrase ") may stop: with a word before and a word behind.
Find(words, phrase) ==
    {i \in 2 .. Len(words) - Len(phrase) : SubSeq(words, i, i + Len(phrase) - 1) = phrase}

Has(words, phrase) == Find(words, phrase) # {}

Before(words, phrase) == IF Has(words, phrase) THEN SubSeq(words, 1, Min(Find(words, phrase)) - 1) ELSE words

After(words, phrase) ==
    IF Has(words, phrase) THEN SubSeq(words, Min(Find(words, phrase)) + Len(phrase), Len(words)) ELSE <<>>

\* What is in word after reading i words from a stream: at the end of the text
\* iss >> word leaves it alone.
Word(words, i) == words[Min({i, Len(words)})]

First(words) == IF words = <<>> THEN "" ELSE strip_delimiters(words[1])

\* The parts that getline cuts at commas; nothing follows the last comma.
Cut(words) ==
    LET commas == {i \in DOMAIN words : words[i] = ","}
        ends == SetToSortSeq(commas \cup ({Len(words) + 1} \ {c + 1 : c \in commas \cup {0}}), <)
        from(k) == IF k = 1 THEN 1 ELSE ends[k - 1] + 1
    IN  [k \in DOMAIN ends |-> SubSeq(words, from(k), ends[k] - 1)]

-----------------------------------------------------------------------------
(* Statements *)

None == [type |-> "NONE"]

\* The final validation.
Validated(stmt, complete) == IF stmt.table # "" /\ complete THEN stmt ELSE None

\* The column definitions between the first bracket and the last.  The words
\* behind the type, such as PRIMARY KEY, are ignored.
ColumnDefs(words) ==
    LET open == SelectInSeq(words, LAMBDA w : w = "(")
        close == SelectLastInSeq(words, LAMBDA w : w = ")")
        to == IF open < close THEN close - 1 ELSE Len(words)
        defs == IF open = 0 \/ close = 0 THEN <<>> ELSE Cut(SubSeq(words, open + 1, to))
        named == SelectSeq(defs, LAMBDA def : Len(def) >= 2)
    IN  [k \in DOMAIN named |-> [name |-> strip_delimiters(named[k][1]), type |-> strip_delimiters(named[k][2])]]

ParseCreate(words) ==
    LET table == strip_delimiters(Word(words, IF Word(words, 3) = "IF" THEN 6 ELSE 3))
    IN  Validated([type |-> "CREATE", table |-> table, columns |-> ColumnDefs(words)], ColumnDefs(words) # <<>>)

\* exec_insert cuts raw_values into tuples, from each bracket that opens to the
\* next that closes, and a tuple into trimmed tokens; a token is one word.
Burst(raw) ==
    LET tokens(parts) == [k \in DOMAIN parts |-> IF parts[k] = <<>> THEN "" ELSE parts[k][1]]
        next(word, p) == Min({i \in p .. Len(raw) : raw[i] = word} \cup {Len(raw) + 1})
        from[p \in 1 .. Len(raw) + 2] ==
            LET open == next("(", p)
                close == next(")", open)
            IN  IF close > Len(raw) THEN <<>>
                ELSE <<tokens(Cut(SubSeq(raw, open + 1, close - 1)))>> \o from[close + 1]
    IN  from[1]

ParseInsert(words) ==
    LET raw == After(words, <<"VALUES">>)
    IN  Validated([type |-> "INSERT", table |-> strip_delimiters(Word(words, 3)), tuples |-> Burst(raw)], raw # <<>>)

\* A condition behind the name of the table is ignored.
ParseDelete(words) == Validated([type |-> "DELETE", table |-> strip_delimiters(Word(words, 3))], TRUE)

ParseJoin(rest) ==
    LET part == After(rest, <<"INNER", "JOIN">>)
        behind == After(part, <<"ON">>)
        condition == Before(behind, IF Has(behind, <<"WHERE">>) THEN <<"WHERE">> ELSE <<"ORDER", "BY">>)
    IN  IF ~Has(rest, <<"INNER", "JOIN">>) THEN <<>>
        ELSE <<[table |-> IF behind = <<>> THEN "" ELSE First(part),
                on_left |-> IF Has(condition, <<"=">>) THEN First(condition) ELSE "",
                on_right |-> First(After(condition, <<"=">>))]>>

\* Mutant: the word between two conditions is not skipped.
Conditions_KeepAnd(words) ==
    LET from[p \in 1 .. Len(words) + 4] ==
            IF p + 2 > Len(words) THEN <<>>
            ELSE <<[column |-> strip_delimiters(words[p]), op |-> words[p + 1], value |-> words[p + 2]]>>
                 \o from[p + 3]
    IN  from[1]

\* The loop over the WHERE clause takes three words for a condition and skips
\* the next one, whatever it is; it stops where words are missing.
Conditions(words) ==
    LET from[p \in 1 .. Len(words) + 4] ==
            IF p + 2 > Len(words) THEN <<>>
            ELSE IF strip_delimiters(words[p]) = "AND" THEN from[p + 3]
            ELSE <<[column |-> strip_delimiters(words[p]), op |-> words[p + 1], value |-> words[p + 2]]>>
                 \o from[p + 4]
    IN  from[1]

ParseOrder(rest) ==
    LET words == After(rest, <<"ORDER", "BY">>)
    IN  IF words = <<>> THEN <<>>
        ELSE <<[column |-> First(words), ascending |-> Len(words) = 1 \/ strip_delimiters(words[2]) # "DESC"]>>

ParseSelect(words) ==
    LET columns == Cut(Tail(Before(words, <<"FROM">>)))
        rest == After(words, <<"FROM">>)
    IN  Validated([type |-> "SELECT",
               columns |-> [k \in DOMAIN columns |-> First(columns[k])],
               table |-> First(rest),
               join |-> ParseJoin(rest),
               where |-> Conditions(Before(After(rest, <<"WHERE">>), <<"ORDER", "BY">>)),
               order |-> ParseOrder(rest)],
              columns # <<>>)

parse(words) ==
    CASE First(words) = "CREATE" -> ParseCreate(words)
      [] First(words) = "INSERT" -> ParseInsert(words)
      [] First(words) = "DELETE" -> ParseDelete(words)
      [] First(words) = "SELECT" -> ParseSelect(words)
      [] OTHER -> None

-----------------------------------------------------------------------------
(* The ways to write a statement: README.md, section 4 *)

Commas(parts) == FoldLeft(LAMBDA text, part : IF text = <<>> THEN part ELSE text \o <<",">> \o part, <<>>, parts)

Tuple(tokens) == <<"(">> \o Commas([k \in DOMAIN tokens |-> <<tokens[k]>>]) \o <<")">>

WhereText(where, name(_)) ==
    FlattenSeq([k \in DOMAIN where |->
        <<IF k = 1 THEN "WHERE" ELSE "AND", name(where[k].column), where[k].op, where[k].value>>])

SelectText(s, name(_), direction) ==
    <<"SELECT">> \o Commas([k \in DOMAIN s.columns |-> <<name(s.columns[k])>>]) \o <<"FROM", s.table>>
    \o FlattenSeq([k \in DOMAIN s.join |->
           <<"INNER", "JOIN", s.join[k].table, "ON", name(s.join[k].on_left), "=", name(s.join[k].on_right)>>])
    \o WhereText(s.where, name)
    \o FlattenSeq([k \in DOMAIN s.order |->
           <<"ORDER", "BY", name(s.order[k].column)>> \o IF s.order[k].ascending THEN direction ELSE <<"DESC">>])

Spellings(s) ==
    CASE s.type = "CREATE" ->
            {<<"CREATE", "TABLE">> \o guard \o <<s.table, "(">>
               \o Commas([k \in DOMAIN s.columns |-> <<s.columns[k].name, s.columns[k].type>> \o suffix]) \o <<")">> :
             guard \in {<<>>, <<"IF", "NOT", "EXISTS">>}, suffix \in {<<>>, <<"PRIMARY", "KEY">>, Tuple(<<"64">>)}}
      [] s.type = "INSERT" ->
            {<<"INSERT", "INTO", s.table, "VALUES">> \o Commas([k \in DOMAIN s.tuples |-> Tuple(s.tuples[k])])}
      [] s.type = "DELETE" -> {<<"DELETE", "FROM", s.table>>}
      [] s.type = "SELECT" ->
            {SelectText(s, LAMBDA c : IF full /\ c \in DOMAIN Qualified THEN Qualified[c] ELSE c, direction) :
             full \in BOOLEAN, direction \in {<<>>, <<"ASC">>}}
=============================================================================

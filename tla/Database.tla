------------------------------ MODULE Database ------------------------------
(***************************************************************************)
(* The executor on top of the tables: a statement is parsed from a text,   *)
(* and CREATE, INSERT, DELETE or SELECT runs to its end before the next;   *)
(* Lookup and TableThreads have the interleavings.  A column is the        *)
(* sequence ColumnLog promises; the index is the set of pairs given to     *)
(* BPTree::insert, of which search returns one with the key it is asked    *)
(* for, or none (Lookup, SearchSound).                                     *)
(*                                                                         *)
(* A column is DECIMAL or VARCHAR; a FLOAT is stored in four bytes and     *)
(* read as eight, and is left out.  std::stoll throws on a token that is   *)
(* no number, and nothing catches it, so the process ends.  A server       *)
(* started again knows no tables, and the columns that a CREATE opens are  *)
(* empty (ColumnStore, Reopen).                                            *)
(***************************************************************************)
EXTENDS Parser, TLC

CONSTANTS Creates, Inserts, Deletes, Selects,   \* the statements of clients
          Numbers,      \* the tokens that stoll takes, with their values
          Texts,        \* the tokens in quotes, with the text between these
          Alphabet,     \* the texts in the order of std::string
          Garbage,      \* what an i64 that nobody has written shows
          MaxRows       \* bound: rows of one table

ASSUME DatabaseAssumption ==
    /\ \A s, r \in Creates : s.table = r.table => s = r
    /\ \A s \in Creates : s.columns # <<>> /\ \A i \in DOMAIN s.columns : s.columns[i].type # "FLOAT"
    /\ MaxRows \in Nat

VARIABLE tables         \* Executor::tables_

\* The statements that change tables, each with what the parser makes of the
\* texts in which a client may write it.
Updates == Creates \cup Inserts \cup Deletes
Requests == [s \in Updates |-> {parse(text) : text \in Spellings(s)}]

-----------------------------------------------------------------------------
(* Table *)

\* The index exists if the first column is called ID.
HasIndex(table) == table.schema[1].name = "ID"

NewTable(schema) == [schema |-> schema, cols |-> [c \in DOMAIN schema |-> <<>>], index |-> {}]

\* Mutant: the row id is taken after the first column has been written.
insert_row_LateRid(table, row) ==
    [table EXCEPT
        !.cols = [c \in DOMAIN @ |-> IF c <= Len(row) THEN Append(@[c], row[c]) ELSE @[c]],
        !.index = IF HasIndex(table) THEN @ \cup {<<row[1], Len(table.cols[1]) + 1>>} ELSE @]

\* The columns beyond the end of the row get nothing.
insert_row(table, row) ==
    [table EXCEPT
        !.cols = [c \in DOMAIN @ |-> IF c <= Len(row) THEN Append(@[c], row[c]) ELSE @[c]],
        !.index = IF HasIndex(table) THEN @ \cup {<<row[1], Len(table.cols[1])>>} ELSE @]

\* The index keeps its entries.
clear(table) == [table EXCEPT !.cols = [c \in DOMAIN @ |-> <<>>]]

-----------------------------------------------------------------------------
(* CREATE, INSERT, DELETE *)

Init == tables = <<>>

ColumnType(type_str) == IF type_str \in {"DECIMAL", "INT"} THEN "DECIMAL" ELSE "VARCHAR"

\* CREATE of a table that exists changes nothing.
exec_create(s) ==
    /\ s.table \notin DOMAIN tables
    /\ tables' = tables @@ s.table :> NewTable([c \in DOMAIN s.columns |->
                     [name |-> s.columns[c].name, type |-> ColumnType(s.columns[c].type)]])

Total(table) == Len(table.cols[1])

Unquoted(token) == IF token \in DOMAIN Texts THEN Texts[token] ELSE token

\* The tokens of a tuple beyond the columns of the table are read with a type
\* from behind the schema's vector; the row ignores them, if the process
\* survives the read.
RowOf(table, tuple) ==
    [c \in 1 .. Min({Len(tuple), Len(table.schema)}) |->
        IF table.schema[c].type = "VARCHAR" THEN Unquoted(tuple[c]) ELSE Numbers[tuple[c]]]

\* stoll throws, or an empty row has no key for the index.
Fatal(table, tuple) ==
    \/ \E c \in DOMAIN tuple \cap DOMAIN table.schema :
          table.schema[c].type = "DECIMAL" /\ tuple[c] \notin DOMAIN Numbers
    \/ tuple = <<>> /\ HasIndex(table)

\* Mutant: the loop over the tuples ends one early.
exec_insert_DropsLast(s) ==
    /\ s.table \in DOMAIN tables
    /\ Total(tables[s.table]) + Len(s.tuples) <= MaxRows
    /\ \A tuple \in Range(s.tuples) : ~Fatal(tables[s.table], tuple)
    /\ tables' = [tables EXCEPT
          ![s.table] = FoldLeft(LAMBDA table, tuple : insert_row(table, RowOf(table, tuple)), @, Front(s.tuples))]

exec_insert(s) ==
    /\ s.table \in DOMAIN tables
    /\ Total(tables[s.table]) + Len(s.tuples) <= MaxRows
    /\ \A tuple \in Range(s.tuples) : ~Fatal(tables[s.table], tuple)
    /\ tables' = [tables EXCEPT
          ![s.table] = FoldLeft(LAMBDA table, tuple : insert_row(table, RowOf(table, tuple)), @, s.tuples)]

\* The process ends in an INSERT and is started again.
InsertDies(s) ==
    /\ s.table \in DOMAIN tables
    /\ \E tuple \in Range(s.tuples) :
          Fatal(tables[s.table], tuple) \/ Len(tuple) > Len(tables[s.table].schema)
    /\ tables' = <<>>

exec_delete(s) ==
    /\ s.table \in DOMAIN tables
    /\ tables' = [tables EXCEPT ![s.table] = clear(@)]

-----------------------------------------------------------------------------
(* SELECT: the rows *)

\* The first column of that name, 0 for none.
ColumnIn(schema, name) == SelectInSeq(schema, LAMBDA column : column.name = name)

\* Row ids count from 0.  A column too short for rid leaves its value as it is.
materialize_row(table, rid) ==
    [c \in DOMAIN table.cols |->
        CASE rid < Len(table.cols[c]) -> table.cols[c][rid + 1]
          [] rid >= Len(table.cols[c]) -> IF table.schema[c].type = "VARCHAR" THEN "" ELSE Garbage]

FullScan(table) == [i \in 1 .. Total(table) |-> materialize_row(table, i - 1)]

search(table, id) == {e[2] : e \in {x \in table.index : x[1] = id}}

\* HashJoin::join on DECIMAL columns: a hash table from values to row ids of t2
\* in order, probed by the rows of t1 in order.
HashTable(t2, c2) ==
    [v \in Range(t2.cols[c2]) |->
        SelectSeq([i \in 1 .. Len(t2.cols[c2]) |-> i - 1], LAMBDA rid : t2.cols[c2][rid + 1] = v)]

\* No rows if a column is unknown.
join(t1, t2, col1, col2) ==
    LET c1 == ColumnIn(t1.schema, col1)
        c2 == ColumnIn(t2.schema, col2)
        hash_table == HashTable(t2, c2)
        Probe(rid) ==
            LET val == t1.cols[c1][rid + 1]
            IN  IF val \notin DOMAIN hash_table THEN <<>>
                ELSE [i \in DOMAIN hash_table[val] |->
                         materialize_row(t1, rid) \o materialize_row(t2, hash_table[val][i])]
    IN  IF c1 = 0 \/ c2 = 0 THEN <<>> ELSE FlattenSeq([i \in 1 .. Len(t1.cols[c1]) |-> Probe(i - 1)])

-----------------------------------------------------------------------------
(* SELECT: filter, order and projection *)

Ok(rows) == [status |-> "ok", rows |-> rows]
Error == [status |-> "error", rows |-> <<>>]
Dead == [status |-> "dead", rows |-> <<>>]

\* What the filter may find for one condition of one row.  An unknown column
\* and an operator that the code does not know are no filter; a text is
\* compared with the token as it stands in the statement; > and >= look at an
\* i64 that a VARCHAR has not set.
Verdicts(schema, row, w) ==
    LET c == ColumnIn(schema, w.column)
        is(match) == {IF match THEN "match" ELSE "no"}
    IN  CASE c = 0 \/ w.op \notin {"=", ">", ">="} -> {"match"}
          [] c # 0 /\ w.op = "=" /\ schema[c].type = "VARCHAR" -> is(row[c] = w.value)
          [] OTHER ->
                IF w.value \notin DOMAIN Numbers THEN {"throws"}
                ELSE IF schema[c].type = "VARCHAR" THEN {"match", "no"}
                ELSE is(CASE w.op = "=" -> row[c] = Numbers[w.value]
                          [] w.op = ">" -> row[c] > Numbers[w.value]
                          [] w.op = ">=" -> row[c] >= Numbers[w.value])

\* Mutant: only the last condition counts.
RowVerdicts_Last(schema, row, where) ==
    FoldLeft(LAMBDA vs, w : Verdicts(schema, row, w), {"match"}, where)

\* The conditions are tried in order until one does not match.
RowVerdicts(schema, row, where) ==
    FoldLeft(LAMBDA vs, w : IF "match" \in vs THEN (vs \ {"match"}) \cup Verdicts(schema, row, w) ELSE vs,
             {"match"}, where)

Filter(schema, rows, where) ==
    FoldLeft(LAMBDA outcomes, row :
                 {CASE o = Dead \/ v = "throws" -> Dead
                    [] o # Dead /\ v = "match" -> Ok(Append(o.rows, row))
                    [] o # Dead /\ v = "no" -> o : o \in outcomes, v \in RowVerdicts(schema, row, where)},
             {Ok(<<>>)}, rows)

ValueLess(type, a, b) ==
    IF type = "VARCHAR" THEN SelectInSeq(Alphabet, LAMBDA x : x = a) < SelectInSeq(Alphabet, LAMBDA x : x = b)
    ELSE a < b

\* std::sort with the code's comparator, which for DESC holds between equal
\* values in both directions: sort may then leave any order, or read outside
\* the vector.
Sort(schema, rows, order) ==
    LET c == ColumnIn(schema, order.column)
        lt(i, j) == ValueLess(schema[c].type, rows[i][c], rows[j][c])
        comp(i, j) == IF order.ascending THEN lt(i, j) ELSE ~lt(i, j)
        broken == \E i, j \in DOMAIN rows : i # j /\ comp(i, j) /\ comp(j, i)
        orders == {p \in Permutations(DOMAIN rows) :
                      broken \/ \A i, j \in DOMAIN rows : i < j => ~comp(p[j], p[i])}
    IN  IF c = 0 THEN {Ok(rows)}
        ELSE {Ok([i \in DOMAIN rows |-> rows[p[i]]]) : p \in orders} \cup (IF broken THEN {Dead} ELSE {})

Project(schema, row, columns) ==
    [k \in DOMAIN columns |->
        LET c == ColumnIn(schema, columns[k])
        IN  CASE c = 0 -> "NULL"
              [] c # 0 -> IF schema[c].type = "VARCHAR" THEN row[c] ELSE ToString(row[c])]

\* The lookup through the index: only if stoll takes the value.
ById(s) ==
    /\ s.join = <<>> /\ Len(s.where) = 1
    /\ s.where[1].column = "ID" /\ s.where[1].op = "=" /\ s.where[1].value \in DOMAIN Numbers

JoinedSchema(s) ==
    IF s.join = <<>> THEN tables[s.table].schema ELSE tables[s.table].schema \o tables[s.join[1].table].schema

Rejected(s) ==
    \/ s.table \notin DOMAIN tables
    \/ s.join = <<>> /\ \E name \in Range(s.columns) \ {"*"} : ColumnIn(tables[s.table].schema, name) = 0
    \/ s.join # <<>> /\ s.join[1].table \notin DOMAIN tables

\* The row of a hit, unfiltered; else all rows, or those of the join, filtered.
Answers(s) ==
    LET t == tables[s.table]
        rows == IF s.join = <<>> THEN FullScan(t)
                ELSE join(t, tables[s.join[1].table], s.join[1].on_left, s.join[1].on_right)
        hits == IF ById(s) THEN search(t, Numbers[s.where[1].value]) ELSE {}
    IN  {Ok(<<materialize_row(t, rid)>>) : rid \in hits} \cup Filter(JoinedSchema(s), rows, s.where)

\* The possible outcomes of a SELECT.  Without an index, WHERE ID = n calls
\* search on a null pointer.
exec_select(s) ==
    CASE Rejected(s) -> {Error}
      [] ~Rejected(s) /\ ById(s) /\ ~HasIndex(tables[s.table]) -> {Dead}
      [] OTHER ->
            LET schema == JoinedSchema(s)
                sorted(o) == IF s.order = <<>> \/ o = Dead THEN {o} ELSE Sort(schema, o.rows, s.order[1])
                shown(o) == [o EXCEPT !.rows = [i \in DOMAIN @ |-> Project(schema, @[i], s.columns)]]
            IN  {shown(o) : o \in UNION {sorted(a) : a \in Answers(s)}}

Parsed == [s \in Selects |-> {parse(text) : text \in Spellings(s)}]

\* The process ends in a SELECT and is started again.
SelectDies(s) ==
    /\ Dead \in exec_select(s)
    /\ tables' = <<>>

exec(s) ==
    \/ s.type = "CREATE" /\ exec_create(s)
    \/ s.type = "INSERT" /\ exec_insert(s)
    \/ s.type = "DELETE" /\ exec_delete(s)

Next ==
    \/ \E s \in Updates : \E stmt \in Requests[s] :
          exec(stmt) \/ (stmt.type = "INSERT" /\ InsertDies(stmt))
    \/ \E s \in Selects : \E stmt \in Parsed[s] : SelectDies(stmt)

Spec == Init /\ [][Next]_tables

-----------------------------------------------------------------------------
(* Properties *)

Existing == {tables[t] : t \in DOMAIN tables}

ValuesOf(type) == IF type = "VARCHAR" THEN Range(Alphabet) ELSE Range(Numbers)

\* Every table has a sequence of values for each column of its schema, and an
\* index of pairs of a number and a row id.
TypeOK ==
    /\ DOMAIN tables \subseteq {s.table : s \in Creates}
    /\ \A table \in Existing :
          /\ \A c \in DOMAIN table.schema : table.cols[c] \in Seq(ValuesOf(table.schema[c].type))
          /\ table.index \subseteq Range(Numbers) \X (0 .. MaxRows - 1)

TypesOf(t) == LET s == CHOOSE x \in Creates : x.table = t
              IN  [c \in DOMAIN s.columns |-> s.columns[c].type]

ValueOf(type, token) == IF type = "VARCHAR" THEN Unquoted(token) ELSE Numbers[token]

Promise == INSTANCE Tables WITH
    Types <- [t \in {s.table : s \in Creates} |-> TypesOf(t)],
    Value <- ValueOf,
    rel <- [t \in DOMAIN tables |-> FullScan(tables[t])]

\* A statement that exec completes changes what full scans return as the
\* statement means, however the client has written it: an INSERT adds exactly
\* the rows of its tuples to its table, in their order, a DELETE empties its
\* table, and no other table changes (executor.cpp:45-78, table.cpp:18-42).
ImplementsTables ==
    /\ Promise!Init
    /\ [][\A s \in Updates : \A stmt \in Requests[s] : exec(stmt) => Promise!Exec(s)]_tables

\* The parser reads a statement back from each way to write it: qualified
\* names, PRIMARY KEY, IF NOT EXISTS and ASC do not change what it means
\* (parser.cpp:22-160).  It is looked at in the initial state only, as no table
\* matters to it.
ParserReadsBack ==
    Init => \A s \in Creates \cup Inserts \cup Deletes \cup Selects : \A text \in Spellings(s) : parse(text) = s

Fresh(table) ==
    /\ HasIndex(table) /\ IsInjective(table.cols[1])
    /\ table.index = {<<table.cols[1][i], i - 1>> : i \in 1 .. Total(table)}

\* The names in s are columns, each of one table only; the conditions suit the
\* types; the index is up to date, and no two rows have the same ID.
Regular(s) ==
    LET schema == JoinedSchema(s)
        known(name) == Cardinality({c \in DOMAIN schema : schema[c].name = name}) = 1
        type(name) == schema[ColumnIn(schema, name)].type
    IN  /\ \A name \in Range(s.columns) : known(name)
        /\ \A w \in Range(s.where) :
              /\ known(w.column)
              /\ \/ type(w.column) = "VARCHAR" /\ w.op = "=" /\ w.value \notin DOMAIN Texts
                 \/ type(w.column) = "DECIMAL" /\ w.op \in {"=", ">", ">="} /\ w.value \in DOMAIN Numbers
        /\ \A o \in Range(s.order) : known(o.column)
        /\ \A j \in Range(s.join) :
              /\ ColumnIn(tables[s.table].schema, j.on_left) # 0
              /\ ColumnIn(tables[j.table].schema, j.on_right) # 0
        /\ ById(s) => Fresh(tables[s.table])

\* The rows of the table, or of the cross product of two, by row number.
Product(s) ==
    LET rows == FullScan(tables[s.table])
        more == FullScan(tables[s.join[1].table])
    IN  IF s.join = <<>> THEN [p \in {<<i>> : i \in DOMAIN rows} |-> rows[p[1]]]
        ELSE [p \in (DOMAIN rows) \X (DOMAIN more) |-> rows[p[1]] \o more[p[2]]]

\* Those that satisfy the ON and WHERE clauses.
Chosen(s) ==
    LET schema == JoinedSchema(s)
        product == Product(s)
        value(p, name) == product[p][ColumnIn(schema, name)]
        holds(p, w) ==
            IF schema[ColumnIn(schema, w.column)].type = "VARCHAR" THEN value(p, w.column) = w.value
            ELSE LET d == value(p, w.column) - Numbers[w.value]
                 IN  (w.op = "=" /\ d = 0) \/ (w.op = ">" /\ d > 0) \/ (w.op = ">=" /\ d >= 0)
    IN  {p \in DOMAIN product :
            /\ \A j \in Range(s.join) : value(p, j.on_left) = value(p, j.on_right)
            /\ \A w \in Range(s.where) : holds(p, w)}

\* p comes before q in the answer: as the rows were inserted, or as ORDER BY
\* says.
Precedes(s, p, q) ==
    LET c == ColumnIn(JoinedSchema(s), s.order[1].column)
        product == Product(s)
        lt(u, v) == ValueLess(JoinedSchema(s)[c].type, product[u][c], product[v][c])
    IN  CASE s.order = <<>> -> p[1] < q[1] \/ (p[1] = q[1] /\ Last(p) < Last(q))
          [] s.order # <<>> -> IF s.order[1].ascending THEN ~lt(q, p) ELSE lt(q, p)

\* A SELECT answers with the rows that satisfy its ON and WHERE clauses, each
\* once, in the order they were inserted or that ORDER BY asks for, whatever
\* way the executor takes to them and however the statement is written.  The
\* names must be known and unambiguous, the conditions must suit the types,
\* and ORDER BY DESC must not meet equal values (executor.cpp:99-228).
SelectIsRelational ==
    \A s \in Selects :
        LET chosen == Chosen(s)
            orders == {o \in SetToSeqs(chosen) :
                          \A i, j \in DOMAIN o : i < j => Precedes(s, o[i], o[j])}
        IN  ~Rejected(s) /\ Regular(s) /\ orders # {} =>
               \A stmt \in Parsed[s] :
                  exec_select(stmt) = {Ok([i \in DOMAIN o |-> Project(JoinedSchema(s), Product(s)[o[i]], s.columns)]) :
                                       o \in orders}

\* The answer to SELECT ... WHERE ID = n, found through the index or not, shows
\* rows of the table that have this ID (executor.cpp:121, which does not filter
\* what the index finds).
LookupsAreRows ==
    \A s \in Selects : ~Rejected(s) /\ ById(s) /\ HasIndex(tables[s.table]) =>
        \A o \in Answers(s) : \A row \in Range(o.rows) :
            row[1] = Numbers[s.where[1].value] /\ row \in Range(FullScan(tables[s.table]))
=============================================================================

----------------------------- MODULE MCDatabase -----------------------------
(* Statements about two tables, A with an index on ID and B without.       *)
EXTENDS Database

Names == [ID |-> "A.ID", V |-> "A.V", K |-> "B.K", W |-> "B.W"]
Tokens == ("1" :> 1) @@ ("02" :> 2)
Quotes == "'A'" :> "A"
Order == <<"02", "1", "A">>

Column(name, type) == [name |-> name, type |-> type]
CreateA == [type |-> "CREATE", table |-> "A", columns |-> <<Column("ID", "DECIMAL"), Column("V", "INT")>>]
CreateB == [type |-> "CREATE", table |-> "B", columns |-> <<Column("K", "DECIMAL"), Column("W", "VARCHAR")>>]
BothTables == {CreateA, CreateB}
TableA == {CreateA}

Insert(t, tuples) == [type |-> "INSERT", table |-> t, tuples |-> tuples]
Pairs == (DOMAIN Tokens \cup DOMAIN Quotes) \X (DOMAIN Tokens \cup DOMAIN Quotes)
Batches == {<<p>> : p \in Pairs} \cup {<<<<"1", "02">>, p>> : p \in Pairs} \cup {<<<<"1", "1", "1">>>>}
AllInserts == {Insert(t, batch) : t \in {"A", "B"}, batch \in Batches}
InsertsA == {Insert("A", <<p>>) : p \in (DOMAIN Tokens) \X (DOMAIN Tokens)}

Delete(t) == [type |-> "DELETE", table |-> t]
BothDeletes == {Delete("A"), Delete("B")}
DeleteA == {Delete("A")}

Select(columns, t, on, where, order) ==
    [type |-> "SELECT", columns |-> columns, table |-> t, join |-> on, where |-> where, order |-> order]
Cond(column, op, value) == [column |-> column, op |-> op, value |-> value]
By(columns) == {<<>>} \cup {<<[column |-> c, ascending |-> a]>> : c \in columns, a \in BOOLEAN}
On(t, left, right) == <<[table |-> t, on_left |-> left, on_right |-> right]>>

SelectsA == {Select(<<"V", "ID">>, "A", <<>>, where, order) :
    where \in {<<>>, <<Cond("ID", "=", "02")>>, <<Cond("V", ">", "1")>>, <<Cond("V", "<", "1")>>,
               <<Cond("V", ">=", "02"), Cond("ID", "=", "1")>>, <<Cond("ID", "=", "'A'")>>},
    order \in By({"V"})}
SelectsB == {Select(<<"W">>, "B", <<>>, where, order) :
    where \in {<<>>, <<Cond("ID", "=", "1")>>, <<Cond("K", "=", "1")>>, <<Cond("W", "=", "A")>>,
               <<Cond("W", "=", "'A'")>>, <<Cond("W", ">", "1")>>},
    order \in By({"W"})}
SelectsAB == {Select(<<"W", "V">>, "A", on, where, order) :
    on \in {On("B", "ID", "K"), On("B", "V", "K"), On("B", "K", "V")},
    where \in {<<>>, <<Cond("W", "=", "1")>>, <<Cond("K", ">=", "02"), Cond("V", "=", "1")>>},
    order \in By({"K"})}
Odd == {Select(<<"*">>, "A", <<>>, <<>>, <<>>), Select(<<"W">>, "A", <<>>, <<>>, <<>>),
        Select(<<"V">>, "C", <<>>, <<>>, <<>>), Select(<<"V">>, "A", On("C", "ID", "K"), <<>>, <<>>)}
AllSelects == SelectsA \cup SelectsB \cup SelectsAB \cup Odd
LookupsA == {Select(<<"V">>, "A", <<>>, <<Cond("ID", "=", n)>>, <<>>) : n \in DOMAIN Tokens}
=============================================================================

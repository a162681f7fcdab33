------------------------------- MODULE Tables -------------------------------
(***************************************************************************)
(* What a statement means to the client that sends it.  There are named    *)
(* tables, each a sequence of rows.  CREATE makes an empty one, INSERT     *)
(* adds one row for each of its tuples, in their order and behind what is  *)
(* there, DELETE leaves none; the other tables stay as they are.  Nothing  *)
(* is said here about a statement in which the process ends.               *)
(***************************************************************************)
EXTENDS Naturals, Sequences

CONSTANTS Types,        \* the column types of each table, as CREATE lists them
          Value(_, _)   \* the value of a token in a column of a type

VARIABLE rel            \* the rows of each table that exists

Init == rel = <<>>

\* A value for each column; what a tuple has beyond them is ignored.
Row(t, tuple) == [c \in DOMAIN Types[t] |-> Value(Types[t][c], tuple[c])]

Create(t) ==
    /\ t \notin DOMAIN rel
    /\ rel' = [u \in DOMAIN rel \cup {t} |-> IF u = t THEN <<>> ELSE rel[u]]

Insert(t, tuples) ==
    /\ t \in DOMAIN rel
    /\ rel' = [rel EXCEPT ![t] = @ \o [i \in DOMAIN tuples |-> Row(t, tuples[i])]]

Delete(t) ==
    /\ t \in DOMAIN rel
    /\ rel' = [rel EXCEPT ![t] = <<>>]

Exec(s) ==
    \/ s.type = "CREATE" /\ Create(s.table)
    \/ s.type = "INSERT" /\ Insert(s.table, s.tuples)
    \/ s.type = "DELETE" /\ Delete(s.table)
=============================================================================

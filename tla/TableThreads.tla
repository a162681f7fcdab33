---------------------------- MODULE TableThreads ----------------------------
(***************************************************************************)
(* Table::insert_row run by several server threads on one table, the load  *)
(* of README.md:44: Executor::get_table releases tables_mu_ before the     *)
(* table is used, and Table has no lock.  A row is written column by       *)
(* column and then entered in the index under the row id read at the       *)
(* start.                                                                  *)
(*                                                                         *)
(* One step writes one column; that is coarser than the code, whose        *)
(* insert_fixed is not atomic either (see PageCache), so what goes wrong   *)
(* here goes wrong in the program.  The value of row r in a column is r.   *)
(***************************************************************************)
EXTENDS Integers, Sequences

CONSTANTS Threads,
          Rows,         \* rows to insert, each at most once
          Columns       \* number of columns

VARIABLES cols,         \* the columns, sequences of rows
          index,        \* pairs <<row, row id>> in the primary-key index
          at,           \* per thread: 0, the column it writes next, or the index
          row,          \* the row it inserts
          rid,          \* the row id it has read
          left          \* rows that no client has sent yet

vars == <<cols, index, at, row, rid, left>>

Init ==
    /\ cols = [c \in 1 .. Columns |-> <<>>]
    /\ index = {}
    /\ at = [t \in Threads |-> 0]
    /\ row \in [Threads -> Rows]
    /\ rid = [t \in Threads |-> 0]
    /\ left = Rows

Begin(t, r) ==
    /\ at[t] = 0 /\ at' = [at EXCEPT ![t] = 1]
    /\ r \in left /\ left' = left \ {r}
    /\ row' = [row EXCEPT ![t] = r]
    /\ rid' = [rid EXCEPT ![t] = Len(cols[1])]
    /\ UNCHANGED <<cols, index>>

PutColumn(t) ==
    /\ at[t] \in 1 .. Columns
    /\ cols' = [cols EXCEPT ![at[t]] = Append(@, row[t])]
    /\ at' = [at EXCEPT ![t] = @ + 1]
    /\ UNCHANGED <<index, row, rid, left>>

PutIndex(t) ==
    /\ at[t] > Columns
    /\ index' = index \cup {<<row[t], rid[t]>>}
    /\ at' = [at EXCEPT ![t] = 0]
    /\ UNCHANGED <<cols, row, rid, left>>

Next == \E t \in Threads :
    \/ \E r \in Rows : Begin(t, r)
    \/ PutColumn(t) \/ PutIndex(t)

Spec == Init /\ [][Next]_vars

-----------------------------------------------------------------------------
(* Properties *)

\* Whenever no insert_row is being executed, a row id names the same row in
\* every column, so that materialize_row reassembles the rows that were
\* inserted, also after 8 threads have inserted into one table (README.md:44).
RowsAligned ==
    (\A t \in Threads : at[t] = 0) => \A c, d \in 1 .. Columns : cols[c] = cols[d]
=============================================================================

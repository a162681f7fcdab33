----------------------------- MODULE ColumnLog -----------------------------
(***************************************************************************)
(* What a column of a FlexQL table promises to the code above it: it is an *)
(* append-only sequence of items, addressed by row id (RID), that can be   *)
(* emptied.  A row id is the position of the row, counted from zero.       *)
(*                                                                         *)
(* There is one emptying step for two events of the code: DELETE FROM      *)
(* clears a column, and opening a column file that already exists starts   *)
(* from an empty column as well (see ColumnStore!Reopen).                  *)
(***************************************************************************)
EXTENDS Naturals, Sequences

CONSTANT Items              \* what can be stored in one row of the column

VARIABLE rows               \* the column, rows[rid + 1] is the row with id rid

Init == rows = <<>>

Append1(item) == rows' = Append(rows, item)

Empty == rows' = <<>>

Next == (\E item \in Items : Append1(item)) \/ Empty

Spec == Init /\ [][Next]_rows
=============================================================================

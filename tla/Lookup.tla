------------------------------- MODULE Lookup -------------------------------
(***************************************************************************)
(* SELECT ... WHERE ID = key while one other connection inserts rows.      *)
(* Neither Table nor BPTree has a lock.  Several connections that insert,  *)
(* as in the benchmark of README.md:45, race already for the slots of a    *)
(* column, which is in TableThreads.                                       *)
(* The pages of the index are memory that both threads map; here they are  *)
(* arrays that the writer changes one store at a time and the reader reads *)
(* one load at a time.                                                     *)
(*                                                                         *)
(* One thread inserts, so what it loads is what it has stored, and the     *)
(* stores of an insert follow from the pages at its start: InsertStores is *)
(* their list.  nodes, root and inserted of BPTree are the tree as it will *)
(* be once the pending stores are done.  A column is written in one step,  *)
(* and the row with ID k has k in every column.                            *)
(*                                                                         *)
(* Stores and loads take effect in program order, as on an x86 processor.  *)
(* This is an assumption: the code has neither atomics nor fences to make  *)
(* a compiler keep the order, or a weaker processor such as the Apple      *)
(* Silicon of README.md:4.                                                 *)
(***************************************************************************)
EXTENDS BPTree

CONSTANTS Columns,       \* number of columns, the first of which is ID
          MaxMixed,      \* bound: rows with IDs out of order that a SELECT meets
          Garbage        \* what a Value nobody has written shows

ASSUME LookupAssumption == Columns \in Nat \ {0} /\ MaxMixed \in Nat /\ Garbage \notin Keys

VARIABLES pages,         \* the mapped pages of the index
          root_pid_,
          stores,        \* stores of the insert that are still to be done
          cols,          \* the columns
          at,            \* the writer: 0, the column it writes next, or the index
          row,           \* the row it inserts
          rd             \* the reader

lookupVars == <<treeVars, pages, root_pid_, stores, cols, at, row, rd>>

-----------------------------------------------------------------------------
(* Pages and stores *)

\* create_node: a page that no other page refers to yet.
NewPage(leaf) ==
    [leaf |-> leaf, num_keys |-> 0, keys |-> [i \in 1 .. Order |-> 0],
     vals |-> [i \in 1 .. Order + 1 |-> 0], next |-> None]

\* A store into page p: field f, or element i of array f; or a page appended;
\* or root_pid_.
Create(leaf) == [p |-> 0, f |-> "page", i |-> 0, v |-> leaf]
SetRoot(p) == [p |-> 0, f |-> "root", i |-> 0, v |-> p]
Set(p, f, v) == [p |-> p, f |-> f, i |-> 0, v |-> v]
SetAt(p, f, i, v) == [p |-> p, f |-> f, i |-> i, v |-> v]

Apply(mem, s) ==
    CASE s.f = "page" -> [mem EXCEPT !.pages = Append(@, NewPage(s.v))]
      [] s.f = "root" -> [mem EXCEPT !.root = s.v]
      [] s.f \in {"num_keys", "next"} -> [mem EXCEPT !.pages[s.p][s.f] = s.v]
      [] s.f \in {"keys", "vals"} -> [mem EXCEPT !.pages[s.p][s.f][s.i] = s.v]

Memory == [pages |-> pages, root |-> root_pid_]

\* The node that a page shows to a call that finds no store pending.
NodeOf(page) ==
    [leaf |-> page.leaf, keys |-> SubSeq(page.keys, 1, page.num_keys),
     vals |-> SubSeq(page.vals, 1, page.num_keys + (IF page.leaf THEN 0 ELSE 1)), next |-> page.next]

-----------------------------------------------------------------------------
(* The stores of BPTree::insert *)

\* Key j of page p moves up by one, and so does the value that goes with it,
\* which is d places further on in vals.
Move(p, j, d) ==
    <<SetAt(p, "keys", j + 1, pages[p].keys[j]), SetAt(p, "vals", j + d + 1, pages[p].vals[j + d])>>

\* Mutant: the shifting loop ends one key early.
Shift_Short(p, i, d) ==
    LET n == pages[p].num_keys IN FlattenSeq([k \in 1 .. n - i |-> Move(p, n + 1 - k, d)])

\* The shifting loop, from the last key down to key i.
Shift(p, i, d) ==
    LET n == pages[p].num_keys IN FlattenSeq([k \in 1 .. n - i + 1 |-> Move(p, n + 1 - k, d)])

\* Mutant: num_keys is raised before the value is written.
Publish_Early(p, i, d, key, val, n) ==
    <<SetAt(p, "keys", i, key), Set(p, "num_keys", n), SetAt(p, "vals", i + d, val)>>

\* A key, its value, and num_keys.
Publish(p, i, d, key, val, n) ==
    <<SetAt(p, "keys", i, key), SetAt(p, "vals", i + d, val), Set(p, "num_keys", n)>>

\* Into a node with room: d is 0 in a leaf, 1 for the child right of the key.
PutStores(p, d, key, val) ==
    LET i == Place(nodes[p].keys, key)
    IN  Shift(p, i, d) \o Publish(p, i, d, key, val, pages[p].num_keys + 1)

FillStores(p, temp) ==
    <<Set(p, "num_keys", 0)>> \o
    FlattenSeq([j \in DOMAIN temp |-> Publish(p, j, 0, temp[j][1], temp[j][2], j)])

RootStores(left, key, right, new) ==
    <<Create(FALSE), SetAt(new, "keys", 1, key), SetAt(new, "vals", 1, left),
      SetAt(new, "vals", 2, right), Set(new, "num_keys", 1), SetRoot(new)>>

ParentStores(left, key, right) ==
    LET parent == Parent(left, key)
    IN  IF left = root THEN RootStores(left, key, right, right + 1)
        ELSE IF parent # None /\ HasRoom(nodes[parent]) THEN PutStores(parent, 1, key, right)
        ELSE <<>>

SplitStores(p, temp) ==
    LET new == Len(pages) + 1
    IN  <<Create(TRUE)>> \o FillStores(p, LowerHalf(temp)) \o FillStores(new, UpperHalf(temp))
        \o <<Set(new, "next", pages[p].next), Set(p, "next", new)>>
        \o ParentStores(p, UpperHalf(temp)[1][1], new)

InsertStores(key, rid) ==
    LET p == find_leaf(key)
    IN  IF HasRoom(nodes[p]) THEN PutStores(p, 0, key, rid)
        ELSE SplitStores(p, Overflowing(nodes[p], key, rid))

-----------------------------------------------------------------------------
(* The writer: Table::insert_row *)

Idle == [pc |-> "idle", key |-> 0, known |-> FALSE, page |-> 0, i |-> 0,
         hit |-> FALSE, rid |-> 0, end |-> 0, buf |-> <<>>, out |-> <<>>]

LookupInit ==
    /\ Init
    /\ pages = <<NewPage(TRUE)>> /\ root_pid_ = 1 /\ stores = <<>>
    /\ cols = [c \in 1 .. Columns |-> <<>>]
    /\ at = 0 /\ row = 0
    /\ rd = Idle

indexVars == <<treeVars, pages, root_pid_>>

Ascending(ids) == \A i, j \in DOMAIN ids : i < j => ids[i] < ids[j]

\* Bound: no SELECT runs on a larger table that has its IDs out of order.
Readable(ids) == Ascending(ids) \/ Len(ids) <= MaxMixed

BeginInsert(key) ==
    /\ at = 0 /\ at' = 1
    /\ Len(cols[1]) < MaxEntries
    /\ rd.pc = "idle" \/ Readable(Append(cols[1], key))
    /\ row' = key
    /\ UNCHANGED <<indexVars, stores, cols, rd>>

PutColumn ==
    /\ at \in 1 .. Columns /\ at' = at + 1
    /\ cols' = [cols EXCEPT ![at] = Append(@, row)]
    /\ UNCHANGED <<indexVars, stores, row, rd>>

\* The index comes last.
BeginIndex ==
    /\ at > Columns /\ stores = <<>>
    /\ insert(row, Len(cols[1]) - 1)
    /\ stores' = InsertStores(row, Len(cols[1]) - 1)
    /\ UNCHANGED <<pages, root_pid_, cols, at, row, rd>>

StoreNext ==
    LET mem == Apply(Memory, Head(stores))
    IN  /\ stores # <<>>
        /\ pages' = mem.pages /\ root_pid_' = mem.root
        /\ stores' = Tail(stores)
        /\ at' = IF Len(stores) = 1 THEN 0 ELSE at
        /\ UNCHANGED <<treeVars, cols, row, rd>>

-----------------------------------------------------------------------------
(* The reader: Executor::exec_select with WHERE ID = key *)

writerVars == <<indexVars, stores, cols, at, row>>

Reader(from, to) == rd.pc = from /\ rd' = to /\ UNCHANGED writerVars

\* The keys of the rows whose INSERT has returned: those in every column, but for
\* the one that is being indexed.
Returned ==
    LET complete == Len(cols[Columns])
    IN  Range(SubSeq(cols[1], 1, IF at > Columns THEN complete - 1 ELSE complete))

Select(key) ==
    /\ Readable(IF at = 1 THEN Append(cols[1], row) ELSE cols[1])
    /\ Reader("idle", [rd EXCEPT !.pc = "root", !.key = key, !.known = key \in Returned])

LoadRoot == Reader("root", [rd EXCEPT !.pc = "test", !.page = root_pid_, !.i = 1])

\* Mutant: a key that the index does not have is not looked for in the table.
Miss_NoScan == [rd EXCEPT !.pc = "done", !.page = 0, !.i = 0]

\* What the index does not have is looked for in a scan.
Miss == [rd EXCEPT !.pc = "scan", !.page = 0, !.i = 0]

\* The loop condition i < num_keys.
LoadNum ==
    LET page == pages[rd.page]
    IN  Reader("test", IF rd.i <= page.num_keys THEN [rd EXCEPT !.pc = "key"]
                       ELSE IF page.leaf THEN Miss
                       ELSE [rd EXCEPT !.pc = "child"])

LoadKey ==
    LET page == pages[rd.page]
        stop == IF page.leaf THEN page.keys[rd.i] = rd.key ELSE rd.key < page.keys[rd.i]
    IN  Reader("key", IF ~stop THEN [rd EXCEPT !.pc = "test", !.i = @ + 1]
                      ELSE [rd EXCEPT !.pc = IF page.leaf THEN "value" ELSE "child"])

LoadChild ==
    LET child == pages[rd.page].vals[rd.i]
    IN  Reader("child", IF child = None THEN Miss
                        ELSE [rd EXCEPT !.pc = "test", !.page = child, !.i = 1])

\* A hit: one row to materialize.
LoadValue ==
    LET rid == pages[rd.page].vals[rd.i]
    IN  Reader("value", [rd EXCEPT !.pc = "rows", !.page = 0, !.i = 0, !.hit = TRUE,
                                   !.rid = rid, !.end = rid + 1])

\* A scan: as many rows as the first column has now.
LoadTotal == Reader("scan", [rd EXCEPT !.pc = "rows", !.end = Len(cols[1])])

\* materialize_row, column by column; the filter drops what a scan finds under
\* another ID, and is not applied to a hit.
LoadCell ==
    LET col == cols[Len(rd.buf) + 1]
        cells == Append(rd.buf, IF rd.rid < Len(col) THEN col[rd.rid + 1] ELSE Garbage)
    IN  /\ rd.rid < rd.end
        /\ Reader("rows", IF Len(cells) < Columns THEN [rd EXCEPT !.buf = cells]
                          ELSE [rd EXCEPT !.buf = <<>>, !.rid = @ + 1,
                                          !.out = IF rd.hit \/ cells[1] = rd.key THEN Append(@, cells) ELSE @])

RowsRead == rd.rid = rd.end /\ Reader("rows", [rd EXCEPT !.pc = "done", !.rid = 0, !.end = 0])

Return == Reader("done", Idle)

LookupNext ==
    \/ \E key \in Keys : BeginInsert(key) \/ Select(key)
    \/ PutColumn \/ BeginIndex \/ StoreNext
    \/ LoadRoot \/ LoadNum \/ LoadKey \/ LoadChild \/ LoadValue
    \/ LoadTotal \/ LoadCell \/ RowsRead \/ Return

LookupSpec == LookupInit /\ [][LookupNext]_lookupVars

-----------------------------------------------------------------------------
(* Properties *)

\* The pages have room for what is stored, the reader stays within them, and
\* the tree is well formed (BPTree!TypeOK).
LookupTypeOK ==
    /\ TypeOK
    /\ \A p \in DOMAIN pages : pages[p].num_keys \in 0 .. Order
    /\ root_pid_ \in DOMAIN pages
    /\ cols \in [1 .. Columns -> Seq(Keys)]
    /\ at \in 0 .. Columns + 1
    /\ rd.page \in 0 .. Len(pages) /\ rd.i \in 0 .. Order + 1 /\ rd.rid \in Nat

\* The stores of insert_into_leaf and insert_into_parent, done one after the
\* other, leave the pages as BPTree!insert does in one step.
StoresReachTree ==
    LET mem == FoldLeft(Apply, Memory, stores)
    IN  mem.root = root /\ [p \in DOMAIN mem.pages |-> NodeOf(mem.pages[p])] = nodes

RowOf(key) == [c \in 1 .. Columns |-> key]

\* Whatever stores a search has raced with, a row it hits is complete in all
\* columns, because insert_row enters a row in the index last; and if IDs are
\* inserted in ascending order it is the row with the ID asked for, although
\* exec_select does not filter it.
HitsAreRows ==
    rd.pc = "done" /\ rd.hit =>
        /\ \E key \in Keys : rd.out = <<RowOf(key)>>
        /\ Ascending(cols[1]) => rd.out = <<RowOf(rd.key)>>

\* If IDs are inserted in ascending order, a SELECT by ID returns the row, once,
\* if its INSERT had returned before: what a search misses because a leaf is
\* being split or has no parent is found by the scan.
InsertedRowsAreRead ==
    rd.pc = "done" /\ Ascending(cols[1]) /\ rd.known => rd.out = <<RowOf(rd.key)>>
=============================================================================

---------------------------- MODULE ColumnStore ----------------------------
(***************************************************************************)
(* One column of a table: the ColumnStore that appends items, the Pager    *)
(* whose memory-mapped file holds them, and the ColumnReader that fetches  *)
(* the item of a row id.  All three run in one thread here.                *)
(*                                                                         *)
(* The file is FilePages pages (1 GB / 4096 bytes in the code).  A page is *)
(* a header with the number of items and a body of BodyWords words; the    *)
(* header's item_size is written by insert_fixed and read by nobody who    *)
(* uses insert_fixed, so it is left out.  An item occupies WriteWords      *)
(* words when it is stored; the reader fetches ReadWords words.  The two   *)
(* differ in the code for FLOAT columns: Table::insert_row stores 4 bytes  *)
(* and Executor::materialize_row reads 8.                                  *)
(*                                                                         *)
(* The page cache hands out pointers into the mapping, so it never changes *)
(* what is stored or read and is modelled on its own, in PageCache.        *)
(***************************************************************************)
EXTENDS Integers, Sequences, Functions

CONSTANTS Values,       \* the values a client stores
          NoValue,        \* fills words no value was stored in
          BodyWords,      \* words of a page after its header
          WriteWords,     \* words of an item as insert_fixed stores it
          ReadWords,      \* words of an item as read_at fetches it
          FilePages,      \* pages inside the mapping
          MaxRows         \* bound: rows a client inserts between two clears

ASSUME ColumnAssumption ==
    /\ NoValue \notin Values
    /\ BodyWords \in Nat /\ WriteWords \in Nat /\ ReadWords \in Nat
    /\ WriteWords >= 1 /\ WriteWords <= BodyWords
    /\ ReadWords >= 1 /\ ReadWords <= BodyWords
    /\ FilePages \in Nat /\ MaxRows \in Nat

VARIABLES num_pages,      \* Pager::num_pages
          mem,            \* the mapped file, page by page
          active,         \* ColumnStore::active_page_idx_, NoPage if null
          total_rows,     \* ColumnStore::total_rows_
          faulted         \* the process touched memory past the mapping

vars == <<num_pages, mem, active, total_rows, faulted>>

NoPage == -1

Pages == 0 .. FilePages - 1
Offsets == 0 .. BodyWords - 1

\* (4096 - sizeof(ColumnPageHeader)) / item_size
PerPage(words) == BodyWords \div words

\* The words of a value, and the two kinds of words that belong to none.
Encode(v) == [j \in 0 .. WriteWords - 1 |-> <<v, j>>]
ZeroWord == <<NoValue, 0>>
ForeignWord == <<NoValue, 1>>
Words == (Values \X (0 .. WriteWords - 1)) \cup {ZeroWord}

ZeroPage == [num_items |-> 0, body |-> [o \in Offsets |-> ZeroWord]]

-----------------------------------------------------------------------------
(* ColumnReader *)

RowsBefore(pi) == SumFunctionOnSet([p \in Pages |-> mem[p].num_items], 0 .. pi - 1)

\* The fetched words; a slot that runs over the end of the page continues
\* in the next page of the file.
Slot(p, local) ==
    [j \in 0 .. ReadWords - 1 |->
        IF local * ReadWords + j < BodyWords THEN mem[p].body[local * ReadWords + j]
                                             ELSE ForeignWord]

FastPage(rid) == rid \div PerPage(ReadWords)

FastHit(rid) ==
    /\ FastPage(rid) < num_pages
    /\ rid < FastPage(rid) * PerPage(ReadWords) + mem[FastPage(rid)].num_items

\* The page at which the linear scan stops.
ScanHit(rid, pi) ==
    /\ RowsBefore(pi) <= rid
    /\ rid < RowsBefore(pi + 1)

NotFound == <<>>

read_at(rid) ==
    IF FastHit(rid)
    THEN Slot(FastPage(rid), rid - FastPage(rid) * PerPage(ReadWords))
    ELSE IF \E pi \in 0 .. num_pages - 1 : ScanHit(rid, pi)
    THEN LET pi == CHOOSE q \in 0 .. num_pages - 1 : ScanHit(rid, q)
         IN  Slot(pi, rid - RowsBefore(pi))
    ELSE NotFound

\* What a scan of the column reads, as exec_select and HashJoin run it.
ScanRows == [i \in 1 .. total_rows |-> read_at(i - 1)]

\* ColumnReader::get_total_rows, which asks the pages and not total_rows_.
get_total_rows == RowsBefore(num_pages)

\* Mutant: the last thread stops where its chunk does.
ChunkEnd_NoRest(t, num_threads) == (t + 1) * (get_total_rows \div num_threads)

ChunkEnd(t, num_threads) ==
    IF t = num_threads - 1 THEN get_total_rows ELSE (t + 1) * (get_total_rows \div num_threads)

\* ParallelScanner::scan: thread t collects the row ids of its chunk, and the
\* chunks are joined in the order of the threads.
scan(num_threads) ==
    LET start(t) == t * (get_total_rows \div num_threads)
        partial(t) == [i \in 1 .. ChunkEnd(t, num_threads) - start(t) |-> start(t) + i - 1]
        result[t \in 0 .. num_threads] == IF t = 0 THEN <<>> ELSE result[t - 1] \o partial(t - 1)
    IN  result[num_threads]

-----------------------------------------------------------------------------
(* ColumnStore *)

Init ==
    /\ num_pages = 0
    /\ mem = [p \in Pages |-> ZeroPage]
    /\ active = NoPage
    /\ total_rows = 0
    /\ faulted = FALSE

\* Mutants: the count test of insert_fixed off by one, each way.
Full_OneEarly(p) == mem[p].num_items + 1 >= PerPage(WriteWords)
Full_OneLate(p) == mem[p].num_items > PerPage(WriteWords)

Full(p) == mem[p].num_items >= PerPage(WriteWords)

ActiveHasRoom == active # NoPage /\ ~Full(active)

LastHasRoom == num_pages > 0 /\ ~Full(num_pages - 1)

\* memcpy of the item behind the items of the page, num_items++.
Store(page, v) ==
    [num_items |-> page.num_items + 1,
     body |-> [o \in Offsets |->
                 IF o \in page.num_items * WriteWords .. page.num_items * WriteWords + WriteWords - 1
                 THEN Encode(v)[o - page.num_items * WriteWords]
                 ELSE page.body[o]]]

\* insert_fixed when the active page, or else the last page, has room.
InsertInPage(v) ==
    /\ ~faulted
    /\ total_rows < MaxRows
    /\ ActiveHasRoom \/ LastHasRoom
    /\ LET p == IF ActiveHasRoom THEN active ELSE num_pages - 1
       IN  /\ mem' = [mem EXCEPT ![p] = Store(mem[p], v)]
           /\ active' = p
    /\ total_rows' = total_rows + 1
    /\ UNCHANGED <<num_pages, faulted>>

\* insert_fixed when a page must be allocated.  allocate_page compares
\* nothing with the size of the mapping.
InsertInNewPage(v) ==
    /\ ~faulted
    /\ total_rows < MaxRows
    /\ ~ActiveHasRoom /\ ~LastHasRoom
    /\ num_pages' = num_pages + 1
    /\ IF num_pages < FilePages
       THEN /\ mem' = [mem EXCEPT ![num_pages] = Store(ZeroPage, v)]
            /\ active' = num_pages
            /\ total_rows' = total_rows + 1
            /\ UNCHANGED faulted
       ELSE /\ faulted' = TRUE
            /\ UNCHANGED <<mem, active, total_rows>>

insert_fixed(v) == InsertInPage(v) \/ InsertInNewPage(v)

\* Mutant: clear forgets active_page_.
clear_KeepsActive ==
    /\ ~faulted
    /\ total_rows' = 0
    /\ num_pages' = 0
    /\ UNCHANGED <<mem, active, faulted>>

\* ColumnStore::clear.  The bytes stay in the file.
clear ==
    /\ ~faulted
    /\ active' = NoPage
    /\ total_rows' = 0
    /\ num_pages' = 0
    /\ UNCHANGED <<mem, faulted>>

\* The column is destroyed, or the process ends in any way, and a ColumnStore
\* is constructed on the same file.  Pager::Pager sets num_pages to 0 whatever
\* the file holds, so the constructor's loop over the pages adds nothing.
Reopen ==
    /\ num_pages' = 0
    /\ active' = NoPage
    /\ total_rows' = 0
    /\ faulted' = FALSE
    /\ UNCHANGED mem

Next ==
    \/ \E v \in Values : insert_fixed(v)
    \/ clear
    \/ Reopen

Spec == Init /\ [][Next]_vars

\* The column while nobody sends DELETE: a step that takes rows away is a
\* Reopen.
SpecWithoutClear == Init /\ [][(\E v \in Values : insert_fixed(v)) \/ Reopen]_vars

-----------------------------------------------------------------------------
(* Properties *)

\* Every variable has its type; a page never counts more items than fit
\* (insert_fixed tests the count before it writes).
TypeOK ==
    /\ num_pages \in 0 .. FilePages + 1
    /\ mem \in [Pages -> [num_items : 0 .. PerPage(WriteWords), body : [Offsets -> Words]]]
    /\ active \in Pages \cup {NoPage}
    /\ total_rows \in 0 .. MaxRows
    /\ faulted \in BOOLEAN

\* What read_at's fast path assumes (column_reader.cpp:33): every page in use
\* but the last is full, the last is not empty, total_rows_ is exactly the
\* number of items in the pages, and the page insert_fixed remembers between
\* calls is the last one.
PagesAreDense ==
    ~faulted =>
        /\ \A p \in Pages : p < num_pages - 1 => mem[p].num_items = PerPage(WriteWords)
        /\ num_pages > 0 =>
             /\ num_pages <= FilePages
             /\ mem[num_pages - 1].num_items >= 1
             /\ total_rows = (num_pages - 1) * PerPage(WriteWords) + mem[num_pages - 1].num_items
        /\ num_pages = 0 => total_rows = 0
        /\ active # NoPage => active = num_pages - 1

\* A parallel scan returns the row ids 0 .. total_rows_ - 1, each once and in
\* order, for any number of threads, more threads than rows included
\* (parallel_scan.cpp:13, with the rows counted from the page headers).
ParallelScanCovers ==
    ~faulted => \A n \in 1 .. MaxRows + 1 : scan(n) = [i \in 1 .. total_rows |-> i - 1]

\* The column refines its abstract sequence: the rows a scan from 0 to
\* total_rows_ reads are exactly the items inserted since the last clear, in
\* order, and no insert changes an older row.
Log == INSTANCE ColumnLog
         WITH Items <- {Encode(v) : v \in Values}, rows <- ScanRows

ImplementsLog == Log!Spec

\* Reopening a column file keeps its rows (pager.cpp:45).  README.md:84 promises
\* msync on close "for durability", and test_executor.cpp:46-52 finds with a new
\* Executor what the one before has inserted.  Checked of SpecWithoutClear, where
\* no other step takes rows away.
ReopenKeepsRows == [][Reopen /\ ~faulted => ScanRows' = ScanRows]_vars
=============================================================================

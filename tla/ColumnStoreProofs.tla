------------------------- MODULE ColumnStoreProofs -------------------------
(***************************************************************************)
(* Proofs about ColumnStore, for every page size, item size, file size and *)
(* number of rows: the pages stay dense, and the column refines the        *)
(* abstract sequence of items.                                             *)
(***************************************************************************)
EXTENDS ColumnStore, TLAPS

-----------------------------------------------------------------------------
(* Arithmetic of pages and slots *)

\* A whole number of slots fits in a page and at least one does.
LEMMA SlotsFit ==
    ASSUME NEW b \in Nat, NEW w \in Nat, w >= 1, w <= b
    PROVE  /\ b \div w \in Nat
           /\ b \div w >= 1
           /\ (b \div w) * w <= b
<1>1. b = w * (b \div w) + (b % w) /\ b % w \in 0 .. w - 1 /\ b \div w \in Int
  BY SMT
<1>2. b \div w >= 1
  BY <1>1, SMT
<1> QED
  BY <1>1, <1>2, SMT

\* The words of slot number s lie before the end of slot number c - 1.
LEMMA SlotBound ==
    ASSUME NEW c \in Nat, NEW w \in Nat, NEW s \in Nat, s < c
    PROVE  s * w + w <= c * w
<1> DEFINE d == c - (s + 1)
<1>1. d \in Nat /\ c = s + 1 + d
  BY SMT
<1>2. c * w = s * w + w + d * w
  BY <1>1, SMT
<1>3. d * w >= 0
  BY <1>1, SMT
<1> QED
  BY <1>2, <1>3, SMT

\* A row id splits into a page and a slot in exactly one way.
LEMMA PageOfRow ==
    ASSUME NEW c \in Nat, c >= 1, NEW p \in Nat, NEW s \in Nat, s < c
    PROVE  (p * c + s) \div c = p
  BY SMT

\* Every row id is a slot of some page.
LEMMA RowSplits ==
    ASSUME NEW c \in Nat, c >= 1, NEW r \in Nat
    PROVE  /\ r \div c \in Nat
           /\ r - (r \div c) * c \in Nat
           /\ r - (r \div c) * c < c
<1>1. r = c * (r \div c) + (r % c) /\ r % c \in 0 .. c - 1 /\ r \div c \in Int
  BY SMT
<1> QED
  BY <1>1, SMT

-----------------------------------------------------------------------------
(* The inductive invariant *)

\* Density needs the types; the types need nothing else.
IInv == TypeOK /\ PagesAreDense

\* The number of items of a page, as insert_fixed computes it.
LEMMA ItemsPerPage ==
    /\ PerPage(WriteWords) \in Nat
    /\ PerPage(WriteWords) >= 1
    /\ PerPage(WriteWords) * WriteWords <= BodyWords
  BY SlotsFit, ColumnAssumption DEF PerPage

\* Storing an item in a page that has room gives a page.
LEMMA StoreType ==
    ASSUME NEW v \in Values,
           NEW page \in [num_items : 0 .. PerPage(WriteWords), body : [Offsets -> Words]],
           page.num_items < PerPage(WriteWords)
    PROVE  /\ Store(page, v) \in [num_items : 0 .. PerPage(WriteWords), body : [Offsets -> Words]]
           /\ Store(page, v).num_items = page.num_items + 1
<1>1. page.num_items + 1 \in 0 .. PerPage(WriteWords)
  BY ItemsPerPage
<1>2. page.num_items * WriteWords \in Nat
  BY ItemsPerPage, ColumnAssumption
<1>3. ASSUME NEW o \in Offsets,
             o \in page.num_items * WriteWords .. page.num_items * WriteWords + WriteWords - 1
      PROVE  Encode(v)[o - page.num_items * WriteWords] \in Words
  BY <1>2, <1>3, ColumnAssumption DEF Encode, Words, Offsets
<1>4. ASSUME NEW o \in Offsets PROVE page.body[o] \in Words
  OBVIOUS
<1> QED
  BY <1>1, <1>3, <1>4 DEF Store

\* A page that memset has cleared is a page.
LEMMA ZeroPageType ==
    /\ ZeroPage \in [num_items : 0 .. PerPage(WriteWords), body : [Offsets -> Words]]
    /\ ZeroPage.num_items = 0
  BY ItemsPerPage DEF ZeroPage, Words

\* A column just opened satisfies the invariant.
LEMMA InitInv == Init => IInv
<1> SUFFICES ASSUME Init PROVE IInv
  OBVIOUS
<1>1. TypeOK
  <2>1. faulted \in BOOLEAN
    BY DEF Init
  <2>2. mem \in [Pages -> [num_items : 0 .. PerPage(WriteWords), body : [Offsets -> Words]]]
    BY ZeroPageType DEF Init
  <2>3. num_pages \in 0 .. FilePages + 1 /\ total_rows \in 0 .. MaxRows
    BY ColumnAssumption DEF Init
  <2> QED
    BY <2>1, <2>2, <2>3 DEF Init, TypeOK
<1>2. PagesAreDense
  BY DEF Init, PagesAreDense, Pages
<1> QED
  BY <1>1, <1>2 DEF IInv

\* insert_fixed, clear and reopening the file keep the invariant.
LEMMA StepInv == IInv /\ [Next]_vars => IInv'
<1> SUFFICES ASSUME IInv, [Next]_vars PROVE IInv'
  OBVIOUS
<1> USE ColumnAssumption
<1>1. ASSUME NEW v \in Values, InsertInPage(v) PROVE IInv'
  <2> DEFINE p == IF ActiveHasRoom THEN active ELSE num_pages - 1
  <2>1. /\ p = num_pages - 1
        /\ p \in Pages
        /\ mem[p].num_items < PerPage(WriteWords)
        /\ mem[p] \in [num_items : 0 .. PerPage(WriteWords), body : [Offsets -> Words]]
        /\ num_pages > 0
    BY <1>1, ItemsPerPage, SMTT(60)
    DEF InsertInPage, IInv, TypeOK, PagesAreDense, ActiveHasRoom, LastHasRoom, Full, Pages, NoPage
  <2>2. /\ mem' = [mem EXCEPT ![p] = Store(mem[p], v)]
        /\ active' = p
        /\ total_rows' = total_rows + 1
        /\ num_pages' = num_pages
        /\ faulted' = faulted /\ ~faulted /\ total_rows < MaxRows
    BY <1>1 DEF InsertInPage
  <2>3. TypeOK'
    BY <2>1, <2>2, StoreType DEF IInv, TypeOK, Pages
  <2>4. mem'[num_pages - 1].num_items = mem[num_pages - 1].num_items + 1
    BY <2>1, <2>2, StoreType DEF IInv, TypeOK
  <2>5. \A q \in Pages : q < num_pages - 1 => mem'[q].num_items = PerPage(WriteWords)
    BY <2>1, <2>2 DEF IInv, TypeOK, PagesAreDense, Pages
  <2>6. /\ num_pages <= FilePages
        /\ mem[num_pages - 1].num_items \in Nat
        /\ total_rows = (num_pages - 1) * PerPage(WriteWords) + mem[num_pages - 1].num_items
    BY <2>1, <2>2 DEF IInv, PagesAreDense
  <2>7. PagesAreDense'
    BY <2>1, <2>2, <2>4, <2>5, <2>6, ItemsPerPage DEF IInv, TypeOK, PagesAreDense
  <2> QED
    BY <2>3, <2>7 DEF IInv
<1>2. ASSUME NEW v \in Values, InsertInNewPage(v) PROVE IInv'
  <2>1. ~faulted /\ total_rows < MaxRows /\ num_pages' = num_pages + 1 /\ num_pages \in 0 .. FilePages
    BY <1>2 DEF InsertInNewPage, IInv, TypeOK, PagesAreDense
  <2>2. CASE num_pages < FilePages
    <3>1. /\ mem' = [mem EXCEPT ![num_pages] = Store(ZeroPage, v)]
          /\ active' = num_pages
          /\ total_rows' = total_rows + 1
          /\ faulted' = faulted
      BY <1>2, <2>2 DEF InsertInNewPage
    <3>2. num_pages \in Pages
      BY <2>1, <2>2 DEF Pages
    <3>3. num_pages > 0 => mem[num_pages - 1].num_items = PerPage(WriteWords)
      BY <1>2, <2>1, <2>2, ItemsPerPage
      DEF InsertInNewPage, LastHasRoom, Full, IInv, TypeOK, Pages
    <3>4. TypeOK'
      BY <2>1, <3>1, <3>2, StoreType, ZeroPageType, ItemsPerPage DEF IInv, TypeOK
    <3>5. num_pages > 0 => total_rows = num_pages * PerPage(WriteWords)
      BY <2>1, <3>3, ItemsPerPage DEF IInv, PagesAreDense
    <3>6. total_rows = num_pages * PerPage(WriteWords)
      BY <2>1, <3>5, ItemsPerPage DEF IInv, PagesAreDense
    <3>7. \A q \in Pages : q < num_pages => mem'[q].num_items = PerPage(WriteWords)
      BY <2>1, <3>1, <3>2, <3>3, SMTT(60) DEF IInv, TypeOK, PagesAreDense, Pages
    <3>8. mem'[num_pages].num_items = 1
      BY <3>1, <3>2, StoreType, ZeroPageType, ItemsPerPage DEF IInv, TypeOK
    <3>9. PagesAreDense'
      BY <2>1, <2>2, <3>1, <3>6, <3>7, <3>8, ItemsPerPage DEF PagesAreDense
    <3> QED
      BY <3>4, <3>9 DEF IInv
  <2>3. CASE ~(num_pages < FilePages)
    BY <1>2, <2>1, <2>3 DEF InsertInNewPage, IInv, TypeOK, PagesAreDense
  <2> QED
    BY <2>2, <2>3
<1>3. CASE clear
  BY <1>3 DEF clear, IInv, TypeOK, PagesAreDense, Pages
<1>4. CASE Reopen
  <2>1. num_pages' = 0 /\ active' = NoPage /\ total_rows' = 0 /\ mem' = mem
    BY <1>4 DEF Reopen
  <2>2. faulted' \in BOOLEAN
    BY <1>4 DEF Reopen
  <2>3. TypeOK'
    BY <2>1, <2>2 DEF IInv, TypeOK
  <2>4. PagesAreDense'
    BY <2>1 DEF PagesAreDense, Pages
  <2> QED
    BY <2>3, <2>4 DEF IInv
<1>5. CASE UNCHANGED vars
  BY <1>5 DEF vars, IInv, TypeOK, PagesAreDense
<1> QED
  BY <1>1, <1>2, <1>3, <1>4, <1>5 DEF Next, insert_fixed

\* Every behaviour of the column keeps the inductive invariant.
THEOREM Invariance == Spec => []IInv
<1> QED
  BY InitInv, StepInv, PTL DEF Spec

\* For every page, item and file size the pages of a column stay dense, which
\* is what the O(1) page computation of ColumnReader::read_at relies on.
THEOREM PagesStayDense == Spec => []PagesAreDense
<1>1. IInv => PagesAreDense
  BY DEF IInv
<1> QED
  BY <1>1, Invariance, PTL

-----------------------------------------------------------------------------
(* The column refines the abstract sequence *)

\* Multiplication by a slot count is monotonic.
LEMMA TimesMonotonic ==
    ASSUME NEW c \in Nat, NEW m \in Nat, NEW n \in Nat, m <= n
    PROVE  m * c <= n * c
<1>1. n - m \in Nat /\ n = m + (n - m)
  BY SMT
<1>2. n * c = m * c + (n - m) * c
  BY <1>1, SMT
<1>3. (n - m) * c >= 0
  BY <1>1, SMT
<1> QED
  BY <1>2, <1>3, SMT

\* Extending a tabulated sequence by one element.
LEMMA AppendTabulated ==
    ASSUME NEW n \in Nat, NEW f, NEW g, NEW e,
           f = [i \in 1 .. n |-> f[i]],
           g = [i \in 1 .. n + 1 |-> g[i]],
           \A i \in 1 .. n : g[i] = f[i],
           g[n + 1] = e
    PROVE  g = Append(f, e)
  OBVIOUS

\* The words of row rid, given that every page before its page is full.
Fetched(rid) ==
    [j \in 0 .. WriteWords - 1 |->
        mem[rid \div PerPage(WriteWords)].body
            [(rid - (rid \div PerPage(WriteWords)) * PerPage(WriteWords)) * WriteWords + j]]

\* Where the fast path of read_at finds row rid.
FoundAt(rid) ==
    LET p == rid \div PerPage(WriteWords)
        s == rid - p * PerPage(WriteWords)
    IN  /\ p \in Pages
        /\ p <= num_pages - 1
        /\ s \in Nat
        /\ s < mem[p].num_items
        /\ FastHit(rid)
        /\ read_at(rid) = Fetched(rid)

FastPathFindsAll == IInv /\ ~faulted => \A rid \in 0 .. total_rows - 1 : FoundAt(rid)

\* In a dense column the fast path of read_at finds every row.
LEMMA FastPathSuffices ==
    ASSUME ReadWords = WriteWords
    PROVE  FastPathFindsAll
<1> SUFFICES ASSUME IInv, ~faulted, NEW rid \in 0 .. total_rows - 1 PROVE FoundAt(rid)
  BY DEF FastPathFindsAll
<1> DEFINE c == PerPage(WriteWords)
           p == rid \div c
           s == rid - p * c
<1>1. rid \in Nat /\ total_rows \in Nat /\ num_pages \in Nat /\ FilePages \in Nat
  BY ColumnAssumption DEF IInv, TypeOK
<1>2. c \in Nat /\ c >= 1 /\ c * WriteWords <= BodyWords
  BY ItemsPerPage
<1>3. p \in Nat /\ s \in Nat /\ s < c
  BY <1>1, <1>2, RowSplits
<1>4. num_pages > 0 /\ num_pages <= FilePages
  BY <1>1 DEF IInv, PagesAreDense
<1>5. num_pages - 1 \in Pages
  BY <1>1, <1>4 DEF Pages
<1>6. mem[num_pages - 1].num_items \in 0 .. c
  BY <1>5 DEF IInv, TypeOK
<1>7. total_rows = (num_pages - 1) * c + mem[num_pages - 1].num_items
  BY <1>4 DEF IInv, PagesAreDense
<1>8. p <= num_pages - 1
  <2>1. ASSUME num_pages <= p PROVE FALSE
    <3>1. num_pages * c <= p * c
      BY <1>1, <1>2, <1>3, <2>1, TimesMonotonic
    <3>2. num_pages * c = (num_pages - 1) * c + c
      BY <1>1, <1>2
    <3>3. p * c <= rid
      BY <1>3, <1>1, <1>2
    <3>4. (num_pages - 1) * c \in Nat /\ p * c \in Nat
      BY <1>1, <1>2, <1>3, <1>4
    <3> QED
      BY <3>1, <3>2, <3>3, <3>4, <1>6, <1>7, <1>1, <1>2
  <2> QED
    BY <2>1, <1>1, <1>3
<1>9. p \in Pages
  BY <1>1, <1>3, <1>4, <1>8 DEF Pages
<1>10. s < mem[p].num_items
  <2>1. CASE p < num_pages - 1
    BY <2>1, <1>3, <1>9 DEF IInv, PagesAreDense
  <2>2. CASE p = num_pages - 1
    BY <2>2, <1>1, <1>2, <1>3, <1>6, <1>7
  <2> QED
    BY <2>1, <2>2, <1>8, <1>1, <1>3
<1>11. FastPage(rid) = p
  BY DEF FastPage
<1>12. mem[p].num_items \in 0 .. c
  BY <1>9 DEF IInv, TypeOK
<1>13. p * c \in Nat
  BY <1>2, <1>3
<1>14. FastHit(rid)
  BY <1>1, <1>8, <1>3, <1>10, <1>11, <1>12, <1>13 DEF FastHit
<1>15. read_at(rid) = Slot(p, s)
  BY <1>11, <1>14 DEF read_at
<1>16. Slot(p, s) = [j \in 0 .. WriteWords - 1 |-> mem[p].body[s * WriteWords + j]]
  <2>1. s * WriteWords + WriteWords <= BodyWords
    BY <1>2, <1>3, SlotBound, ColumnAssumption
  <2>2. s * WriteWords \in Nat
    BY <1>3, ColumnAssumption
  <2>3. ASSUME NEW j \in 0 .. WriteWords - 1 PROVE s * WriteWords + j < BodyWords
    BY <2>1, <2>2, ColumnAssumption
  <2> QED
    BY <2>3 DEF Slot
<1> QED
  BY <1>8, <1>9, <1>3, <1>10, <1>14, <1>15, <1>16 DEF Fetched, FoundAt

\* Storing an item leaves the words of the items before it alone and puts the
\* words of the value behind them.
LEMMA StoreAppends ==
    ASSUME NEW v \in Values,
           NEW page \in [num_items : 0 .. PerPage(WriteWords), body : [Offsets -> Words]],
           page.num_items < PerPage(WriteWords)
    PROVE  /\ \A s \in Nat : s < page.num_items =>
                 \A j \in 0 .. WriteWords - 1 :
                     Store(page, v).body[s * WriteWords + j] = page.body[s * WriteWords + j]
           /\ \A j \in 0 .. WriteWords - 1 :
                 Store(page, v).body[page.num_items * WriteWords + j] = Encode(v)[j]
<1> DEFINE k == page.num_items
<1>1. k \in Nat /\ WriteWords \in Nat /\ k * WriteWords \in Nat /\ BodyWords \in Nat
  BY ItemsPerPage, ColumnAssumption
<1>2. k * WriteWords + WriteWords <= BodyWords
  <2>1. k * WriteWords + WriteWords <= PerPage(WriteWords) * WriteWords
    BY <1>1, ItemsPerPage, SlotBound
  <2> QED
    BY <2>1, <1>1, ItemsPerPage
<1>3. ASSUME NEW s \in Nat, s < k, NEW j \in 0 .. WriteWords - 1
      PROVE  Store(page, v).body[s * WriteWords + j] = page.body[s * WriteWords + j]
  <2>1. s * WriteWords \in Nat
    BY <1>1
  <2>2. s * WriteWords + WriteWords <= k * WriteWords
    BY <1>1, <1>3, SlotBound
  <2>3. /\ s * WriteWords + j \in Offsets
        /\ s * WriteWords + j \notin k * WriteWords .. k * WriteWords + WriteWords - 1
    BY <1>1, <1>2, <2>1, <2>2 DEF Offsets
  <2> QED
    BY <2>3 DEF Store
<1>4. ASSUME NEW j \in 0 .. WriteWords - 1
      PROVE  Store(page, v).body[k * WriteWords + j] = Encode(v)[j]
  <2>1. /\ k * WriteWords + j \in Offsets
        /\ k * WriteWords + j \in k * WriteWords .. k * WriteWords + WriteWords - 1
        /\ (k * WriteWords + j) - k * WriteWords = j
    <3> DEFINE first == k * WriteWords
    <3>1. first \in Nat /\ WriteWords \in Nat /\ BodyWords \in Nat /\ first + WriteWords <= BodyWords
      BY <1>1, <1>2
    <3> HIDE DEF first
    <3>2. first + j \in Offsets /\ first + j \in first .. first + WriteWords - 1 /\ (first + j) - first = j
      BY <3>1 DEF Offsets
    <3> QED
      BY <3>2 DEF first
  <2> QED
    BY <2>1 DEF Store
<1> QED
  BY <1>3, <1>4

\* A step that leaves the fetched words of every old row alone and adds a row
\* with the words of v appends v to what a scan reads.
LEMMA AppendStep ==
    ASSUME ReadWords = WriteWords, NEW v \in Values, NEW n \in Nat,
           IInv, IInv', ~faulted, ~faulted',
           total_rows = n, total_rows' = n + 1,
           \A rid \in 0 .. n - 1 : Fetched(rid)' = Fetched(rid),
           Fetched(n)' = Encode(v)
    PROVE  ScanRows' = Append(ScanRows, Encode(v))
<1>1. FastPathFindsAll
  BY FastPathSuffices
<1>2. FastPathFindsAll'
  BY FastPathSuffices, PTL
<1>3. \A rid \in 0 .. n - 1 : read_at(rid) = Fetched(rid)
  BY <1>1 DEF FastPathFindsAll, FoundAt
<1>4. \A rid \in 0 .. n : read_at(rid)' = Fetched(rid)'
  BY <1>2 DEF FastPathFindsAll, FoundAt
<1>5. \A i \in 1 .. n : read_at(i - 1)' = read_at(i - 1)
  BY <1>3, <1>4
<1>6. read_at((n + 1) - 1)' = Encode(v)
  BY <1>4
<1>7. ScanRows = [i \in 1 .. n |-> read_at(i - 1)]
  BY DEF ScanRows
<1>8. ScanRows' = [i \in 1 .. n + 1 |-> read_at(i - 1)']
  BY DEF ScanRows
<1>9. \A i \in 1 .. n : ScanRows'[i] = ScanRows[i]
  BY <1>5, <1>7, <1>8
<1>10. ScanRows'[n + 1] = Encode(v)
  BY <1>6, <1>8
<1>11. ScanRows = [i \in 1 .. n |-> ScanRows[i]]
  BY <1>7
<1>12. ScanRows' = [i \in 1 .. n + 1 |-> ScanRows'[i]]
  BY <1>8
<1> QED
  BY <1>9, <1>10, <1>11, <1>12, AppendTabulated

\* Storing v behind the last item of the last page appends v to the rows.
LEMMA InsertAppends ==
    ASSUME ReadWords = WriteWords, NEW v \in Values, NEW n \in Nat, NEW last \in Pages,
           NEW page \in [num_items : 0 .. PerPage(WriteWords), body : [Offsets -> Words]],
           IInv, IInv', ~faulted, ~faulted',
           page.num_items < PerPage(WriteWords),
           page.num_items > 0 => page = mem[last],
           n = last * PerPage(WriteWords) + page.num_items,
           total_rows = n, total_rows' = n + 1,
           mem' = [mem EXCEPT ![last] = Store(page, v)]
    PROVE  ScanRows' = Append(ScanRows, Encode(v))
<1> DEFINE c == PerPage(WriteWords)
           k == page.num_items
<1>0. mem \in [Pages -> [num_items : 0 .. c, body : [Offsets -> Words]]]
  BY DEF IInv, TypeOK
<1>1. /\ c \in Nat /\ c >= 1 /\ k \in Nat /\ last \in Nat /\ last * c \in Nat
      /\ WriteWords \in Nat
  <2>1. c \in Nat /\ c >= 1 /\ WriteWords \in Nat
    BY ItemsPerPage, ColumnAssumption
  <2>2. k \in Nat /\ last \in Nat
    BY <2>1, ColumnAssumption DEF Pages
  <2> QED
    BY <2>1, <2>2
<1>2. ASSUME NEW rid \in 0 .. n - 1 PROVE Fetched(rid)' = Fetched(rid)
  <2> DEFINE p == rid \div c
             s == rid - p * c
  <2>1. FoundAt(rid)
    BY FastPathSuffices, <1>2 DEF FastPathFindsAll
  <2>2. p \in Pages /\ s \in Nat /\ s < mem[p].num_items
    BY <2>1 DEF FoundAt
  <2>3. CASE p # last
    BY <1>0, <2>2, <2>3 DEF Fetched
  <2>4. CASE p = last
    <3>1. s < k
      BY <1>1, <2>2, <2>4
    <3>2. page = mem[p]
      BY <1>1, <2>2, <2>4, <3>1
    <3>3. mem'[p] = Store(mem[p], v)
      BY <1>0, <2>2, <2>4, <3>2
    <3>4. \A j \in 0 .. WriteWords - 1 : mem'[p].body[s * WriteWords + j] = mem[p].body[s * WriteWords + j]
      BY <2>2, <3>1, <3>2, <3>3, StoreAppends
    <3> QED
      BY <3>4 DEF Fetched
  <2> QED
    BY <2>3, <2>4
<1>3. Fetched(n)' = Encode(v)
  <2>1. n \div c = last
    BY <1>1, PageOfRow
  <2>2. n - last * c = k
    BY <1>1
  <2>3. mem'[last] = Store(page, v)
    BY <1>0
  <2>4. \A j \in 0 .. WriteWords - 1 : mem'[last].body[k * WriteWords + j] = Encode(v)[j]
    BY <2>3, StoreAppends
  <2> QED
    BY <2>1, <2>2, <2>4 DEF Fetched, Encode
<1> QED
  BY <1>2, <1>3, AppendStep

\* insert_fixed appends the item, clear and Reopen empty the column, and the
\* insert that runs past the mapping leaves the rows as they are.
LEMMA StepRefines ==
    ASSUME ReadWords = WriteWords
    PROVE  IInv /\ IInv' /\ [Next]_vars => [Log!Next]_ScanRows
<1> SUFFICES ASSUME IInv, IInv', [Next]_vars PROVE [Log!Next]_ScanRows
  OBVIOUS
<1> DEFINE PageSet == [num_items : 0 .. PerPage(WriteWords), body : [Offsets -> Words]]
<1>1. ASSUME NEW v \in Values, InsertInPage(v) PROVE ScanRows' = Append(ScanRows, Encode(v))
  <2>1. /\ ~faulted /\ ~faulted'
        /\ total_rows \in Nat
        /\ total_rows' = total_rows + 1
        /\ num_pages > 0
        /\ num_pages - 1 \in Pages
        /\ active # NoPage => active = num_pages - 1
    BY <1>1, ColumnAssumption
    DEF InsertInPage, IInv, TypeOK, PagesAreDense, ActiveHasRoom, LastHasRoom, Pages
  <2>2. /\ mem' = [mem EXCEPT ![num_pages - 1] = Store(mem[num_pages - 1], v)]
        /\ mem[num_pages - 1].num_items < PerPage(WriteWords)
    <3>1. mem[num_pages - 1] \in PageSet
      BY <2>1 DEF IInv, TypeOK
    <3>2. ~Full(num_pages - 1)
      BY <1>1, <2>1 DEF InsertInPage, ActiveHasRoom, LastHasRoom
    <3>3. mem' = [mem EXCEPT ![num_pages - 1] = Store(mem[num_pages - 1], v)]
      BY <1>1, <2>1 DEF InsertInPage, ActiveHasRoom
    <3> QED
      BY <3>1, <3>2, <3>3, ItemsPerPage DEF Full
  <2>3. PICK last \in Pages : last = num_pages - 1
    BY <2>1
  <2>4. PICK n \in Nat : n = total_rows
    BY <2>1
  <2>5. PICK page \in PageSet : page = mem[last]
    BY <2>3 DEF IInv, TypeOK
  <2>6. n = last * PerPage(WriteWords) + page.num_items
    BY <2>1, <2>3, <2>4, <2>5 DEF IInv, PagesAreDense
  <2> QED
    BY <2>1, <2>2, <2>3, <2>4, <2>5, <2>6, InsertAppends
<1>2. ASSUME NEW v \in Values, InsertInNewPage(v)
      PROVE  ScanRows' = Append(ScanRows, Encode(v)) \/ ScanRows' = ScanRows
  <2>1. ~faulted /\ num_pages' = num_pages + 1 /\ num_pages \in 0 .. FilePages /\ total_rows \in Nat
    <3>1. ~faulted /\ num_pages' = num_pages + 1
      BY <1>2 DEF InsertInNewPage
    <3>2. num_pages \in 0 .. FilePages + 1 /\ total_rows \in 0 .. MaxRows
      BY DEF IInv, TypeOK
    <3>3. num_pages > 0 => num_pages <= FilePages
      BY <3>1 DEF IInv, PagesAreDense
    <3> QED
      BY <3>1, <3>2, <3>3, ColumnAssumption
  <2>2. CASE num_pages < FilePages
    <3>1. /\ mem' = [mem EXCEPT ![num_pages] = Store(ZeroPage, v)]
          /\ total_rows' = total_rows + 1
          /\ ~faulted'
      BY <1>2, <2>1, <2>2 DEF InsertInNewPage
    <3>2. num_pages > 0 => mem[num_pages - 1].num_items = PerPage(WriteWords)
      <4>1. num_pages > 0 => mem[num_pages - 1].num_items \in 0 .. PerPage(WriteWords)
        BY <2>1, ColumnAssumption DEF IInv, TypeOK, Pages
      <4>2. num_pages > 0 => mem[num_pages - 1].num_items >= PerPage(WriteWords)
        BY <1>2 DEF InsertInNewPage, LastHasRoom, Full
      <4> QED
        BY <4>1, <4>2, ItemsPerPage
    <3>3. PICK last \in Pages : last = num_pages
      BY <2>1, <2>2, ColumnAssumption DEF Pages
    <3>4. PICK n \in Nat : n = total_rows
      BY <2>1
    <3>5. n = last * PerPage(WriteWords) + ZeroPage.num_items
      BY <2>1, <3>2, <3>3, <3>4, ItemsPerPage, ZeroPageType DEF IInv, PagesAreDense
    <3>6. ZeroPage.num_items < PerPage(WriteWords) /\ ~(ZeroPage.num_items > 0)
      BY ItemsPerPage, ZeroPageType
    <3> HIDE DEF PageSet
    <3>7. ScanRows' = Append(ScanRows, Encode(v))
      BY <2>1, <3>1, <3>3, <3>4, <3>5, <3>6, ZeroPageType, InsertAppends
    <3> QED
      BY <3>7
  <2>3. CASE ~(num_pages < FilePages)
    <3>1. mem' = mem /\ total_rows' = total_rows
      BY <1>2, <2>3 DEF InsertInNewPage
    <3>2. PICK n \in Nat : n = total_rows
      BY <2>1
    <3>3. \A rid \in 0 .. n - 1 : FoundAt(rid)
      BY <2>1, <3>2, FastPathSuffices DEF FastPathFindsAll
    <3>4. ASSUME NEW rid \in 0 .. n - 1 PROVE read_at(rid)' = read_at(rid)
      <4>1. FastPage(rid)' = FastPage(rid)
        BY DEF FastPage
      <4>2. FastHit(rid) /\ FastPage(rid) \in Pages
        BY <3>3, ItemsPerPage DEF FoundAt, FastPage
      <4>3. FastHit(rid)'
        BY <2>1, <3>1, <4>1, <4>2, ColumnAssumption DEF FastHit, Pages
      <4>4. read_at(rid) = Slot(FastPage(rid), rid - FastPage(rid) * PerPage(ReadWords))
        BY <4>2 DEF read_at
      <4>5. read_at(rid)' = Slot(FastPage(rid), rid - FastPage(rid) * PerPage(ReadWords))'
        BY <4>3 DEF read_at
      <4> QED
        BY <4>1, <4>4, <4>5, <3>1 DEF Slot
    <3> QED
      BY <3>1, <3>2, <3>4 DEF ScanRows
  <2> QED
    BY <2>2, <2>3
<1>3. ASSUME total_rows' = 0 PROVE ScanRows' = <<>>
  BY <1>3 DEF ScanRows
<1>4. clear \/ Reopen => total_rows' = 0
  BY DEF clear, Reopen
<1>5. UNCHANGED vars => ScanRows' = ScanRows
  BY DEF vars, ScanRows, read_at, FastHit, FastPage, ScanHit, Slot, RowsBefore
<1> QED
  BY <1>1, <1>2, <1>3, <1>4, <1>5
  DEF Next, insert_fixed, Log!Next, Log!Append1, Log!Empty

\* For every page, item and file size, a column whose reader fetches items of
\* the stored size is the abstract sequence: every scan reads exactly the
\* inserted items in order, whatever clears and reopenings came before.
THEOREM ColumnRefinesLog ==
    ASSUME ReadWords = WriteWords
    PROVE  Spec => ImplementsLog
<1>1. Init => Log!Init
  BY DEF Init, Log!Init, ScanRows
<1>2. IInv /\ IInv' /\ [Next]_vars => [Log!Next]_ScanRows
  BY StepRefines
<1> QED
  BY <1>1, <1>2, Invariance, PTL DEF Spec, ImplementsLog, Log!Spec
=============================================================================

# A formal model of FlexQL

FlexQL is a small SQL server in C++. Clients send statements over TCP; a
thread pool runs one handler per connection; an executor keeps tables as
column files behind a memory map and a page cache, with a B+ tree on the
primary key. This directory holds TLA+ modules of those parts, TLC
configurations that check them on small instances, and TLAPS proofs about
five of them. Source paths are relative to the repository.

## The system and its modules

```
client library ── TCP ── accept loop ── thread pool ── handle_client ── parser ── executor
   Session                 Server        ThreadPool       Session       Parser    Database
                                                                                     │
                                               table: Database, Lookup, TableThreads ┤
                                                          │                          │
                                                   column: ColumnStore   index: BPTree, Lookup
                                                          └── page cache: PageCache
```

| Module | Code | State and steps |
|---|---|---|
| `ColumnStore` | `storage/column_store.cpp`, `column_reader.cpp`, `pager.cpp` | One column file: pages with a count and a body of words, `num_pages`, `active_page_`, `total_rows_`. Actions `insert_fixed`, `clear` and `Reopen` (destructor or crash, then constructor). `read_at` is an operator with its fast path and its linear scan, and so is the partition of `executor/parallel_scan.cpp`. |
| `PageCache` | `cache/lru_cache.cpp`, `cache_manager.cpp`, `pager.cpp` | The LRU list, its map, dirty flags, and the pages not yet synced. A thread takes one step per critical section of `cache_mutex` and two for `num_pages++`, which has no lock. |
| `ThreadPool` | `server/thread_pool.cpp` | Queue, `active_`, `stop_`, the program counters of workers, callers and the destructor. Notifications are steps of their own, since the code issues them after the unlock. Spurious wake-ups included. |
| `BPTree` | `index/bptree.cpp`, `index_manager.cpp` | The pages of the index, call by call. Descent, insertion, leaf split, root growth, and the case of a full root. |
| `Lookup` (extends `BPTree`) | `storage/table.cpp`, `index/bptree.cpp`, `executor/executor.cpp` | One thread inserts rows, another runs `SELECT … WHERE ID = k`. The writer does one store of an index page at a time, the reader one load. |
| `Parser` | `parser/parser.cpp`, `parser/ast.h` | `parse` as an operator from a sequence of words to a statement, with the branch for each kind and the final validation; and, as the reference, the ways in which a statement may be written. |
| `Database` (extends `Parser`) | `executor/executor.cpp`, `executor/hash_join.cpp`, `storage/table.cpp` | Named tables. The actions are statements, parsed from a text: `CREATE`, `INSERT` of several tuples, `DELETE`, and the `SELECT`s that end the process. `exec_select` is an operator that gives the set of possible outcomes: index lookup or scan, hash join, filter, `ORDER BY`, projection. |
| `TableThreads` | `storage/table.cpp` | `insert_row` of several threads on one table, a step per column. |
| `Session` | `client/flexql.cpp`, `server/server.cpp` (`handle_client`) | One connection, from the queue of the pool to its end: byte stream in both directions, finite socket buffers, clients that close or are killed, a server that crashes. |
| `Server` | `server/server.cpp` (`run`, `stop`) | Accept loop, `accept` that fails, the kernel's backlog, the pool's queue, `stop` from another thread. A worker's pop and the start of `handle_client` are one step (`Begin`). |

Three modules say what a component promises, and the detailed module is shown
to implement it: `ColumnLog` (a sequence with append and empty), `TaskQueue`
(a FIFO queue served by a limited number of threads) and `Tables` (what each
statement does to named sequences of rows). The components are put together through these promises.
In `Database` a column is the sequence of `ColumnLog`, and the index is the set
of pairs inserted, of which a search may return any with its key, or none,
which is what `SearchSound` allows. `ThreadPool` implements `TaskQueue`
(`ImplementsTaskQueue`) and `Server` uses the pool as a `TaskQueue`
(`ServerUsesPool`). `Lookup` puts `BPTree` and `Table::insert_row` together and
shows that the stores of an insertion add up to the step of `BPTree`
(`StoresReachTree`).

`MCPageCache` and `MCDatabase` add what only model checking needs: a history
variable and a symmetry set, and the statements. Definitions with an underscore
suffix such as `Full_OneEarly` are mutants: each is a plausible mistake in the
definition that follows it. They show that the property it is meant for would
notice the mistake.

### What is abstracted

Values are model values, small numbers or one of three texts. Columns of
`Database` are DECIMAL (INT is the same) or VARCHAR. A page body has words
rather than bytes, so that a reader and a writer with different item widths can
be expressed. A message on the wire is two halves. A page is full after a few
items, and a tree node after `Order` keys instead of 250.

`Parser` works on words and punctuation marks instead of characters. The text
is in capitals and on one line, blanks separate the words, and no value
contains a bracket or a comma. The code looks for its keywords with blanks
around them, so for such texts words are enough. Numbers and quoted texts are
tokens with a value given by `Numbers` and `Texts`; `stoll` throws on the rest.

## The runs

| Run | Instance | Shows |
|---|---|---|
| `ColumnStore` | two-item pages with a word left over, 3 pages, up to 7 inserts | `PagesAreDense`: all pages but the last are full and the row count is exact. `ParallelScanCovers`: the chunks of a parallel scan with any number of threads hold each row once, in order. `ImplementsLog`: a scan reads the items inserted since the last clear or open, in order. |
| `PageCache` | 2 threads, capacity 2, 3 pages | `ListAndMapAgree`, `WithinCapacity`, `DirtyLeavesSynced` under every interleaving. `QuietDirtyCovers` and `QuietNoNullPage` until operations overlap or the page being filled is evicted. |
| `ThreadPool` | 2 workers, 2 callers, 3 tasks | `ActiveCounts`, `NoLostWakeup`, `DestructorDrains`, `WaitAllWaits`, `ImplementsTaskQueue`; and, under fairness, `EveryTaskRuns`, `WaitAllReturns`, `DestructorReturns`. |
| `Lookup` | order 2, 5 keys, 6 rows in any order of IDs, 2 columns, one writer and one reader | `SearchSound` always; with distinct keys `FoundWhileReachable` and `ChainComplete`. `StoresReachTree`: the stores, done one by one, build that tree. `HitsAreRows`: whatever stores a search has raced with, a hit is a complete row, and with ascending IDs the right one. `InsertedRowsAreRead`: with ascending IDs a row whose `INSERT` had returned is found, once, by the index or by the scan that follows a miss. |
| `Database` | 2 tables, DECIMAL and VARCHAR columns, 2 rows, 38 `INSERT`s and 67 `SELECT`s, each in every spelling | `ParserReadsBack`: parsing gives back the statement. `ImplementsTables`: a statement that completes changes what full scans return exactly as its text means: an `INSERT` adds the rows of its tuples, in their order, a `DELETE` empties its table, and no other table changes. `SelectIsRelational`: a `SELECT` answers with the rows of the cross product that satisfy ON and WHERE, in the order of insertion or of `ORDER BY`, whichever way the executor takes. |
| `Session` | 3 calls of one statement, buffers of 3 halves, clients may be killed and the server may crash | `OwnReplies`, `OkMeansDone`, `ServerSurvives`; and, under fairness, `ExecReturns`: a call on a connection that has a worker returns, with an error if need be; only while it is still sending may the end of the server kill it instead. `HandlerReturns`: a handler whose client has gone closes the connection, as long as the process lives. |
| `Server` | 3 clients, 2 workers, backlog 2, `stop` at any time | `ServedInOrder` until the socket is closed: no connection is lost or overtaken on its way to a worker. `ServerUsesPool` always: each connection is submitted once. Under fairness `ServedIfClientsLeave`. |
| `ColumnStoreReopen` | as `ColumnStore`, without `clear` | **Violated.** Reopening a file forgets its rows: `Pager` starts with `num_pages = 0`. README.md:84 says "`msync(MS_SYNC)` on close for durability", and `tests/test_executor.cpp:48` relies on it. |
| `DatabaseStale` | 1 table, 2 rows | **Violated.** `Table::clear` leaves the index, so that after `DELETE` a lookup by ID returns a row that is not in the table. |
| `TableThreads` | 2 threads, 3 rows, 2 columns | **Violated.** `insert_row` takes no lock, so two threads append to the columns in different orders and rows are mixed. README.md:44 reports inserts by 8 threads, and `benchmarks/master_benchmark.cpp:113` has them insert into one table. |
| `SessionBatch` | 2 calls of up to 2 statements | **Violated.** `flexql_exec` returns at the first END and the server sends one per statement, so the next call reads the rest as its own answer. README.md:131 promises batches. |
| `ServerStop` | as `Server` | **Violated.** `run` sets `running_` after a `stop` has cleared it and goes round on the closed socket for ever. `include/server/server.h:28` says that `run` "runs the accept loop until stop() is called". |

The runs of `ColumnStore`, `PageCache`, `ThreadPool`, `Lookup` and `Database`
also check a type invariant; in `Lookup` it includes that no store or load is
outside a node.

### Bounds, and why they suffice

* `ColumnStore`: 2 items per page and 3 pages give an empty, a partly filled,
  a full and a last page, a page boundary between any two, and one insert past
  the mapping. The unused word at the end of a page is there because 4096 less
  the header is not a multiple of every item size.
* `PageCache`: 3 pages and capacity 2 force evictions of clean and dirty pages,
  and 2 threads are enough for any race between two calls.
* `ThreadPool`: with 2 workers and 3 tasks the queue can be non-empty while all
  workers are busy, and with 2 callers a submit races a `wait_all`.
* `Lookup`: with order 2 a leaf splits at its third key and the root is full
  after two more splits, so 6 rows pass through all outcomes of a split, with
  and without repeated IDs. `MaxMixed = 3` bounds the tables with IDs out of
  order that a `SELECT` may meet; tables with ascending IDs, and all insertions,
  are not bounded by it. `MaxMixed = 4` has been checked too (3.8 million
  states, six minutes).
* `Database`: one `INSERT` of 2 tuples fills a table; both tables can hold
  equal values, so the join meets repeated keys on both sides. The `SELECT`s
  have every operator, none to two conditions, joins with ON in the
  order of the tables and reversed, and both orders; each is asked in every
  state.
* `Session`: an answer has up to 4 halves and a buffer 3, so the server blocks
  in send; 3 calls cover a second call on a connection and one after reopening.
  One statement per call is a restriction, not a bound: what goes wrong with
  more is in `SessionBatch` and under "Behaviour worth knowing". A text that
  ends in `;` and a newline gets a second `;` and counts as two.
* `Server`: 3 clients on 2 workers make one wait.

The proofs below remove the bounds for `ColumnStore`, `PageCache`, `ThreadPool`,
`Server` and `Session`.

### Deadlock and fairness

Deadlock is checked in all passing runs but three. In `Session` nothing is left
to do when the server or the client is dead or the calls are used up, in `Server` when
`run` has returned and the clients are gone, and in `Lookup` when the rows are
used up and the table is one that no `SELECT` is to meet.

`ThreadPool` assumes weak fairness of each thread's own steps: the operating
system schedules runnable threads, no thread keeps `mu_` (its critical sections
contain no blocking call but the wait itself), and tasks return. It assumes
nothing about callers calling, about spurious wake-ups, or about which sleeping
worker `notify_one` picks. `Session` assumes that the client's thread inside
`flexql_exec` and the handler's thread are scheduled, but not that a queued
connection gets a worker: with other clients connected it may wait for ever,
and its client with it, so `ExecReturns` and `HandlerReturns` begin where
`handle_client` does. `Server` assumes the same for `run`, the pool and a `stop`
that has begun; nothing makes anybody call `stop`. That clients disconnect, and
that `accept` does not fail for ever, is not assumed: both are premises of
`ServedIfClientsLeave`, because `handle_client` holds its worker as long as the
connection is open.

## The proofs

All theorems hold for every value of the constants that the named assumptions
allow. Each rests on an inductive invariant `IInv`.

**`ColumnStoreProofs`** (from `ColumnAssumption`: an item is at least one word
and fits in a page). `IInv` is `TypeOK` and `PagesAreDense`. Density is
inductive with types but not without: that a page's count never exceeds what
fits is needed to know that a page that is not full has a free slot.
`PagesStayDense` follows. `ColumnRefinesLog` shows that a step of the
column is an append, an empty or a stutter of `ColumnLog`: by density the fast
path of `read_at` finds every row, a store touches only the words of its own
slot, and the words read back are the words stored. It assumes
`ReadWords = WriteWords`; the refinement is false otherwise.

**`PageCacheProofs`** (from `CacheAssumption`; any set of threads). `IInv` says
that list and map agree, that keys are distinct, that each entry and each
pointer about to be stored is the page of its key or null, and the thread
types. The last part is needed because a put happens in a different critical
section from the fetch. `ListAndMapStayInStep`, `CapacityRespected` and
`TypeCorrect` follow, and the action property `DirtyPagesLeaveSynced`. Lemmas
about removing from, and adding to, a sequence with distinct keys carry the
argument.

**`ThreadPoolProofs`** (from `PoolAssumption`: finitely many workers and
callers, at least one worker). `IInv` is `TypeOK`, `ActiveCounts`,
`NoLostWakeup` and three strengthenings: a task is in one place only (`Once`),
what a caller of `wait_all` waits for is queued, held or done (`SeenKnown`),
and what the destructor and exited workers imply (`Shutdown`).
`DestructorRunsAllTasks` needs the last, `WaitAllIsSound` the second,
`PoolRefinesQueue` the first. `WakeupsAreKept` is a counting argument: while a
worker sleeps, the queue is no longer than the workers about to test it plus
the submits about to notify.

**`ServerProofs`** (any clients, workers and backlog). `IInv` says that a
connection is in one place only: the kernel's queue, the hands of `run`, the
task queue or the list of those served; that each queue holds it once; and that
only `stop` closes the socket. `ConnectionsServedInOrder` adds that moving an
element over the border of two sequences does not change their concatenation.
`ServerRefinesQueue` needs the first part: the connection submitted is not yet
known to the pool.

**`SessionProofs`** (assuming `MaxBatch = 1`; any number of calls and any buffer
size; with two statements in a call the theorems are false, as `SessionBatch`
shows). `IInv` says that a connection is always in one of five phases: nothing
in flight; the statement of the current call on its way; its answer, or the END
that is left of it, on its way; the server has ended and less than a line has
arrived, whether the call failed or killed the client; the client has gone. In the second and third the accumulator, the
bytes in flight and what has still to be sent are, joined, exactly one message
or answer, wherever TCP has cut it. `AnswersAreOwn`, `OkIsFinal` and
`ClosingIsHarmless` follow.

`SequenceLemmas` holds the facts about queues and streams that the last two use.

Only model-checked: everything about `BPTree`, `Lookup`, `Parser`, `Database`
and `TableThreads`; `ParallelScanCovers`, which is a statement about a recursive
function; the `Quiet` properties of `PageCache`; and all liveness. The prover
does neither induction over data nor fairness.

## Behaviour worth knowing

The conditions in some properties mark where the code stops keeping them. Each
item can be seen by dropping the condition or changing the constant named.

* `allocate_page` compares nothing with the size of the mapping
  (`pager.cpp:77`): in the `ColumnStore` run the seventh row sets `faulted`. A
  column file has 262,144 pages, which is 8,126,464 texts of 128 bytes, while
  README.md:34 reports 10,000,000 rows.
* Once the root is full, the right half of the next leaf that splits gets no
  parent entry (`bptree.cpp:152`), and `search` no longer finds its keys: drop
  `Reachable = Pids` in `FoundWhileReachable`. With `BPT_ORDER` 250 and
  ascending keys that is after 31,376 keys. A `SELECT` then falls back to a
  scan (`InsertedRowsAreRead`).
* FLOAT items are stored with 4 bytes and read with 8 (`executor.cpp:87`):
  `ReadWords = 4` with `BodyWords = 5` violates `ImplementsLog`.
* A page evicted while `active_page_` points to it is written without being
  flagged dirty, and a late put of `get_page` clears a flag: drop `~spoiled` in
  `QuietDirtyCovers`. Racing `clear` and `allocate_page` give a null page: drop
  it in `QuietNoNullPage`.
* Tuples shorter than the table misalign its columns: an `INSERT` of one value
  in `MCDatabase` violates `ImplementsTables`.
* A token that is no number ends the process (`InsertDies`, `SelectDies`).
* A client that goes away while it is owed several answers ends the server with
  SIGPIPE, even between calls: `MaxBatch = 2`, `Aborting = FALSE` violates
  `ServerSurvives`.
* A client killed in a call, by a signal say, ends the server with SIGPIPE if
  the handler still has to send its answer: drop `aborted` in `ServerSurvives`.
  A client that goes on sending after the server has ended is killed in turn
  (`SendFails`).
* With long batches both ends block in send: `MaxBatch = 4`, `Capacity = 2`
  violates `ExecReturns`.
* `stop` does not end a `run` that is blocked in `accept` either, until one more
  connection comes.
* A `SELECT` that scans while a row is being inserted may return that row with
  garbage in its later columns: it counts rows by the first one. With IDs not in
  ascending order a hit may be another row than the one asked for, because keys
  and values of a leaf are shifted while it reads: drop `Ascending(cols[1])` in
  `HitsAreRows` or `InsertedRowsAreRead`.
* A column named in PRIMARY KEY has an index only if it is the first and is
  called ID; `WHERE ID = n` on a table without one dereferences a null pointer
  (`exec_select`).
* `DELETE` ignores its WHERE clause (`ParseDelete`).
* A WHERE condition on an unknown column, or with an operator other than `=`,
  `>` and `>=`, filters nothing; `INSERT` strips the quotes of a text and WHERE
  does not, so that a quoted text is never found (`Verdicts`).
* ON with the columns in the other order joins nothing (`join`); a column name
  that both tables have means the first (`ColumnIn`); `SELECT *` shows NULL
  (`Project`).
* `ORDER BY … DESC` gives `std::sort` a comparator that is no strict weak order
  when values repeat (`Sort`).

`Regular` and the premise of `SelectIsRelational` list these conditions for
`SELECT`.

## Not modelled

* FLOAT columns in `Database`, and joins on VARCHAR columns: both read items
  with a width they were not written with. `ColumnStore` has the widths.
* `insert_variable`, `LRUCache::exists` and `evict`, `Table::flush_all`,
  `BPTree::clear`: nothing calls them.
* Optimizer, column operations, serializer, batch buffer: built, but not called
  by the server, and without state.
* Terminal client and option parsing: I/O only.
* Sources the Makefile does not compile (`btree.cpp`, `row.cpp`, `schema.cpp`,
  `table_manager.cpp`, `tokenizer.cpp`, `real_scan.cpp`, `server/main.cpp`).
* Effects of a weak memory model: in `Lookup` stores and loads happen in program
  order, which the code, without atomics, does not force on the compiler, nor on
  processors such as the Apple Silicon of README.md:4.
* Two insertions into the index at a time, store by store, as in the benchmark
  with 8 inserting threads (README.md:45): already column by column they mix
  rows (`TableThreads`). `Lookup` is about one inserting connection.
* The callback's values and the error text of the client library.

## Plan

1. Proofs about `BPTree`: `SearchSound` and the type invariant for every order.
2. `HitsAreRows` for every order and number of columns, from an invariant about
   the prefix of stores that has been done.
3. Several connections on one pool, each with its own `Session`.

## Running

```
tlc -config ColumnStore.cfg ColumnStore
tlc -config PageCache.cfg MCPageCache
tlapm ThreadPoolProofs.tla
```

`PROJECT.json` lists the module and configuration of every run, the source
lines behind every definition, the mutants, the hazards and the theorems.

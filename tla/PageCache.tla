----------------------------- MODULE PageCache -----------------------------
(***************************************************************************)
(* The page cache of one file: LRUCache (a list of entries and a map, each *)
(* operation under cache_mutex), CacheManager on top of it, and the Pager  *)
(* below it.  Server threads share the cache: Executor::get_table drops    *)
(* its lock before the table is used, so ColumnStore, ColumnReader and     *)
(* BPTree call the CacheManager from several threads at once.              *)
(*                                                                         *)
(* One LRUCache operation is one atomic step.  CacheManager::get_page and  *)
(* mark_dirty are made of several, with the mutex released between them,   *)
(* and so are a step each.  The threads run the call sequences of the      *)
(* storage code: ColumnReader fetches a page; ColumnStore::insert_fixed    *)
(* fetches the last page or allocates one, writes through the pointer and  *)
(* marks the page dirty; the column is cleared; it is flushed.  The        *)
(* pointer a write goes through outlives the cache entry: insert_fixed     *)
(* keeps it in active_page_ between calls.  Whether a page is full is left *)
(* open here; ColumnStore models the fill.                                 *)
(*                                                                         *)
(* The pointer to page p is p itself, a null pointer is Null.  unsynced is *)
(* the set of pages written since their last msync.  num_pages is a plain  *)
(* integer without a lock: allocate_page reads it and stores it plus one,  *)
(* in two steps.                                                           *)
(***************************************************************************)
EXTENDS Integers, SequencesExt

CONSTANTS Threads,        \* server worker threads
          Capacity,       \* LRUCache::capacity
          MaxPages,       \* bound: pages a file grows to
          Clearing        \* whether the clients issue DELETE

ASSUME CacheAssumption ==
    Capacity \in Nat \ {0} /\ MaxPages \in Nat \ {0} /\ Clearing \in BOOLEAN

VARIABLES lru_list,       \* LRUCache::lru_list, most recently used first
          map,            \* the keys of LRUCache::map
          num_pages,      \* Pager::num_pages
          active,         \* ColumnStore::active_page_
          unsynced,       \* pages that differ from the file on disk
          pc,             \* what each thread does next
          use,            \* what it fetches a page for
          pid,            \* its page_id argument
          ptr             \* the Page* that pager.get_page gave it

vars == <<lru_list, map, num_pages, active, unsynced, pc, use, pid, ptr>>

Pages == 0 .. MaxPages - 1
Null == -1

\* get_page is called by a reader, or by insert_fixed for the last page, for
\* the page it allocates behind a full one, or for the first page of a file;
\* insert_fixed does not call it while the active page has room.
Uses == {"read", "active", "last", "next", "first"}

Entry(p, page, dirty) == [page_id |-> p, page |-> page, dirty |-> dirty]

-----------------------------------------------------------------------------
(* LRUCache *)

Ids(list) == {list[i].page_id : i \in 1 .. Len(list)}

Dirty(list) == {list[i].page_id : i \in {j \in 1 .. Len(list) : list[j].dirty}}

\* The list position that map[p] points to.
At(p) == CHOOSE i \in 1 .. Len(lru_list) : lru_list[i].page_id = p

\* splice of the entry of p to the front, after e was stored in it.
ToFront(p, e) == Cons(e, RemoveAt(lru_list, At(p)))

\* The page LRUCache::get returns.
Cached(p) == IF p \in map THEN lru_list[At(p)].page ELSE Null

get(p) ==
    /\ lru_list' = IF p \in map THEN ToFront(p, lru_list[At(p)]) ELSE lru_list
    /\ UNCHANGED <<map, unsynced>>

\* Mutant: the size test of put off by one.
AtCapacity_OneLate == Len(lru_list) > Capacity

AtCapacity == Len(lru_list) >= Capacity

\* Mutant: evict_internal leaves the key in the map.
EvictedKeys_None == {}

\* evict_internal: the key it erases, the page it writes back, what it leaves.
EvictedKeys == IF AtCapacity THEN {Last(lru_list).page_id} ELSE {}

\* Mutant: evict_internal drops a dirty page without flushing it.
EvictedSynced_None == {}

EvictedSynced == IF AtCapacity /\ Last(lru_list).dirty THEN {Last(lru_list).page_id} ELSE {}

Kept == IF AtCapacity THEN Front(lru_list) ELSE lru_list

put(p, page, dirty) ==
    \/ /\ p \in map
       /\ lru_list' = ToFront(p, Entry(p, page, dirty))
       /\ UNCHANGED <<map, unsynced>>
    \/ /\ p \notin map
       /\ lru_list' = Cons(Entry(p, page, dirty), Kept)
       /\ map' = (map \ EvictedKeys) \cup {p}
       /\ unsynced' = unsynced \ EvictedSynced

-----------------------------------------------------------------------------
(* Threads *)

Init ==
    /\ lru_list = <<>> /\ map = {}
    /\ num_pages = 0
    /\ active = Null
    /\ unsynced = {}
    /\ pc = [t \in Threads |-> "idle"]
    /\ use = [t \in Threads |-> "read"]
    /\ pid = [t \in Threads |-> 0]
    /\ ptr = [t \in Threads |-> 0]

Goto(t, from, to) == pc[t] = from /\ pc' = [pc EXCEPT ![t] = to]

\* A null pointer is dereferenced: the process dies.
Die == pc' = [t \in Threads |-> "dead"]

\* ColumnReader asks for a page that it has seen below num_pages.
Read(t, p) ==
    /\ Goto(t, "idle", "lookup")
    /\ p < num_pages
    /\ pid' = [pid EXCEPT ![t] = p]
    /\ use' = [use EXCEPT ![t] = "read"]
    /\ UNCHANGED <<lru_list, map, num_pages, active, unsynced, ptr>>

\* insert_fixed finds room in the active page, or asks for the last page.
InsertActive(t) ==
    /\ Goto(t, "idle", "write")
    /\ active # Null
    /\ use' = [use EXCEPT ![t] = "active"]
    /\ UNCHANGED <<lru_list, map, num_pages, active, unsynced, pid, ptr>>

InsertLast(t) ==
    /\ Goto(t, "idle", "lookup")
    /\ num_pages > 0
    /\ pid' = [pid EXCEPT ![t] = num_pages - 1]
    /\ use' = [use EXCEPT ![t] = "last"]
    /\ UNCHANGED <<lru_list, map, num_pages, active, unsynced, ptr>>

\* Pager::allocate_page, called when the last page turned out full or the
\* file has no page.
AllocateRead(t) ==
    /\ \/ /\ Goto(t, "write", "allocate")
          /\ use[t] = "last" /\ use' = [use EXCEPT ![t] = "next"]
       \/ /\ Goto(t, "idle", "allocate")
          /\ num_pages = 0 /\ use' = [use EXCEPT ![t] = "first"]
    /\ num_pages < MaxPages
    /\ pid' = [pid EXCEPT ![t] = num_pages]
    /\ UNCHANGED <<lru_list, map, num_pages, active, unsynced, ptr>>

\* Mutant: allocate_page returns the incremented counter.
AllocateWrite_PreIncrement(t) ==
    /\ Goto(t, "allocate", "lookup")
    /\ num_pages' = pid[t] + 1
    /\ pid' = [pid EXCEPT ![t] = @ + 1]
    /\ UNCHANGED <<lru_list, map, active, unsynced, use, ptr>>

AllocateWrite(t) ==
    /\ Goto(t, "allocate", "lookup")
    /\ num_pages' = pid[t] + 1
    /\ UNCHANGED <<lru_list, map, active, unsynced, use, pid, ptr>>

\* What the caller of get_page does with the pointer.  Only the insert into a
\* page behind a full one tests it; it then drops the row.
Return(t, page) ==
    \/ /\ page # Null /\ use[t] = "read"
       /\ pc' = [pc EXCEPT ![t] = "idle"]
       /\ UNCHANGED active
    \/ /\ page # Null /\ use[t] # "read"
       /\ pc' = [pc EXCEPT ![t] = "write"]
       /\ active' = page
    \/ /\ page = Null /\ use[t] = "next"
       /\ pc' = [pc EXCEPT ![t] = "idle"]
       /\ active' = Null
    \/ /\ page = Null /\ use[t] # "next"
       /\ Die
       /\ UNCHANGED active

\* CacheManager::get_page: cache.get; then, on a miss, pager.get_page and
\* cache.put.  An entry that holds a null page counts as a miss.
LookupHit(t) ==
    /\ pc[t] = "lookup"
    /\ Cached(pid[t]) # Null
    /\ get(pid[t])
    /\ Return(t, Cached(pid[t]))
    /\ UNCHANGED <<num_pages, use, pid, ptr>>

LookupMiss(t) ==
    /\ Goto(t, "lookup", "fetch")
    /\ Cached(pid[t]) = Null
    /\ get(pid[t])
    /\ UNCHANGED <<num_pages, active, use, pid, ptr>>

\* Mutant: Pager::get_page computes the address of the next page.
Fetch_NextPage(t) ==
    /\ Goto(t, "fetch", "put")
    /\ ptr' = [ptr EXCEPT ![t] = IF pid[t] < num_pages THEN pid[t] + 1 ELSE Null]
    /\ UNCHANGED <<lru_list, map, num_pages, active, unsynced, use, pid>>

Fetch(t) ==
    /\ Goto(t, "fetch", "put")
    /\ ptr' = [ptr EXCEPT ![t] = IF pid[t] < num_pages THEN pid[t] ELSE Null]
    /\ UNCHANGED <<lru_list, map, num_pages, active, unsynced, use, pid>>

PutFetched(t) ==
    /\ pc[t] = "put"
    /\ put(pid[t], ptr[t], FALSE)
    /\ Return(t, ptr[t])
    /\ ptr' = [ptr EXCEPT ![t] = 0]
    /\ UNCHANGED <<num_pages, use, pid>>

\* The write through active_page_, then mark_dirty: cache.get, and cache.put
\* with the dirty flag if there is a page (it is then pid itself).
Write(t) ==
    \/ /\ active # Null
       /\ Goto(t, "write", "mark")
       /\ unsynced' = unsynced \cup {active}
       /\ pid' = [pid EXCEPT ![t] = active]
       /\ UNCHANGED <<lru_list, map, num_pages, active, use, ptr>>
    \/ /\ active = Null
       /\ pc[t] = "write" /\ Die
       /\ UNCHANGED <<lru_list, map, num_pages, active, unsynced, use, pid, ptr>>

MarkLookup(t) ==
    /\ Goto(t, "mark", IF Cached(pid[t]) # Null THEN "markput" ELSE "idle")
    /\ get(pid[t])
    /\ UNCHANGED <<num_pages, active, use, pid, ptr>>

\* Mutant: mark_dirty stores the entry with the flag of get_page.
MarkPut_Clean(t) ==
    /\ Goto(t, "markput", "idle")
    /\ put(pid[t], pid[t], FALSE)
    /\ UNCHANGED <<num_pages, active, use, pid, ptr>>

MarkPut(t) ==
    /\ Goto(t, "markput", "idle")
    /\ put(pid[t], pid[t], TRUE)
    /\ UNCHANGED <<num_pages, active, use, pid, ptr>>

\* CacheManager::flush.
Flush(t) ==
    /\ pc[t] = "idle"
    /\ unsynced' = unsynced \ Dirty(lru_list)
    /\ lru_list' = [i \in DOMAIN lru_list |-> [lru_list[i] EXCEPT !.dirty = FALSE]]
    /\ UNCHANGED <<map, num_pages, active, pc, use, pid, ptr>>

\* ColumnStore::clear: forget active_page_, flush and empty the cache, then
\* reset the pager.
ClearCache(t) ==
    /\ Clearing
    /\ Goto(t, "idle", "clear")
    /\ active' = Null
    /\ unsynced' = unsynced \ Dirty(lru_list)
    /\ lru_list' = <<>>
    /\ map' = {}
    /\ UNCHANGED <<num_pages, use, pid, ptr>>

ClearPager(t) ==
    /\ Goto(t, "clear", "idle")
    /\ num_pages' = 0
    /\ UNCHANGED <<lru_list, map, active, unsynced, use, pid, ptr>>

\* The server is started again on the files of a dead one.
Restart ==
    /\ \A t \in Threads : pc[t] = "dead"
    /\ lru_list' = <<>> /\ map' = {}
    /\ num_pages' = 0
    /\ active' = Null
    /\ pc' = [t \in Threads |-> "idle"]
    /\ UNCHANGED <<unsynced, use, pid, ptr>>

ThreadStep(t) ==
    \/ \E p \in Pages : Read(t, p)
    \/ InsertActive(t) \/ InsertLast(t)
    \/ AllocateRead(t) \/ AllocateWrite(t)
    \/ LookupHit(t) \/ LookupMiss(t) \/ Fetch(t) \/ PutFetched(t)
    \/ Write(t) \/ MarkLookup(t) \/ MarkPut(t)
    \/ Flush(t)
    \/ ClearCache(t) \/ ClearPager(t)

Next == Restart \/ \E t \in Threads : ThreadStep(t)

Spec == Init /\ [][Next]_vars

-----------------------------------------------------------------------------
(* Properties *)

Entries == [page_id : Pages, page : Pages \cup {Null}, dirty : BOOLEAN]

\* Every variable has its type; the page of an entry, and the pointer that a
\* thread is about to put in the cache, is the page of its key or null.
TypeOK ==
    /\ lru_list \in Seq(Entries)
    /\ \A i \in 1 .. Len(lru_list) : lru_list[i].page \in {lru_list[i].page_id, Null}
    /\ map \subseteq Pages
    /\ num_pages \in 0 .. MaxPages
    /\ active \in Pages \cup {Null}
    /\ unsynced \subseteq Pages
    /\ pc \in [Threads -> {"idle", "lookup", "fetch", "put", "allocate", "write",
                            "mark", "markput", "clear", "dead"}]
    /\ use \in [Threads -> Uses]
    /\ pid \in [Threads -> Pages]
    /\ ptr \in [Threads -> Pages \cup {Null}]
    /\ \A t \in Threads : pc[t] = "put" => ptr[t] \in {pid[t], Null}

\* The map and the list of LRUCache hold the same keys and no key is twice in
\* the list, however the multi-step operations of threads interleave.
ListAndMapAgree ==
    /\ Ids(lru_list) = map
    /\ \A i, j \in 1 .. Len(lru_list) : lru_list[i].page_id = lru_list[j].page_id => i = j

\* The cache never exceeds its capacity.
WithinCapacity == Len(lru_list) <= Capacity

Leaves == \A p \in Dirty(lru_list) : p \notin map' => p \notin unsynced' \/ Restart

\* A page recorded as dirty leaves the cache (evict_internal, clear) only in a
\* step that writes it back, unless the process dies.  README.md:97: "Dirty
\* pages written via pager.flush() (msync) on eviction."
DirtyLeavesSynced == [][Leaves]_vars

Marking(p) == \E t \in Threads : pc[t] \in {"mark", "markput"} /\ pid[t] = p

\* Every page of the file with unwritten changes is dirty in the cache, or a
\* thread is about to mark it, so that evicting or flushing writes it back.
DirtyCoversUnsynced ==
    \A p \in unsynced : p < num_pages => p \in Dirty(lru_list) \/ Marking(p)

\* pager.get_page never gives a null pointer, which the callers of get_page
\* dereference without a test (column_store.cpp:25, column_reader.cpp:17).
NoNullPage == \A t \in Threads : ptr[t] # Null
=============================================================================

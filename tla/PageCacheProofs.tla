-------------------------- MODULE PageCacheProofs --------------------------
(***************************************************************************)
(* Proofs about PageCache for any number of threads, any capacity and any  *)
(* file size: the list and the map of the LRU cache agree, the capacity is *)
(* respected, and no page recorded as dirty leaves the cache unwritten.    *)
(***************************************************************************)
EXTENDS PageCache, SequenceTheorems, TLAPS

-----------------------------------------------------------------------------
(* The list operations *)

\* list::splice out of position i.
LEMMA RemoveAtForm ==
    ASSUME NEW S, NEW l \in Seq(S), NEW i \in 1 .. Len(l)
    PROVE  /\ RemoveAt(l, i) \in Seq(S)
           /\ Len(RemoveAt(l, i)) = Len(l) - 1
           /\ \A k \in 1 .. Len(l) - 1 : RemoveAt(l, i)[k] = IF k < i THEN l[k] ELSE l[k + 1]
<1> DEFINE a == SubSeq(l, 1, i - 1)
           b == SubSeq(l, i + 1, Len(l))
<1>1. a \in Seq(S) /\ Len(a) = i - 1 /\ \A k \in 1 .. i - 1 : a[k] = l[k]
  OBVIOUS
<1>2. b \in Seq(S) /\ Len(b) = Len(l) - i /\ \A k \in 1 .. Len(l) - i : b[k] = l[i + k]
  OBVIOUS
<1>3. /\ a \o b \in Seq(S)
      /\ Len(a \o b) = Len(l) - 1
      /\ \A k \in 1 .. Len(l) - 1 : (a \o b)[k] = IF k < i THEN a[k] ELSE b[k - (i - 1)]
  <2> HIDE DEF a, b
  <2>1. /\ a \o b \in Seq(S)
        /\ Len(a \o b) = Len(a) + Len(b)
        /\ \A k \in 1 .. Len(a) + Len(b) : (a \o b)[k] = IF k <= Len(a) THEN a[k] ELSE b[k - Len(a)]
    BY <1>1, <1>2, ConcatProperties
  <2>2. Len(a) + Len(b) = Len(l) - 1 /\ \A k \in 1 .. Len(l) - 1 : (k <= Len(a)) = (k < i)
    BY <1>1, <1>2
  <2> QED
    BY <1>1, <2>1, <2>2
<1>4. \A k \in 1 .. Len(l) - 1 : (a \o b)[k] = IF k < i THEN l[k] ELSE l[k + 1]
  <2> HIDE DEF a, b
  <2> TAKE k \in 1 .. Len(l) - 1
  <2>1. CASE k < i
    BY <2>1, <1>1, <1>3
  <2>2. CASE ~(k < i)
    <3>1. k - (i - 1) \in 1 .. Len(l) - i /\ i + (k - (i - 1)) = k + 1
      BY <2>2
    <3> QED
      BY <2>2, <3>1, <1>2, <1>3
  <2> QED
    BY <2>1, <2>2
<1> QED
  BY <1>3, <1>4 DEF RemoveAt

\* list::push_front.
LEMMA ConsForm ==
    ASSUME NEW S, NEW l \in Seq(S), NEW e \in S
    PROVE  /\ Cons(e, l) \in Seq(S)
           /\ Len(Cons(e, l)) = Len(l) + 1
           /\ Cons(e, l)[1] = e
           /\ \A k \in 2 .. Len(l) + 1 : Cons(e, l)[k] = l[k - 1]
  BY DEF Cons

\* list::pop_back.
LEMMA FrontForm ==
    ASSUME NEW S, NEW l \in Seq(S), Len(l) >= 1
    PROVE  /\ Front(l) \in Seq(S)
           /\ Len(Front(l)) = Len(l) - 1
           /\ \A k \in 1 .. Len(l) - 1 : Front(l)[k] = l[k]
<1> DEFINE n == Len(l) - 1
<1>1. n \in Nat /\ \A k \in 1 .. n : l[k] \in S
  OBVIOUS
<1>2. /\ SubSeq(l, 1, n) \in Seq(S)
      /\ Len(SubSeq(l, 1, n)) = n
      /\ \A k \in 1 .. n : SubSeq(l, 1, n)[k] = l[k]
  <2> HIDE DEF n
  <2> QED
    BY <1>1, SubSeqProperties
<1> QED
  BY <1>2 DEF Front

-----------------------------------------------------------------------------
(* Lists that agree with a set of keys *)

Distinct(l) == \A i, j \in 1 .. Len(l) : l[i].page_id = l[j].page_id => i = j

Home(l) == \A i \in 1 .. Len(l) : l[i].page \in {l[i].page_id, Null}

Agrees(l, keys) == l \in Seq(Entries) /\ Home(l) /\ Distinct(l) /\ Ids(l) = keys

\* Taking an entry out takes its key out.
LEMMA RemoveAgrees ==
    ASSUME NEW l, NEW keys, Agrees(l, keys), NEW i \in 1 .. Len(l)
    PROVE  /\ Agrees(RemoveAt(l, i), keys \ {l[i].page_id})
           /\ Len(RemoveAt(l, i)) = Len(l) - 1
<1> DEFINE r == RemoveAt(l, i)
<1>1. l \in Seq(Entries) /\ Home(l) /\ Distinct(l) /\ Ids(l) = keys
  BY DEF Agrees
<1>2. /\ r \in Seq(Entries)
      /\ Len(r) = Len(l) - 1
      /\ \A k \in 1 .. Len(l) - 1 : r[k] = IF k < i THEN l[k] ELSE l[k + 1]
  BY <1>1, RemoveAtForm
<1> HIDE DEF r
<1>3. Home(r)
  BY <1>1, <1>2 DEF Home
<1>4. Distinct(r)
  BY <1>1, <1>2, SMTT(60) DEF Distinct
<1>5. Ids(r) = keys \ {l[i].page_id}
  <2>1. ASSUME NEW k \in 1 .. Len(r) PROVE r[k].page_id \in keys /\ r[k].page_id # l[i].page_id
    <3>1. PICK j \in 1 .. Len(l) : r[k] = l[j] /\ j # i
      BY <1>1, <1>2
    <3> QED
      BY <3>1, <1>1 DEF Distinct, Ids
  <2>2. ASSUME NEW q \in keys, q # l[i].page_id PROVE \E k \in 1 .. Len(r) : r[k].page_id = q
    <3>1. PICK j \in 1 .. Len(l) : l[j].page_id = q
      BY <1>1 DEF Ids
    <3>2. CASE j < i
      BY <3>1, <3>2, <1>1, <1>2
    <3>3. CASE j > i
      <4>1. j - 1 \in 1 .. Len(r) /\ r[j - 1] = l[j]
        BY <3>3, <1>1, <1>2
      <4> QED
        BY <4>1, <3>1
    <3> QED
      BY <3>1, <3>2, <3>3, <2>2, <1>1
  <2> QED
    BY <2>1, <2>2 DEF Ids
<1> QED
  BY <1>2, <1>3, <1>4, <1>5 DEF Agrees, r

\* Putting an entry with a new key in front adds its key.
LEMMA ConsAgrees ==
    ASSUME NEW l, NEW keys, Agrees(l, keys),
           NEW e \in Entries, e.page_id \notin keys, e.page \in {e.page_id, Null}
    PROVE  /\ Agrees(Cons(e, l), keys \cup {e.page_id})
           /\ Len(Cons(e, l)) = Len(l) + 1
<1> DEFINE r == Cons(e, l)
<1>1. l \in Seq(Entries) /\ Home(l) /\ Distinct(l) /\ Ids(l) = keys
  BY DEF Agrees
<1>2. /\ r \in Seq(Entries)
      /\ Len(r) = Len(l) + 1
      /\ r[1] = e
      /\ \A k \in 2 .. Len(l) + 1 : r[k] = l[k - 1]
  BY <1>1, ConsForm
<1> HIDE DEF r
<1>3. \A k \in 2 .. Len(r) : k - 1 \in 1 .. Len(l) /\ r[k] = l[k - 1] /\ r[k].page_id \in keys
  BY <1>1, <1>2 DEF Ids
<1>4. Home(r)
  BY <1>1, <1>2, <1>3 DEF Home
<1>5. Distinct(r)
  <2> SUFFICES ASSUME NEW i \in 1 .. Len(r), NEW j \in 1 .. Len(r), r[i].page_id = r[j].page_id
               PROVE  i = j
    BY DEF Distinct
  <2>1. CASE i = 1 /\ j # 1
    BY <2>1, <1>1, <1>2, <1>3
  <2>2. CASE i # 1 /\ j = 1
    BY <2>2, <1>1, <1>2, <1>3
  <2>3. CASE i # 1 /\ j # 1
    <3>1. i \in 2 .. Len(r) /\ j \in 2 .. Len(r)
      BY <2>3, <1>1, <1>2
    <3>2. i - 1 = j - 1
      BY <3>1, <1>1, <1>3 DEF Distinct
    <3> QED
      BY <3>1, <3>2
  <2> QED
    BY <2>1, <2>2, <2>3
<1>6. Ids(r) = keys \cup {e.page_id}
  <2>1. ASSUME NEW k \in 1 .. Len(r) PROVE r[k].page_id \in keys \cup {e.page_id}
    BY <1>1, <1>2, <1>3
  <2>2. ASSUME NEW q \in keys PROVE \E k \in 1 .. Len(r) : r[k].page_id = q
    <3>1. PICK j \in 1 .. Len(l) : l[j].page_id = q
      BY <1>1 DEF Ids
    <3>2. j + 1 \in 2 .. Len(l) + 1 /\ (j + 1) - 1 = j /\ j + 1 \in 1 .. Len(r)
      BY <1>1, <1>2
    <3>3. r[j + 1] = l[j]
      BY <3>2, <1>2
    <3> QED
      BY <3>1, <3>2, <3>3
  <2>3. 1 \in 1 .. Len(r) /\ r[1].page_id = e.page_id
    BY <1>1, <1>2
  <2> QED
    BY <2>1, <2>2, <2>3 DEF Ids
<1> QED
  BY <1>2, <1>4, <1>5, <1>6 DEF Agrees, r

\* Dropping the last entry drops its key.
LEMMA FrontAgrees ==
    ASSUME NEW l, NEW keys, Agrees(l, keys), Len(l) >= 1
    PROVE  /\ Agrees(Front(l), keys \ {Last(l).page_id})
           /\ Len(Front(l)) = Len(l) - 1
           /\ Last(l).page_id \in keys
<1>1. l \in Seq(Entries) /\ Ids(l) = keys
  BY DEF Agrees
<1> DEFINE r == RemoveAt(l, Len(l))
<1>2. Len(l) \in 1 .. Len(l)
  BY <1>1
<1>3. /\ r \in Seq(Entries)
      /\ Len(r) = Len(l) - 1
      /\ \A k \in 1 .. Len(l) - 1 : r[k] = l[k]
  <2>1. /\ r \in Seq(Entries)
        /\ Len(r) = Len(l) - 1
        /\ \A k \in 1 .. Len(l) - 1 : r[k] = IF k < Len(l) THEN l[k] ELSE l[k + 1]
    BY <1>1, <1>2, RemoveAtForm
  <2>2. \A k \in 1 .. Len(l) - 1 : k < Len(l)
    BY <1>1
  <2> QED
    BY <2>1, <2>2
<1>4. /\ Front(l) \in Seq(Entries)
      /\ Len(Front(l)) = Len(l) - 1
      /\ \A k \in 1 .. Len(l) - 1 : Front(l)[k] = l[k]
  BY <1>1, FrontForm
<1>5. Front(l) = r
  BY <1>3, <1>4, SeqEqual
<1> QED
  BY <1>1, <1>2, <1>4, <1>5, RemoveAgrees DEF Last, Ids

-----------------------------------------------------------------------------
(* The inductive invariant: what cache_mutex protects, and the threads *)

CacheInv ==
    /\ Agrees(lru_list, map)
    /\ Len(lru_list) <= Capacity
    /\ map \subseteq Pages
    /\ unsynced \subseteq Pages

ThreadInv ==
    /\ num_pages \in 0 .. MaxPages
    /\ active \in Pages \cup {Null}
    /\ pc \in [Threads -> {"idle", "lookup", "fetch", "put", "allocate", "write",
                            "mark", "markput", "clear", "dead"}]
    /\ use \in [Threads -> Uses]
    /\ pid \in [Threads -> Pages]
    /\ ptr \in [Threads -> Pages \cup {Null}]
    /\ \A t \in Threads : pc[t] = "put" => ptr[t] \in {pid[t], Null}

IInv == CacheInv /\ ThreadInv

\* The inductive invariant contains the invariants the runs check.
LEMMA IInvImplies == IInv => TypeOK /\ ListAndMapAgree /\ WithinCapacity
  BY DEF IInv, CacheInv, ThreadInv, Agrees, Home, Distinct, TypeOK, ListAndMapAgree, WithinCapacity

\* map[p] points to the entry of p.
LEMMA AtFinds ==
    ASSUME CacheInv, NEW p \in map
    PROVE  At(p) \in 1 .. Len(lru_list) /\ lru_list[At(p)].page_id = p
<1>1. \E i \in 1 .. Len(lru_list) : lru_list[i].page_id = p
  BY DEF CacheInv, Agrees, Ids
<1> QED
  BY <1>1 DEF At

\* Moving the entry of p to the front, with whatever is stored in it, keeps
\* the keys and the length.
LEMMA ToFrontAgrees ==
    ASSUME CacheInv, NEW p \in map,
           NEW e \in Entries, e.page_id = p, e.page \in {p, Null}
    PROVE  Agrees(ToFront(p, e), map) /\ Len(ToFront(p, e)) = Len(lru_list)
<1> DEFINE i == At(p)
           r == RemoveAt(lru_list, i)
<1>1. i \in 1 .. Len(lru_list) /\ lru_list[i].page_id = p
  BY AtFinds
<1>2. Agrees(lru_list, map) /\ Len(lru_list) \in Nat
  BY DEF CacheInv, Agrees
<1> HIDE DEF i
<1>3. Agrees(r, map \ {p}) /\ Len(r) = Len(lru_list) - 1
  BY <1>1, <1>2, RemoveAgrees
<1> HIDE DEF r
<1>4. Agrees(Cons(e, r), (map \ {p}) \cup {e.page_id}) /\ Len(Cons(e, r)) = Len(r) + 1
  <2>1. e.page_id \notin map \ {p} /\ e.page \in {e.page_id, Null}
    OBVIOUS
  <2> QED
    BY <1>3, <2>1, ConsAgrees
<1>5. (map \ {p}) \cup {e.page_id} = map
  OBVIOUS
<1>6. ToFront(p, e) = Cons(e, r)
  BY DEF ToFront, r, i
<1>7. Len(r) + 1 = Len(lru_list)
  BY <1>2, <1>3
<1> QED
  BY <1>4, <1>5, <1>6, <1>7

\* LRUCache::get only reorders the list.
LEMMA GetKeeps ==
    ASSUME CacheInv, NEW p \in Pages, get(p)
    PROVE  CacheInv'
<1>1. map' = map /\ unsynced' = unsynced
  BY DEF get
<1>2. CASE p \in map
  <2>1. lru_list' = ToFront(p, lru_list[At(p)])
    BY <1>2 DEF get
  <2>2. /\ lru_list[At(p)] \in Entries
        /\ lru_list[At(p)].page_id = p
        /\ lru_list[At(p)].page \in {p, Null}
    BY <1>2, AtFinds DEF CacheInv, Agrees, Home
  <2>3. Agrees(lru_list', map) /\ Len(lru_list') = Len(lru_list)
    BY <1>2, <2>1, <2>2, ToFrontAgrees
  <2> QED
    BY <1>1, <2>3 DEF CacheInv
<1>3. CASE p \notin map
  BY <1>1, <1>3 DEF get, CacheInv
<1> QED
  BY <1>2, <1>3

\* LRUCache::put keeps list, map and capacity in step, evicting or not.
LEMMA PutKeeps ==
    ASSUME CacheInv, NEW p \in Pages, NEW page \in {p, Null}, NEW d \in BOOLEAN, put(p, page, d)
    PROVE  CacheInv'
<1> DEFINE e == Entry(p, page, d)
<1>1. e \in Entries /\ e.page_id = p /\ e.page \in {p, Null}
  BY DEF Entry, Entries
<1>2. /\ Agrees(lru_list, map) /\ Len(lru_list) \in Nat /\ Len(lru_list) <= Capacity
      /\ map \subseteq Pages /\ unsynced \subseteq Pages
      /\ Capacity \in Nat /\ Capacity >= 1
  BY CacheAssumption DEF CacheInv, Agrees
<1> HIDE DEF e
<1>3. CASE p \in map
  <2>1. lru_list' = ToFront(p, e) /\ map' = map /\ unsynced' = unsynced
    BY <1>3 DEF put, e
  <2> QED
    BY <1>1, <1>2, <1>3, <2>1, ToFrontAgrees DEF CacheInv
<1>4. CASE p \notin map
  <2>1. /\ lru_list' = Cons(e, Kept)
        /\ map' = (map \ EvictedKeys) \cup {p}
        /\ unsynced' = unsynced \ EvictedSynced
    BY <1>4 DEF put, e
  <2>2. Agrees(Kept, map \ EvictedKeys) /\ Len(Kept) + 1 <= Capacity
    <3>1. CASE AtCapacity
      <4>1. Len(lru_list) >= 1 /\ Len(lru_list) = Capacity
        BY <3>1, <1>2 DEF AtCapacity
      <4>2. Kept = Front(lru_list) /\ EvictedKeys = {Last(lru_list).page_id}
        BY <3>1 DEF Kept, EvictedKeys
      <4>3. Agrees(Front(lru_list), map \ {Last(lru_list).page_id}) /\ Len(Front(lru_list)) = Len(lru_list) - 1
        BY <1>2, <4>1, FrontAgrees
      <4> QED
        BY <1>2, <4>1, <4>2, <4>3
    <3>2. CASE ~AtCapacity
      <4>1. Kept = lru_list /\ EvictedKeys = {} /\ Len(lru_list) < Capacity
        BY <3>2, <1>2 DEF AtCapacity, Kept, EvictedKeys
      <4>2. map \ EvictedKeys = map
        BY <4>1
      <4> QED
        BY <1>2, <4>1, <4>2
    <3> QED
      BY <3>1, <3>2
  <2>3. Agrees(Cons(e, Kept), (map \ EvictedKeys) \cup {p}) /\ Len(Cons(e, Kept)) = Len(Kept) + 1
    BY <1>1, <1>4, <2>2, ConsAgrees
  <2> QED
    BY <1>2, <2>1, <2>2, <2>3 DEF CacheInv
<1> QED
  BY <1>3, <1>4

\* An empty cache satisfies the invariant.
LEMMA InitInv == Init => IInv
<1> SUFFICES ASSUME Init PROVE IInv
  OBVIOUS
<1> USE CacheAssumption
<1>1. CacheInv
  BY DEF Init, CacheInv, Agrees, Home, Distinct, Ids
<1>2. ThreadInv
  BY DEF Init, ThreadInv, Uses, Pages, Null
<1> QED
  BY <1>1, <1>2 DEF IInv

\* The steps that leave the cache alone.
LEMMA CacheUnchanged ==
    ASSUME CacheInv, UNCHANGED <<lru_list, map>>, unsynced' \in SUBSET Pages
    PROVE  CacheInv'
  BY DEF CacheInv

\* Emptying the cache.
LEMMA EmptyCache ==
    ASSUME CacheInv, lru_list' = <<>>, map' = {}, unsynced' \subseteq unsynced
    PROVE  CacheInv'
<1>1. Agrees(<<>>, {})
  BY DEF Agrees, Home, Distinct, Ids
<1>2. Len(<<>>) <= Capacity
  BY CacheAssumption
<1> QED
  BY <1>1, <1>2 DEF CacheInv

\* flush_all clears every dirty flag and touches nothing else.
LEMMA FlushKeeps ==
    ASSUME CacheInv, NEW t \in Threads, Flush(t)
    PROVE  CacheInv'
<1>1. /\ lru_list' = [i \in DOMAIN lru_list |-> [lru_list[i] EXCEPT !.dirty = FALSE]]
      /\ map' = map /\ unsynced' \subseteq unsynced
  BY DEF Flush
<1>2. lru_list \in Seq(Entries) /\ Home(lru_list) /\ Distinct(lru_list) /\ Ids(lru_list) = map
  BY DEF CacheInv, Agrees
<1>3. /\ Len(lru_list) \in Nat
      /\ DOMAIN lru_list = 1 .. Len(lru_list)
      /\ \A i \in 1 .. Len(lru_list) : lru_list[i] \in Entries
  BY <1>2
<1>4. \A i \in 1 .. Len(lru_list) :
         /\ lru_list'[i] \in Entries
         /\ lru_list'[i].page_id = lru_list[i].page_id
         /\ lru_list'[i].page = lru_list[i].page
  BY <1>1, <1>3 DEF Entries
<1>5. lru_list' \in Seq(Entries) /\ Len(lru_list') = Len(lru_list)
  <2>1. lru_list' = [i \in 1 .. Len(lru_list) |-> lru_list'[i]]
    BY <1>1, <1>3
  <2>2. lru_list' \in [1 .. Len(lru_list) -> Entries]
    BY <1>4, <2>1
  <2> QED
    BY <1>3, <2>2
<1>6. Home(lru_list') /\ Distinct(lru_list') /\ Ids(lru_list') = map
  BY <1>2, <1>4, <1>5 DEF Home, Distinct, Ids
<1> QED
  BY <1>1, <1>5, <1>6 DEF CacheInv, Agrees

\* What the caller of get_page does keeps the thread state well formed.
LEMMA ReturnKeeps ==
    ASSUME ThreadInv, NEW t \in Threads, NEW page \in {pid[t], Null}, Return(t, page),
           UNCHANGED <<num_pages, use, pid>>,
           ptr' = ptr \/ ptr' = [ptr EXCEPT ![t] = 0]
    PROVE  ThreadInv'
<1>1. active' \in Pages \cup {Null}
  BY DEF Return, ThreadInv
<1>2. pc' \in [Threads -> {"idle", "lookup", "fetch", "put", "allocate", "write",
                           "mark", "markput", "clear", "dead"}]
  BY DEF Return, ThreadInv, Die
<1>3. ptr' \in [Threads -> Pages \cup {Null}]
  BY CacheAssumption DEF ThreadInv, Pages
<1>4. \A u \in Threads : pc'[u] = "put" => u # t /\ pc[u] = "put"
  BY DEF Return, ThreadInv, Die
<1>5. \A u \in Threads : u # t => ptr'[u] = ptr[u]
  BY DEF ThreadInv
<1> QED
  BY <1>1, <1>2, <1>3, <1>4, <1>5 DEF ThreadInv

\* A lookup returns the page asked for, or null.
LEMMA CachedIsHome ==
    ASSUME CacheInv, NEW p
    PROVE  Cached(p) \in {p, Null}
<1>1. CASE p \in map
  BY <1>1, AtFinds DEF Cached, CacheInv, Agrees, Home
<1>2. CASE p \notin map
  BY <1>2 DEF Cached
<1> QED
  BY <1>1, <1>2

\* Every step of a thread keeps the invariant.
LEMMA ThreadStepInv ==
    ASSUME IInv, NEW t \in Threads, ThreadStep(t)
    PROVE  IInv'
<1> USE CacheAssumption
<1>0. CacheInv /\ ThreadInv /\ unsynced \in SUBSET Pages
  BY DEF IInv, CacheInv
<1>1. ASSUME NEW p \in Pages, Read(t, p) PROVE IInv'
  <2>1. CacheInv'
    BY <1>0, <1>1, CacheUnchanged DEF Read
  <2>2. ThreadInv'
    BY <1>0, <1>1 DEF Read, Goto, ThreadInv, Uses
  <2> QED
    BY <2>1, <2>2 DEF IInv
<1>2. ASSUME InsertActive(t) PROVE IInv'
  <2>1. CacheInv'
    BY <1>0, <1>2, CacheUnchanged DEF InsertActive
  <2>2. ThreadInv'
    BY <1>0, <1>2 DEF InsertActive, Goto, ThreadInv, Uses
  <2> QED
    BY <2>1, <2>2 DEF IInv
<1>3. ASSUME InsertLast(t) PROVE IInv'
  <2>1. CacheInv'
    BY <1>0, <1>3, CacheUnchanged DEF InsertLast
  <2>2. num_pages - 1 \in Pages
    BY <1>0, <1>3 DEF InsertLast, ThreadInv, Pages
  <2>3. ThreadInv'
    BY <1>0, <1>3, <2>2 DEF InsertLast, Goto, ThreadInv, Uses
  <2> QED
    BY <2>1, <2>3 DEF IInv
<1>4. ASSUME AllocateRead(t) PROVE IInv'
  <2>1. CacheInv'
    BY <1>0, <1>4, CacheUnchanged DEF AllocateRead
  <2>2. num_pages \in Pages
    BY <1>0, <1>4 DEF AllocateRead, ThreadInv, Pages
  <2>3. ThreadInv'
    BY <1>0, <1>4, <2>2 DEF AllocateRead, Goto, ThreadInv, Uses
  <2> QED
    BY <2>1, <2>3 DEF IInv
<1>5. ASSUME AllocateWrite(t) PROVE IInv'
  <2>1. CacheInv'
    BY <1>0, <1>5, CacheUnchanged DEF AllocateWrite
  <2>2. pid[t] + 1 \in 0 .. MaxPages
    BY <1>0 DEF ThreadInv, Pages
  <2>3. ThreadInv'
    BY <1>0, <1>5, <2>2 DEF AllocateWrite, Goto, ThreadInv
  <2> QED
    BY <2>1, <2>3 DEF IInv
<1>6. ASSUME LookupHit(t) PROVE IInv'
  <2>1. pid[t] \in Pages
    BY <1>0 DEF ThreadInv
  <2>2. CacheInv'
    BY <1>0, <1>6, <2>1, GetKeeps DEF LookupHit
  <2>3. Cached(pid[t]) \in {pid[t], Null}
    BY <1>0, CachedIsHome
  <2>4. ThreadInv'
    BY <1>0, <1>6, <2>3, ReturnKeeps DEF LookupHit
  <2> QED
    BY <2>2, <2>4 DEF IInv
<1>7. ASSUME LookupMiss(t) PROVE IInv'
  <2>1. pid[t] \in Pages
    BY <1>0 DEF ThreadInv
  <2>2. CacheInv'
    BY <1>0, <1>7, <2>1, GetKeeps DEF LookupMiss
  <2>3. ThreadInv'
    BY <1>0, <1>7 DEF LookupMiss, Goto, ThreadInv
  <2> QED
    BY <2>2, <2>3 DEF IInv
<1>8. ASSUME Fetch(t) PROVE IInv'
  <2>1. CacheInv'
    BY <1>0, <1>8, CacheUnchanged DEF Fetch
  <2>2. ThreadInv'
    BY <1>0, <1>8 DEF Fetch, Goto, ThreadInv
  <2> QED
    BY <2>1, <2>2 DEF IInv
<1>9. ASSUME PutFetched(t) PROVE IInv'
  <2>1. pid[t] \in Pages /\ ptr[t] \in {pid[t], Null}
    BY <1>0, <1>9 DEF ThreadInv, PutFetched
  <2>2. CacheInv'
    BY <1>0, <1>9, <2>1, PutKeeps DEF PutFetched
  <2>3. ThreadInv'
    BY <1>0, <1>9, <2>1, ReturnKeeps DEF PutFetched
  <2> QED
    BY <2>2, <2>3 DEF IInv
<1>10. ASSUME Write(t) PROVE IInv'
  <2>1. unsynced' \in SUBSET Pages
    BY <1>0, <1>10 DEF Write, ThreadInv
  <2>2. CacheInv'
    BY <1>0, <1>10, <2>1, CacheUnchanged DEF Write
  <2>3. ThreadInv'
    BY <1>0, <1>10 DEF Write, Goto, Die, ThreadInv
  <2> QED
    BY <2>2, <2>3 DEF IInv
<1>11. ASSUME MarkLookup(t) PROVE IInv'
  <2>1. pid[t] \in Pages
    BY <1>0 DEF ThreadInv
  <2>2. CacheInv'
    BY <1>0, <1>11, <2>1, GetKeeps DEF MarkLookup
  <2>3. ThreadInv'
    BY <1>0, <1>11 DEF MarkLookup, Goto, ThreadInv
  <2> QED
    BY <2>2, <2>3 DEF IInv
<1>12. ASSUME MarkPut(t) PROVE IInv'
  <2>1. pid[t] \in Pages /\ pid[t] \in {pid[t], Null} /\ TRUE \in BOOLEAN
    BY <1>0 DEF ThreadInv
  <2>2. CacheInv'
    BY <1>0, <1>12, <2>1, PutKeeps DEF MarkPut
  <2>3. ThreadInv'
    BY <1>0, <1>12 DEF MarkPut, Goto, ThreadInv
  <2> QED
    BY <2>2, <2>3 DEF IInv
<1>13. ASSUME Flush(t) PROVE IInv'
  <2>1. CacheInv'
    BY <1>0, <1>13, FlushKeeps
  <2>2. ThreadInv'
    BY <1>0, <1>13 DEF Flush, ThreadInv
  <2> QED
    BY <2>1, <2>2 DEF IInv
<1>14. ASSUME ClearCache(t) PROVE IInv'
  <2>1. CacheInv'
    BY <1>0, <1>14, EmptyCache DEF ClearCache
  <2>2. ThreadInv'
    BY <1>0, <1>14 DEF ClearCache, Goto, ThreadInv
  <2> QED
    BY <2>1, <2>2 DEF IInv
<1>15. ASSUME ClearPager(t) PROVE IInv'
  <2>1. CacheInv'
    BY <1>0, <1>15, CacheUnchanged DEF ClearPager
  <2>2. ThreadInv'
    BY <1>0, <1>15 DEF ClearPager, Goto, ThreadInv
  <2> QED
    BY <2>1, <2>2 DEF IInv
<1> QED
  BY <1>1, <1>2, <1>3, <1>4, <1>5, <1>6, <1>7, <1>8, <1>9, <1>10, <1>11, <1>12,
     <1>13, <1>14, <1>15 DEF ThreadStep

\* Every step of any thread, and a restart, keeps the invariant.
LEMMA StepInv == IInv /\ [Next]_vars => IInv'
<1> SUFFICES ASSUME IInv, [Next]_vars PROVE IInv'
  OBVIOUS
<1>0. CacheInv /\ ThreadInv
  BY DEF IInv
<1>1. ASSUME Restart PROVE IInv'
  <2>1. CacheInv'
    BY <1>0, <1>1, EmptyCache DEF Restart
  <2>2. ThreadInv'
    BY <1>0, <1>1, CacheAssumption DEF Restart, ThreadInv
  <2> QED
    BY <2>1, <2>2 DEF IInv
<1>2. ASSUME NEW t \in Threads, ThreadStep(t) PROVE IInv'
  BY <1>2, ThreadStepInv
<1>3. ASSUME UNCHANGED vars PROVE IInv'
  BY <1>0, <1>3 DEF vars, IInv, CacheInv, ThreadInv
<1> QED
  BY <1>1, <1>2, <1>3 DEF Next

\* The inductive invariant holds of every behaviour of the threads.
THEOREM Invariance == Spec => []IInv
  BY InitInv, StepInv, PTL DEF Spec

\* Type correctness, for any threads, capacity and file size.
THEOREM TypeCorrect == Spec => []TypeOK
  BY Invariance, IInvImplies, PTL

\* The list and the map of LRUCache hold the same keys, each once, under every
\* interleaving of the CacheManager calls.
THEOREM ListAndMapStayInStep == Spec => []ListAndMapAgree
  BY Invariance, IInvImplies, PTL

\* LRUCache::put never lets the list outgrow its capacity.
THEOREM CapacityRespected == Spec => []WithinCapacity
  BY Invariance, IInvImplies, PTL

-----------------------------------------------------------------------------
(* Dirty pages leave the cache only when they are written *)

\* evict_internal writes the page back if its entry, the last of the list, is
\* dirty; no other entry can hold the same page.
LEMMA PutWritesBack ==
    ASSUME CacheInv, NEW p, NEW page, NEW d, put(p, page, d)
    PROVE  \A q \in Dirty(lru_list) : q \notin map' => q \notin unsynced'
<1> SUFFICES ASSUME NEW q \in Dirty(lru_list), q \notin map' PROVE q \notin unsynced'
  OBVIOUS
<1>1. lru_list \in Seq(Entries) /\ Distinct(lru_list) /\ Ids(lru_list) = map
  BY DEF CacheInv, Agrees
<1>2. PICK i \in 1 .. Len(lru_list) : lru_list[i].dirty /\ q = lru_list[i].page_id
  BY DEF Dirty
<1>3. q \in map
  BY <1>1, <1>2 DEF Ids
<1>4. map' = (map \ EvictedKeys) \cup {p} /\ unsynced' = unsynced \ EvictedSynced
  BY <1>3 DEF put
<1>5. AtCapacity /\ q = Last(lru_list).page_id
  BY <1>3, <1>4 DEF EvictedKeys
<1>6. i = Len(lru_list)
  <2>1. Len(lru_list) \in 1 .. Len(lru_list)
    BY <1>1, LenProperties
  <2>2. lru_list[i].page_id = lru_list[Len(lru_list)].page_id
    BY <1>2, <1>5 DEF Last
  <2> QED
    BY <1>1, <2>1, <2>2 DEF Distinct
<1>7. q \in EvictedSynced
  BY <1>2, <1>5, <1>6 DEF EvictedSynced, Last
<1> QED
  BY <1>4, <1>7

\* No step takes a dirty page out of the cache without syncing it.
LEMMA StepLeaves == IInv /\ Next => Leaves
<1> SUFFICES ASSUME IInv, Next, NEW q \in Dirty(lru_list), q \notin map', ~Restart
             PROVE  q \notin unsynced'
  BY DEF Leaves
<1>0. CacheInv
  BY DEF IInv
<1>1. q \in map
  BY <1>0 DEF Dirty, CacheInv, Agrees, Ids
<1>2. PICK t \in Threads : ThreadStep(t)
  BY DEF Next
<1>3. CASE PutFetched(t) \/ MarkPut(t)
  BY <1>0, <1>3, PutWritesBack DEF PutFetched, MarkPut
<1>4. CASE ClearCache(t)
  BY <1>4 DEF ClearCache
<1>5. CASE ~(PutFetched(t) \/ MarkPut(t) \/ ClearCache(t))
  <2>1. map' = map
    BY <1>2, <1>5 DEF ThreadStep, Read, InsertActive, InsertLast, AllocateRead, AllocateWrite,
       LookupHit, LookupMiss, Fetch, Write, MarkLookup, Flush, ClearPager, get
  <2> QED
    BY <1>1, <2>1
<1> QED
  BY <1>3, <1>4, <1>5

\* A page that the cache records as dirty leaves it only in a step that msyncs
\* it (evict_internal, clear), unless the process dies.
THEOREM DirtyPagesLeaveSynced == Spec => DirtyLeavesSynced
<1>1. IInv /\ [Next]_vars => [Leaves]_vars
  BY StepLeaves
<1> QED
  BY <1>1, Invariance, PTL DEF Spec, DirtyLeavesSynced
=============================================================================

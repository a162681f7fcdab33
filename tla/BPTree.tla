------------------------------- MODULE BPTree -------------------------------
(***************************************************************************)
(* The primary-key index: a B+ tree of pages.  A page is a leaf, with keys *)
(* and row ids, or an internal node, with keys and child pages; the two    *)
(* share the array vals (the union of BPTNode).  Page ids start at 1 here  *)
(* and None stands for 0xFFFFFFFF.  nodes[p] is the node in page p.        *)
(*                                                                         *)
(* This module has what search and insert do when they run one after the   *)
(* other; Lookup, which extends it, has a search racing with an insert,    *)
(* and PageCache what concurrent calls do to the cache.  The code splits   *)
(* leaves and grows one root above them, but never splits an internal     *)
(* node: once the root is full, the right half of a leaf that splits is    *)
(* linked to its left neighbour and to nothing else (bptree.cpp:152).      *)
(***************************************************************************)
EXTENDS Integers, SequencesExt, FiniteSetsExt

CONSTANTS Keys,          \* primary keys, a set of integers
          Rids,          \* row ids
          Order,         \* BPT_ORDER
          MaxEntries     \* bound: entries inserted

ASSUME TreeAssumption ==
    /\ Keys \subseteq Int /\ Rids \subseteq Nat
    /\ Order \in Nat /\ Order >= 2
    /\ MaxEntries \in Nat

VARIABLES nodes,         \* the pages of the index file
          root,          \* root_pid_
          inserted       \* the pairs <<key, row id>> given to insert

treeVars == <<nodes, root, inserted>>

None == 0

Leaf(entries, next) ==
    [leaf |-> TRUE, keys |-> [i \in DOMAIN entries |-> entries[i][1]],
     vals |-> [i \in DOMAIN entries |-> entries[i][2]], next |-> next]

Internal(keys, children) == [leaf |-> FALSE, keys |-> keys, vals |-> children, next |-> None]

Entries(node) == [i \in DOMAIN node.keys |-> <<node.keys[i], node.vals[i]>>]

-----------------------------------------------------------------------------
(* Descent *)

\* Mutant: the descent takes the left child for a key equal to a separator.
ChildOf_Left(node, key) ==
    node.vals[Min({i \in DOMAIN node.keys : key <= node.keys[i]} \cup {Len(node.keys) + 1})]

\* The child that the loop over keys[] stops at.
ChildOf(node, key) ==
    node.vals[Min({i \in DOMAIN node.keys : key < node.keys[i]} \cup {Len(node.keys) + 1})]

\* The pages on the way from the root to the leaf for key; Path(key)[n] is
\* the page after n steps.
Path(key) ==
    LET at[n \in 0 .. Len(nodes)] ==
            IF n = 0 THEN root
            ELSE IF nodes[at[n - 1]].leaf THEN at[n - 1] ELSE ChildOf(nodes[at[n - 1]], key)
    IN  at

find_leaf(key) == Path(key)[Len(nodes)]

\* The row ids search can return: none, or the one at the first equal key.
search(key) ==
    LET node == nodes[find_leaf(key)]
        hits == {i \in DOMAIN node.keys : node.keys[i] = key}
    IN  IF hits = {} THEN {} ELSE {node.vals[Min(hits)]}

-----------------------------------------------------------------------------
(* Insertion *)

\* The constructor, also on the file of an earlier process, whose pages Pager
\* does not count.
Init ==
    /\ nodes = <<Leaf(<<>>, None)>>
    /\ root = 1
    /\ inserted = {}

\* Mutant: one key more than the arrays of a node hold.
HasRoom_OneLate(node) == Len(node.keys) <= Order

HasRoom(node) == Len(node.keys) < Order

LeafSize(p) == IF nodes[p].leaf THEN Len(nodes[p].keys) ELSE 0

EntryCount == MapThenSumSet(LeafSize, 1 .. Len(nodes))

\* Where the shifting loops of insert_into_leaf and insert_into_parent put key.
Place(keys, key) == Max({i \in DOMAIN keys : keys[i] <= key} \cup {0}) + 1

\* Mutant: the keys are shifted and the row ids are not.
WithEntry_ShiftsKeysOnly(node, key, rid) ==
    [node EXCEPT !.keys = InsertAt(@, Place(node.keys, key), key), !.vals = Append(@, rid)]

WithEntry(node, key, rid) ==
    Leaf(InsertAt(Entries(node), Place(node.keys, key), <<key, rid>>), node.next)

WithChild(node, key, child) ==
    LET i == Place(node.keys, key)
    IN  Internal(InsertAt(node.keys, i, key), InsertAt(node.vals, i + 1, child))

PairLess(a, b) == a[1] < b[1] \/ (a[1] = b[1] /\ a[2] < b[2])

\* The sorted vector temp of a leaf that overflows, and its two halves.
Overflowing(node, key, rid) == SortSeq(Append(Entries(node), <<key, rid>>), PairLess)

LowerHalf(temp) == SubSeq(temp, 1, Len(temp) \div 2)

UpperHalf(temp) == SubSeq(temp, Len(temp) \div 2 + 1, Len(temp))

\* Mutant: the new leaf forgets the next_leaf of the old one.
Split_CutsChain(pid, temp) ==
    Append([nodes EXCEPT ![pid] = Leaf(LowerHalf(temp), Len(nodes) + 1)], Leaf(UpperHalf(temp), None))

\* The pages after page pid has been split: the new page is the last one.
Split(pid, temp) ==
    Append([nodes EXCEPT ![pid] = Leaf(LowerHalf(temp), Len(nodes) + 1)],
           Leaf(UpperHalf(temp), nodes[pid].next))

\* The first internal node on the way to key that has pid as a child.
Parent(pid, key) ==
    LET way == Path(key)
        at == {n \in DOMAIN way : ~nodes[way[n]].leaf /\ pid \in Range(nodes[way[n]].vals)}
    IN  IF at = {} THEN None ELSE way[Min(at)]

\* insert: into a leaf with room; or the leaf is split and the new leaf is
\* given to a new root, to a parent with room, or to nobody.
InsertFits(key, rid) ==
    LET pid == find_leaf(key)
    IN  /\ HasRoom(nodes[pid])
        /\ nodes' = [nodes EXCEPT ![pid] = WithEntry(nodes[pid], key, rid)]
        /\ root' = root

InsertSplits(key, rid) ==
    LET pid == find_leaf(key)
        temp == Overflowing(nodes[pid], key, rid)
        pages == Split(pid, temp)
        new == Len(pages)
        separator == UpperHalf(temp)[1][1]
        parent == Parent(pid, separator)
    IN  /\ ~HasRoom(nodes[pid])
        /\ \/ /\ pid = root
              /\ nodes' = Append(pages, Internal(<<separator>>, <<pid, new>>))
              /\ root' = new + 1
           \/ /\ pid # root /\ parent # None
              /\ HasRoom(nodes[parent])
              /\ nodes' = [pages EXCEPT ![parent] = WithChild(nodes[parent], separator, new)]
              /\ root' = root
           \/ /\ pid # root
              /\ parent # None => ~HasRoom(nodes[parent])
              /\ nodes' = pages
              /\ root' = root

insert(key, rid) ==
    /\ EntryCount < MaxEntries
    /\ InsertFits(key, rid) \/ InsertSplits(key, rid)
    /\ inserted' = inserted \cup {<<key, rid>>}

-----------------------------------------------------------------------------
(* Properties *)

Pids == 1 .. Len(nodes)

\* Every variable has its type; no node holds more than Order keys; and the
\* tree is a leaf or a root above leaves.
TypeOK ==
    /\ root \in Pids
    /\ inserted \subseteq Keys \X Rids
    /\ \A p \in Pids :
          LET node == nodes[p]
          IN  /\ node.keys \in Seq(Keys) /\ Len(node.keys) <= Order
              /\ node.next \in Pids \cup {None}
              /\ node.leaf => node.vals \in Seq(Rids) /\ Len(node.vals) = Len(node.keys)
              /\ ~node.leaf => /\ p = root
                               /\ node.vals \in Seq({q \in Pids : nodes[q].leaf})
                               /\ Len(node.vals) = Len(node.keys) + 1

\* A row id that search returns was inserted under that key, duplicate keys
\* and lost leaves or not.
SearchSound == \A key \in Keys : \A rid \in search(key) : <<key, rid>> \in inserted

\* No key has been inserted twice.
Distinct == EntryCount = Cardinality({e[1] : e \in inserted})

Reachable == {root} \cup (IF nodes[root].leaf THEN {} ELSE Range(nodes[root].vals))

\* With unique keys, as long as every leaf has found a place below the root,
\* search finds every inserted key.
FoundWhileReachable ==
    Distinct /\ Reachable = Pids => \A e \in inserted : search(e[1]) = {e[2]}

\* The entries met along next_leaf from the first leaf, page 1.
Chain ==
    LET from[n \in 0 .. Len(nodes)] == IF n = 0 THEN 1
                                        ELSE IF from[n - 1] = None THEN None
                                        ELSE nodes[from[n - 1]].next
        pages == SelectSeq([n \in 1 .. Len(nodes) |-> from[n - 1]], LAMBDA p : p # None)
    IN  FlattenSeq([i \in DOMAIN pages |-> Entries(nodes[pages[i]])])

\* With unique keys, the list of leaves holds every inserted entry once, the
\* entries of lost leaves included; and while no leaf is lost it is in key
\* order (README.md:90, "Leaf nodes linked in a list for future range scans").
ChainComplete == Distinct =>
    /\ Range(Chain) = inserted /\ Len(Chain) = Cardinality(inserted)
    /\ Reachable = Pids => \A i \in 1 .. Len(Chain) - 1 : Chain[i][1] < Chain[i + 1][1]
=============================================================================

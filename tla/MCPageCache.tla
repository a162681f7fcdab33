---------------------------- MODULE MCPageCache ----------------------------
(***************************************************************************)
(* PageCache for TLC, with a history variable: spoiled says that at some   *)
(* time two threads were inside operations on the column, or that the page *)
(* being filled was evicted.                                               *)
(***************************************************************************)
EXTENDS PageCache, TLC

VARIABLE spoiled

Overlap == \E t, u \in Threads : t # u /\ pc[t] # "idle" /\ pc[u] # "idle"

ActiveEvicted == active \in map /\ active' = active /\ active \notin map'

MCInit == Init /\ spoiled = FALSE
MCNext == Next /\ spoiled' = (spoiled \/ Overlap' \/ ActiveEvicted)
MCSpec == MCInit /\ [][MCNext]_<<vars, spoiled>>

\* Until operations overlap or reads evict the page that insert_fixed is
\* filling, mark_dirty and get_page keep every page with unwritten changes
\* flagged dirty.
QuietDirtyCovers == ~spoiled => DirtyCoversUnsynced

\* Until then no caller of get_page is given a null page either.
QuietNoNullPage == ~spoiled => NoNullPage

ThreadSymmetry == Permutations(Threads)
=============================================================================

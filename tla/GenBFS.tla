------------------------------ MODULE GenBFS ------------------------------
(***************************************************************************)
(* GenerationNumberBFS::query_reachability of                             *)
(* src/reachabilityindex/genbfs/src/lib.rs.  The query checks that src    *)
(* exists, fetches dst's generation, then runs loop_fn over BFS layers:   *)
(* each iteration either finds dst in the layer, stops on an empty layer, *)
(* or runs process_bfs_layer.  Generation numbers are those stored with   *)
(* each changeset: 1 for a root, else 1 + the largest parent generation.  *)
(***************************************************************************)
EXTENDS Naturals, FiniteSets

CONSTANTS Nodes, Absent

VARIABLES
    parents,   \* the commit DAG the ChangesetFetcher serves
    src, dst,  \* the query
    pc,        \* "check_src", "fetch_gen", "loop" or "done"
    layer,     \* curr_layer
    seen,      \* curr_seen
    dstGen,    \* dst_gen
    result,    \* the answer, "pending" until pc = "done"
    fetched    \* fetched[n]: get_parents calls made for n

vars == <<parents, src, dst, pc, layer, seen, dstGen, result, fetched>>

\* The contract, with the answer visible only once the query is done.
Abs == INSTANCE ReachabilityQuery
          WITH result <- IF pc = "done" THEN result ELSE "pending"

RECURSIVE Generation(_, _)
Generation(p, n) ==
    IF p[n] = {} THEN 1
    ELSE 1 + (CHOOSE g \in {Generation(p, q) : q \in p[n]} :
                  \A q \in p[n] : Generation(p, q) <= g)

Init ==
    /\ parents \in Abs!DAGs
    /\ src \in Nodes \cup {Absent}
    /\ dst \in Nodes \cup {Absent}
    /\ pc = "check_src"
    /\ layer = {src}
    /\ seen = {}
    /\ dstGen = 0
    /\ result = "pending"
    /\ fetched = [n \in Nodes |-> 0]

\* A query that skips the existence check of src.
CheckSrcSkipped ==
    /\ pc = "check_src"
    /\ pc' = "fetch_gen"
    /\ UNCHANGED <<parents, src, dst, layer, seen, dstGen, result, fetched>>

\* check_if_node_exists(src): a missing src fails the query.
CheckSrc ==
    /\ pc = "check_src"
    /\ IF src = Absent
       THEN pc' = "done" /\ result' = "error"
       ELSE pc' = "fetch_gen" /\ UNCHANGED result
    /\ UNCHANGED <<parents, src, dst, layer, seen, dstGen, fetched>>

\* fetch_generation(dst): a missing dst fails the query.
FetchGeneration ==
    /\ pc = "fetch_gen"
    /\ IF dst = Absent
       THEN pc' = "done" /\ result' = "error" /\ UNCHANGED dstGen
       ELSE pc' = "loop" /\ dstGen' = Generation(parents, dst) /\ UNCHANGED result
    /\ UNCHANGED <<parents, src, dst, layer, seen, fetched>>

\* Loop::Break(true) when the layer holds dst.
Found ==
    /\ pc = "loop"
    /\ dst \in layer
    /\ pc' = "done" /\ result' = "reachable"
    /\ UNCHANGED <<parents, src, dst, layer, seen, dstGen, fetched>>

\* Loop::Break(false) on an empty layer.
Exhausted ==
    /\ pc = "loop"
    /\ dst \notin layer
    /\ layer = {}
    /\ pc' = "done" /\ result' = "unreachable"
    /\ UNCHANGED <<parents, src, dst, layer, seen, dstGen, fetched>>

\* process_bfs_layer with the filter dropped that skips seen parents.
ProcessLayerNoSeen ==
    /\ pc = "loop"
    /\ dst \notin layer
    /\ layer # {}
    /\ seen' = seen \cup layer
    /\ fetched' = [n \in Nodes |-> IF n \in layer THEN fetched[n] + 1 ELSE fetched[n]]
    /\ layer' = {q \in UNION {parents[n] : n \in layer} :
                    Generation(parents, q) >= dstGen}
    /\ UNCHANGED <<parents, src, dst, pc, dstGen, result>>

\* process_bfs_layer with a strict generation bound.
ProcessLayerStrict ==
    /\ pc = "loop"
    /\ dst \notin layer
    /\ layer # {}
    /\ seen' = seen \cup layer
    /\ fetched' = [n \in Nodes |-> IF n \in layer THEN fetched[n] + 1 ELSE fetched[n]]
    /\ layer' = {q \in UNION {parents[n] : n \in layer} :
                    q \notin seen' /\ Generation(parents, q) > dstGen}
    /\ UNCHANGED <<parents, src, dst, pc, dstGen, result>>

\* process_bfs_layer: add the layer to seen, fetch every layer node's
\* parents with their generations, keep the unseen ones whose generation
\* is at least dst's as the next layer.
ProcessLayer ==
    /\ pc = "loop"
    /\ dst \notin layer
    /\ layer # {}
    /\ seen' = seen \cup layer
    /\ fetched' = [n \in Nodes |-> IF n \in layer THEN fetched[n] + 1 ELSE fetched[n]]
    /\ layer' = {q \in UNION {parents[n] : n \in layer} :
                    q \notin seen' /\ Generation(parents, q) >= dstGen}
    /\ UNCHANGED <<parents, src, dst, pc, dstGen, result>>

\* The query has answered.
Done ==
    /\ pc = "done"
    /\ UNCHANGED vars

Next == CheckSrc \/ FetchGeneration \/ Found \/ Exhausted \/ ProcessLayer \/ Done

Spec == Init /\ [][Next]_vars

-----------------------------------------------------------------------------
(* Properties                                                              *)

TypeOK ==
    /\ pc \in {"check_src", "fetch_gen", "loop", "done"}
    /\ layer \subseteq Nodes \cup {Absent}
    \* past check_if_node_exists the BFS only holds existing changesets
    /\ pc \in {"fetch_gen", "loop"} => layer \subseteq Nodes
    /\ seen \subseteq Nodes \cup {Absent}
    /\ result \in {"pending", "error", "reachable", "unreachable"}
    /\ fetched \in [Nodes -> Nat]

\* The BFS implements the ReachabilityIndex contract: its answer, once
\* given, is whether dst is an ancestor of src, despite pruning every
\* branch whose generation drops below dst's.
Refinement == Abs!Spec

\* The seen set keeps the BFS from fetching a changeset's parents twice,
\* even when the changeset is reached along paths of different lengths.
ParentsFetchedOnce == \A n \in Nodes : fetched[n] <= 1
=============================================================================

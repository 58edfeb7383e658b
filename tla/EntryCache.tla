------------------------------ MODULE EntryCache ------------------------------
(***************************************************************************)
(* EntryWithSizeAndContentHash::materialize_future of                     *)
(* src/apiserver/src/actor/model.rs behind the LRU cache pool.  A call    *)
(* spawns the content fetch that builds the entry (name, type, hash and   *)
(* the size and SHA-1 derived from the content), then get_cached_or_fill  *)
(* looks the cache key up and, on a miss, stores the fetched entry.  The  *)
(* LRU pool may evict any key at any time and may decline a store.        *)
(* Without a cache pool the spawned future is the answer.  An entry       *)
(* without a name fails before anything is spawned, and a failed content  *)
(* fetch fails the call and caches nothing.                               *)
(***************************************************************************)
EXTENDS Naturals, FiniteSets

CONSTANTS
    Entries,   \* manifest entries [name, ttype, hash] the API lists
    Callers,   \* concurrent API requests
    MaxCalls,  \* bound on materialize calls per caller
    UseCache,  \* whether materialize_future is given a cache pool
    NoName     \* the name of an entry for which get_name() is None

NoEntry == [name |-> "none", ttype |-> "none", hash |-> "none"]
Failed == [name |-> "error", ttype |-> "error", hash |-> "error"]
Hashes == {e.hash : e \in Entries}

VARIABLES cache, caller

vars == <<cache, caller>>

\* get_cache_key: the repository prefix and the entry's hash.
CacheKey(e) == e.hash

\* The entry the spawned future builds; size and content SHA-1 are
\* functions of the content, so of the hash, and are left implicit.
Materialized(e) == [name |-> e.name, ttype |-> e.ttype, hash |-> e.hash]

Init ==
    /\ cache = [h \in Hashes |-> NoEntry]
    /\ caller = [c \in Callers |-> [pc |-> "idle", entry |-> NoEntry,
                                     res |-> NoEntry, calls |-> 0]]

\* materialize_future: an entry without a name is an error; otherwise the
\* content fetch is spawned, before the lookup when there is a cache.
Materialize(c, e) ==
    /\ caller[c].pc = "idle"
    /\ caller[c].calls < MaxCalls
    /\ caller' = [caller EXCEPT ![c] =
                    [pc |-> CASE e.name = NoName -> "done"
                              [] UseCache -> "lookup"
                              [] OTHER -> "compute",
                     entry |-> e,
                     res |-> IF e.name = NoName THEN Failed ELSE NoEntry,
                     calls |-> @.calls + 1]]
    /\ UNCHANGED cache

\* Without a cache the spawned future's result is the answer.
Compute(c) ==
    /\ caller[c].pc = "compute"
    /\ \E res \in {Materialized(caller[c].entry), Failed} :
          caller' = [caller EXCEPT ![c].pc = "done", ![c].res = res]
    /\ UNCHANGED cache

\* get_cached_or_fill, lookup: a hit answers with the cached entry.
Lookup(c) ==
    LET key == CacheKey(caller[c].entry)
    IN /\ caller[c].pc = "lookup"
       /\ IF cache[key] # NoEntry
          THEN caller' = [caller EXCEPT ![c].pc = "done", ![c].res = cache[key]]
          ELSE caller' = [caller EXCEPT ![c].pc = "fill"]
       /\ UNCHANGED cache

\* get_cached_or_fill, fill: the spawned future's entry is the answer and
\* is offered to the pool, which may keep it or not; a failed fetch is
\* the answer and nothing is stored.
Fill(c) ==
    LET e == caller[c].entry
    IN /\ caller[c].pc = "fill"
       /\ \/ /\ \/ cache' = [cache EXCEPT ![CacheKey(e)] = Materialized(e)]
                \/ UNCHANGED cache
             /\ caller' = [caller EXCEPT ![c].pc = "done", ![c].res = Materialized(e)]
          \/ /\ caller' = [caller EXCEPT ![c].pc = "done", ![c].res = Failed]
             /\ UNCHANGED cache

\* The LRU pool evicts a key.
Evict(h) ==
    /\ cache[h] # NoEntry
    /\ cache' = [cache EXCEPT ![h] = NoEntry]
    /\ UNCHANGED caller

\* The request takes its answer.
Return(c) ==
    /\ caller[c].pc = "done"
    /\ caller' = [caller EXCEPT ![c].pc = "idle"]
    /\ UNCHANGED cache

Next ==
    \/ \E c \in Callers :
          \/ \E e \in Entries : Materialize(c, e)
          \/ Lookup(c) \/ Fill(c) \/ Compute(c) \/ Return(c)
    \/ \E h \in Hashes : Evict(h)

Spec == Init /\ [][Next]_vars

\* A materialized entry describes the entry it was asked for: its name and
\* type are that entry's, whichever request filled the cache before.
MaterializedMatchesEntry ==
    \A c \in Callers :
        caller[c].pc = "done" /\ caller[c].res # Failed =>
            /\ caller[c].res.name = caller[c].entry.name
            /\ caller[c].res.ttype = caller[c].entry.ttype

\* Callers whose content fetch for key h is running: spawn_future starts it
\* when materialize_future is called and get_cached_or_fill consumes it.
Computing(h) ==
    {c \in Callers : caller[c].pc \in {"lookup", "fill", "compute"}
                    /\ CacheKey(caller[c].entry) = h}

\* The caching layer's contract: at most one computation per key is in
\* flight; concurrent get_or_fill calls of one key share it.
AtMostOneComputePerKey == \A h \in Hashes : Cardinality(Computing(h)) <= 1
=============================================================================

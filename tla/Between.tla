------------------------------ MODULE Between ------------------------------
(***************************************************************************)
(* The `between` wire command of src/repo_client/src/client/mod.rs.  For  *)
(* each (top, bottom) pair in turn, a ParentStream walks first parents    *)
(* from top until it reaches bottom or the null hash; the stream is       *)
(* enumerated from 0 and an entry is kept when its index equals f, which  *)
(* starts at 1 and doubles on every kept entry.  A changeset that cannot  *)
(* be loaded fails the whole command.                                     *)
(***************************************************************************)
EXTENDS Naturals, Sequences, FiniteSets

CONSTANTS
    Nodes,     \* changesets of the repository
    Null,      \* NULL_HASH
    Unknown,   \* a hash that names no changeset
    Repos,     \* first-parent maps [Nodes -> Nodes \cup {Null}] to check
    Queries    \* sequences of (top, bottom) pairs to check

VARIABLES
    p1,        \* first parent of every changeset
    pairs,     \* the request
    k,         \* index of the pair being walked
    n,         \* ParentStream.n
    i,         \* enumerate index of the next stream item
    f,         \* the filter's next kept index
    cur,       \* entries kept for the current pair
    out,       \* results of the finished pairs
    pc         \* "walk", "done" or "error"

vars == <<p1, pairs, k, n, i, f, cur, out, pc>>

Init ==
    /\ p1 \in Repos
    /\ pairs \in Queries
    /\ k = 1
    /\ n = IF pairs = <<>> THEN Null ELSE pairs[1][1]
    /\ i = 0
    /\ f = 1
    /\ cur = <<>>
    /\ out = <<>>
    /\ pc = IF pairs = <<>> THEN "done" ELSE "walk"

\* A filter that counts the stream from 1 instead of 0.
PollFromOne ==
    /\ pc = "walk"
    /\ n # pairs[k][2] /\ n # Null
    /\ IF n \in Nodes
       THEN /\ cur' = IF i + 1 = f THEN Append(cur, n) ELSE cur
            /\ f' = IF i + 1 = f THEN 2 * f ELSE f
            /\ n' = p1[n]
            /\ i' = i + 1
            /\ UNCHANGED pc
       ELSE /\ pc' = "error"
            /\ UNCHANGED <<cur, f, n, i>>
    /\ UNCHANGED <<p1, pairs, k, out>>

\* ParentStream::poll yields n (loading its changeset to step to p1), and
\* the enumerate/filter stage keeps it when its index is f.
Poll ==
    /\ pc = "walk"
    /\ n # pairs[k][2] /\ n # Null
    /\ IF n \in Nodes
       THEN /\ cur' = IF i = f THEN Append(cur, n) ELSE cur
            /\ f' = IF i = f THEN 2 * f ELSE f
            /\ n' = p1[n]
            /\ i' = i + 1
            /\ UNCHANGED pc
       ELSE /\ pc' = "error"
            /\ UNCHANGED <<cur, f, n, i>>
    /\ UNCHANGED <<p1, pairs, k, out>>

\* A filter counter shared by all pairs instead of created per pair.
EndPairKeepFilter ==
    /\ pc = "walk"
    /\ n = pairs[k][2] \/ n = Null
    /\ out' = Append(out, cur)
    /\ IF k = Len(pairs)
       THEN pc' = "done" /\ UNCHANGED <<k, n>>
       ELSE k' = k + 1 /\ n' = pairs[k + 1][1] /\ UNCHANGED pc
    /\ i' = 0 /\ cur' = <<>>
    /\ UNCHANGED <<p1, pairs, f>>

\* The stream ends at bottom or null; collect() finishes the pair and the
\* next pair starts with a fresh filter.
EndPair ==
    /\ pc = "walk"
    /\ n = pairs[k][2] \/ n = Null
    /\ out' = Append(out, cur)
    /\ IF k = Len(pairs)
       THEN pc' = "done" /\ UNCHANGED <<k, n>>
       ELSE k' = k + 1 /\ n' = pairs[k + 1][1] /\ UNCHANGED pc
    /\ i' = 0 /\ f' = 1 /\ cur' = <<>>
    /\ UNCHANGED <<p1, pairs>>

\* The command has answered or failed.
Finished ==
    /\ pc \in {"done", "error"}
    /\ UNCHANGED vars

Next == Poll \/ EndPair \/ Finished

Spec == Init /\ [][Next]_vars
-----------------------------------------------------------------------------
TypeOK ==
    /\ pc \in {"walk", "done", "error"}
    /\ i \in Nat /\ f \in Nat \ {0}
    \* the filter of the current pair has doubled once per kept entry
    /\ f = 2 ^ Len(cur)
    /\ k \in 1..Len(pairs) \cup {1}
    /\ out \in Seq(Seq(Nodes))

\* Reference: the first-parent walk from top, stopping before bottom or null.
RECURSIVE Chain(_, _, _)
Chain(p, top, bottom) ==
    IF top = bottom \/ top = Null THEN <<>>
    ELSE IF top \notin Nodes THEN <<top>>
    ELSE <<top>> \o Chain(p, p[top], bottom)

\* Reference: the walk's entries at distances 1, 2, 4, 8, ... from top,
\* as Mercurial's localrepository.between answers.
Sample(c) ==
    LET K == {j \in 1..Len(c) : 2^(j - 1) < Len(c)}
    IN [j \in 1..Cardinality(K) |-> c[2^(j - 1) + 1]]

RefFails(p, ps) == \E j \in 1..Len(ps) : ps[j][1] \notin Nodes \cup {Null, ps[j][2]}

\* Every answer of `between` holds, for each pair in request order, the
\* first-parent ancestors of top at distances 1, 2, 4, ... that lie above
\* bottom; the command fails exactly when a top names no changeset.
BetweenMatchesReference ==
    /\ pc = "done" =>
          /\ ~RefFails(p1, pairs)
          /\ out = [j \in 1..Len(pairs) |-> Sample(Chain(p1, pairs[j][1], pairs[j][2]))]
    /\ pc = "error" => RefFails(p1, pairs)
=============================================================================

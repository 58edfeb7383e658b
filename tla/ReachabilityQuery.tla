------------------------- MODULE ReachabilityQuery -------------------------
(***************************************************************************)
(* What a ReachabilityIndex promises (src/reachabilityindex/genbfs): a    *)
(* query_reachability(src, dst) answers, in one step, whether dst is an   *)
(* ancestor of src (or src itself) in the commit DAG, and fails when src  *)
(* or dst is not a changeset of the repository.                           *)
(***************************************************************************)
EXTENDS Naturals, FiniteSets

CONSTANTS
    Nodes,      \* changeset ids of the repository
    Absent      \* a changeset id the repository does not have

VARIABLES parents, src, dst, result

\* Commit DAGs over Nodes = 1..N: parents have smaller ids, at most two.
DAGs == {p \in [Nodes -> SUBSET Nodes] :
            \A n \in Nodes : p[n] \subseteq 1..(n - 1) /\ Cardinality(p[n]) <= 2}

\* Reference ancestry: n and everything reachable over parent edges.
RECURSIVE AncestorsOrSelf(_, _)
AncestorsOrSelf(p, n) == {n} \cup UNION {AncestorsOrSelf(p, q) : q \in p[n]}

Answer(p, s, d) ==
    IF s = Absent \/ d = Absent THEN "error"
    ELSE IF d \in AncestorsOrSelf(p, s) THEN "reachable" ELSE "unreachable"

Init ==
    /\ parents \in DAGs
    /\ src \in Nodes \cup {Absent}
    /\ dst \in Nodes \cup {Absent}
    /\ result = "pending"

Query ==
    /\ result = "pending"
    /\ result' = Answer(parents, src, dst)
    /\ UNCHANGED <<parents, src, dst>>

Spec == Init /\ [][Query]_<<parents, src, dst, result>>
=============================================================================

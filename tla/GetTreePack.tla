---------------------------- MODULE GetTreePack ----------------------------
(***************************************************************************)
(* gettreepack_untimed and get_changed_manifests_stream of               *)
(* src/repo_client/src/client/mod.rs.  Every requested manifest is       *)
(* walked against the first base manifest; with several manifests the    *)
(* walks run as one select_all stream and share a VisitedPruner that     *)
(* drops a (path, tree) another walk already took.  Each walk ends with  *)
(* its root entry.  The merged stream is filtered on used_hashes (the    *)
(* first entry with a given hash passes), and every entry that passes is *)
(* fetched and, on the sampled requests, checked against its hash.       *)
(*                                                                         *)
(* A tree is a hash; Children[h] is the set of <<name, hash>> of its      *)
(* subtrees (the FilePruner has removed its files).  A path is the       *)
(* sequence of names from the root.                                      *)
(***************************************************************************)
EXTENDS Naturals, Sequences, FiniteSets

CONSTANTS
    Trees,        \* tree hashes, NullTree included
    Children,     \* Children[h]: <<name, subtree hash>> pairs of tree h
    NullTree,     \* NULL_HASH, the empty base manifest
    Requests,     \* GettreepackArgs to check: [mfnodes, basemfnodes, depth, directories]
    Corrupt       \* trees whose content and parents do not hash to their id

\* The subtree of h called nm, NullTree when h has none.
ChildOf(h, nm) ==
    IF \E e \in Children[h] : e[1] = nm
    THEN (CHOOSE e \in Children[h] : e[1] = nm)[2]
    ELSE NullTree

\* An entry of the walk: a subtree at a path, the base's tree at that path
\* and its depth (the root's children have depth 1).
Entry(path, h, b, d) == [path |-> path, hash |-> h, base |-> b, depth |-> d]

\* The entries changed_entry_stream yields under a tree: the subtrees whose
\* hash differs from the base's at the same path.
ChangedChildren(e) ==
    {Entry(Append(e.path, c[1]), c[2], ChildOf(e.base, c[1]), e.depth + 1) :
        c \in {c \in Children[e.hash] : c[2] # ChildOf(e.base, c[1])}}

VARIABLES
    req,        \* the request
    basemf,     \* the base manifest the walks diff against
    frontier,   \* frontier[i]: entries walk i has still to visit
    rootDone,   \* rootDone[i]: walk i has yielded its root entry
    visited,    \* the VisitedPruner's (path, hash) set
    used,       \* used_hashes
    sent,       \* treepack part inputs sent, as <<path, hash>>
    validate,   \* validate_hash, sampled per request
    pc          \* "walk", "done" or "error"

vars == <<req, basemf, frontier, rootDone, visited, used, sent, validate, pc>>

Walks == 1..Len(req.mfnodes)
Multi == Len(req.mfnodes) > 1

\* The first entry of a walk: the root with the base root, depth 0.
RootEntry(i) == Entry(<<>>, req.mfnodes[i], basemf, 0)

\* A walk that ignores the depth-1 shortcut.
StartFrontierAnyDepth(i) == ChangedChildren(RootEntry(i))

\* get_changed_manifests_stream: depth 1 yields the root alone, otherwise
\* the changed entries below the root are walked first.
StartFrontier(i) ==
    IF req.depth = 1 THEN {} ELSE ChangedChildren(RootEntry(i))

Init ==
    /\ req \in Requests
    /\ basemf = IF req.basemfnodes = <<>> THEN NullTree ELSE req.basemfnodes[1]
    /\ validate \in BOOLEAN
    /\ frontier = [i \in Walks |-> StartFrontier(i)]
    /\ rootDone = [i \in Walks |-> FALSE]
    /\ visited = {}
    /\ used = {}
    /\ sent = <<>>
    /\ pc = IF req.directories THEN "error" ELSE "walk"

\* fetch_treepack_part_input's check: on a sampled request a tree other
\* than the root must hash, with its parents, to its id.
Validates(e) == ~validate \/ e.path = <<>> \/ e.hash \notin Corrupt

\* The stream without the used_hashes filter.
EmitUnfiltered(e) ==
    /\ used' = used \cup {e.hash}
    /\ IF validate /\ e.path # <<>> /\ e.hash \in Corrupt
       THEN pc' = "error" /\ UNCHANGED sent
       ELSE sent' = Append(sent, <<e.path, e.hash>>) /\ UNCHANGED pc

\* An entry through used_hashes and fetch_treepack_part_input: a repeated
\* hash is dropped, a sampled non-root tree that fails validation is
\* DataCorruption and fails the stream.
Emit(e) ==
    IF e.hash \in used
    THEN UNCHANGED <<used, sent, pc>>
    ELSE /\ used' = used \cup {e.hash}
         /\ IF Validates(e)
            THEN sent' = Append(sent, <<e.path, e.hash>>) /\ UNCHANGED pc
            ELSE pc' = "error" /\ UNCHANGED sent

\* Walk i yields its next entry.  The shared VisitedPruner (several
\* manifests only) drops a (path, hash) already taken, with its subtree;
\* otherwise the entry is emitted and its changed subtrees are walked
\* while the depth allows.
Step(i, e) ==
    /\ pc = "walk"
    /\ e \in frontier[i]
    /\ IF Multi /\ <<e.path, e.hash>> \in visited
       THEN /\ frontier' = [frontier EXCEPT ![i] = @ \ {e}]
            /\ UNCHANGED <<visited, used, sent, pc>>
       ELSE /\ visited' = IF Multi THEN visited \cup {<<e.path, e.hash>>} ELSE visited
            /\ frontier' = [frontier EXCEPT ![i] =
                              (@ \ {e}) \cup (IF e.depth + 1 < req.depth
                                              THEN ChangedChildren(e) ELSE {})]
            /\ Emit(e)
    /\ UNCHANGED <<req, basemf, rootDone, validate>>

\* Walk i has no entry left and yields its root (chained, never pruned).
Root(i) ==
    /\ pc = "walk"
    /\ frontier[i] = {}
    /\ ~rootDone[i]
    /\ rootDone' = [rootDone EXCEPT ![i] = TRUE]
    /\ Emit(RootEntry(i))
    /\ UNCHANGED <<req, basemf, frontier, visited, validate>>

\* Every walk has ended: the treepack part is complete.
Finish ==
    /\ pc = "walk"
    /\ \A i \in Walks : rootDone[i]
    /\ pc' = "done"
    /\ UNCHANGED <<req, basemf, frontier, rootDone, visited, used, sent, validate>>

\* gettreepack's whole_stream_timeout: the response fails part-way.
Timeout ==
    /\ pc = "walk"
    /\ pc' = "error"
    /\ UNCHANGED <<req, basemf, frontier, rootDone, visited, used, sent, validate>>

\* The response has been sent or failed.
Ended ==
    /\ pc \in {"done", "error"}
    /\ UNCHANGED vars

Next ==
    \/ \E i \in Walks : Root(i) \/ \E e \in frontier[i] : Step(i, e)
    \/ Finish
    \/ Timeout
    \/ Ended

Spec == Init /\ [][Next]_vars

-----------------------------------------------------------------------------
(* Reference: the trees a client needs                                     *)

\* All entries below e that differ from the base, within the depth.
RECURSIVE Changed(_, _)
Changed(e, depth) ==
    IF e.depth + 1 >= depth THEN {}
    ELSE UNION {{c} \cup Changed(c, depth) : c \in ChangedChildren(e)}

\* The (path, tree) pairs of every requested manifest that differ from the
\* base, and the roots.
Needed ==
    UNION {{<<c.path, c.hash>> : c \in Changed(RootEntry(i), req.depth)}
              \cup {<<<<>>, req.mfnodes[i]>>} : i \in Walks}

SentSet == {sent[j] : j \in 1..Len(sent)}

-----------------------------------------------------------------------------
(* Properties                                                              *)

TypeOK ==
    /\ pc \in {"walk", "done", "error"}
    /\ used \subseteq Trees
    /\ \A j \in 1..Len(sent) : sent[j][2] \in used
    \* a walk only holds entries within the requested depth
    /\ \A i \in Walks : \A e \in frontier[i] : e.depth < req.depth

\* A completed treepack carries every tree hash the client lacks (each
\* changed subtree of every requested manifest, within the depth, and
\* the roots) exactly once, however select_all interleaves the walks and
\* the shared VisitedPruner cuts them.
TreepackHashesExactlyOnce ==
    pc = "done" =>
        /\ {s[2] : s \in SentSet} = {x[2] : x \in Needed}
        /\ \A j, k \in 1..Len(sent) : j # k => sent[j][2] # sent[k][2]

\* The specification: every surviving tree entry, at its path, is emitted.
EveryNeededTreeSent == pc = "done" => Needed \subseteq SentSet
====

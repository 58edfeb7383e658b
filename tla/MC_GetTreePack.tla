-------------------------- MODULE MC_GetTreePack --------------------------
(* Manifests r1 and r2 share subtree a (ta1, with a/a = tx) and differ in *)
(* b; r0 is an older base.  Requests cover one manifest, two manifests in *)
(* both orders, a repeated manifest, no/one/two bases, depths 1, 2 and    *)
(* the default, and the unsupported directories argument.                 *)
EXTENDS GetTreePack, TLC

CONSTANTS a, b, null, r0, r1, r2, ta0, ta1, tb, tb2, tx, ty

MCTrees == {null, r0, r1, r2, ta0, ta1, tb, tb2, tx, ty}
MCChildren ==
    (null :> {}) @@ (r0 :> {<<a, ta0>>}) @@ (r1 :> {<<a, ta1>>, <<b, tb>>})
    @@ (r2 :> {<<a, ta1>>, <<b, tb2>>}) @@ (ta0 :> {}) @@ (ta1 :> {<<a, tx>>})
    @@ (tb :> {}) @@ (tb2 :> {<<b, ty>>}) @@ (tx :> {}) @@ (ty :> {})
MCCorrupt == {tb2}
\* the default depth, 2 << 16
DefaultDepth == 2 * 2^16
MCRequests ==
    [mfnodes : {<<r1>>, <<r2>>, <<r1, r2>>, <<r2, r1>>, <<r1, r1>>},
     basemfnodes : {<<>>, <<r0>>, <<r1, r0>>},
     depth : {1, 2, DefaultDepth},
     directories : {FALSE}]
    \cup {[mfnodes |-> <<r1>>, basemfnodes |-> <<>>, depth |-> DefaultDepth,
           directories |-> TRUE]}

\* Two directories holding the same subtree: b of r2 has a/ = tx like a.
MCChildrenSharedHash == [MCChildren EXCEPT ![tb2] = {<<a, tx>>}]
====

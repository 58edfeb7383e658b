--------------------------- MODULE MC_PullSession ---------------------------
(* Four changesets: c0 the root, c1 on it, c2 and c3 two children of c1.  *)
(* Bookmark master starts at c0; a second bookmark is named like c2's hex  *)
(* hash and does not exist yet.  One pusher moves bookmarks twice.        *)
EXTENDS PullSession, TLC

CONSTANTS c0, c1, c2, c3, master, hexc0, hexc1, hexc2, hexc3, nocommit, noname, p1

MCCommits == {c0, c1, c2, c3}
MCParents == (c0 :> {}) @@ (c1 :> {c0}) @@ (c2 :> {c1}) @@ (c3 :> {c1})
MCBookmarkNames == {master, hexc2}
MCInitialBooks == (master :> c0) @@ (hexc2 :> nocommit)
MCHexName == (c0 :> hexc0) @@ (c1 :> hexc1) @@ (c2 :> hexc2) @@ (c3 :> hexc3)
MCPushers == {p1}

(* Bundlecaps: a line decodes unless built with BadValue.                 *)
Line(k, vs) == [key |-> k, keyOk |-> TRUE,
                values |-> [i \in DOMAIN vs |-> [v |-> vs[i], ok |-> TRUE]]]
BadValueLine(k, v) == [key |-> k, keyOk |-> TRUE, values |-> <<[v |-> v, ok |-> FALSE]>>]
Bundle2(lines) == [name |-> "bundle2", nameOk |-> TRUE, hasEq |-> TRUE,
                   bodyOk |-> TRUE, lines |-> lines]

\* bundle2=HG20%0Aphases%3Dheads, bundle2=changegroup%3D02%0Aphases%3Dother,
\* the same with a changegroup value that does not decode, a bundle2 cap
\* listing phases twice, a cap without '=', and one whose name is not UTF-8.
MCRawBundleCaps ==
    {Bundle2(<<Line("HG20", <<>>), Line("phases", <<"heads">>)>>),
     Bundle2(<<Line("changegroup", <<"02">>), Line("phases", <<"other">>)>>),
     Bundle2(<<BadValueLine("changegroup", "02"), Line("phases", <<"other">>)>>),
     Bundle2(<<Line("phases", <<"other">>), Line("phases", <<"heads", "">>)>>),
     [name |-> "HG20", nameOk |-> TRUE, hasEq |-> FALSE, bodyOk |-> TRUE, lines |-> <<>>],
     [name |-> "bundle2", nameOk |-> FALSE, hasEq |-> TRUE, bodyOk |-> TRUE,
      lines |-> <<Line("phases", <<"other">>)>>]}
====

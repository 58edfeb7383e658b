---------------------------- MODULE PullSession ----------------------------
(***************************************************************************)
(* A Mercurial pull served by RepoClient (src/repo_client/src/client/     *)
(* mod.rs) while a push moves bookmarks, and lookups on the same server.  *)
(*                                                                         *)
(* The server state is the set of stored changesets over a fixed commit    *)
(* DAG and the bookmarks.  listkeys, heads and the listkeys part of        *)
(* getbundle read the bookmarks "maybe stale": from a cached view of the   *)
(* repository that a refresh replaces with the current state.  Phases are  *)
(* computed from the current bookmarks: a changeset is public when it is   *)
(* an ancestor of a bookmark.                                              *)
(*                                                                         *)
(* The client follows Mercurial's pull: it fetches bookmarks with          *)
(* listkeys before discovery unless the server advertises the bundle2      *)
(* listkeys capability, in which case it asks getbundle for them.          *)
(***************************************************************************)
EXTENDS Naturals, Sequences, FiniteSets, SequencesExt

CONSTANTS
    Commits,        \* changeset ids of the commit DAG
    Parents,        \* Parents[c]: the parents of c
    Root,           \* the changeset stored initially
    InitialBooks,   \* the bookmarks initially, all at Root or absent
    BookmarkNames,  \* bookmarks that exist or may be created
    HexName,        \* HexName[c]: the bookmark name spelt like c's hex hash
    NoCommit,       \* no changeset (an absent bookmark)
    NoName,         \* a lookup key that is not a valid bookmark name
    Pushers,        \* concurrent pushing clients
    MaxMoves,       \* bound on bookmark moves per pusher
    MaxLookups,     \* bound on lookup calls
    RawBundleCaps,  \* bundlecaps a client may send, as ParseGetbundleCaps reads them
    MaxBundleCaps   \* bound on the bundlecaps of one getbundle

\* Ancestors of a set of changesets, the set included.
RECURSIVE Ancestors(_)
Ancestors(S) ==
    LET T == S \cup UNION {Parents[c] : c \in S}
    IN IF T = S THEN S ELSE Ancestors(T)

\* Changesets of S that no changeset of S has as a parent.
DagHeads(S) == {c \in S : \A d \in S : c \notin Parents[d]}

\* Lookup keys: the hex of a changeset (also a valid bookmark name),
\* a plain bookmark name, or a string that is neither.
Keys == {[hash |-> c, name |-> HexName[c]] : c \in Commits}
        \cup {[hash |-> NoCommit, name |-> b] : b \in BookmarkNames}
        \cup {[hash |-> NoCommit, name |-> NoName]}

VARIABLES
    stored,     \* changesets in the repository
    books,      \* books[b]: the current target of bookmark b, or NoCommit
    view,       \* the maybe-stale view [stored, books] the cache serves
    locked,     \* the repository's lock status: writes refused
    pusher,     \* pusher[p]: the push in progress and the pushes made
    client,     \* the pulling client's session
    reader      \* the client running lookup

vars == <<stored, books, view, locked, pusher, client, reader>>

BookmarkOf(bm, name) == IF name \in DOMAIN bm THEN bm[name] ELSE NoCommit

\* Public changesets: ancestors of bookmarked changesets.
Public == Ancestors({books[b] : b \in BookmarkNames} \ {NoCommit})

-----------------------------------------------------------------------------
(* Capabilities                                                            *)

\* bundle2caps with the listkeys line enabled.
Bundle2CapsWithListkeys ==
    {<<"HG20", {}>>, <<"listkeys", {}>>, <<"changegroup", {"02"}>>,
     <<"b2x:infinitepush", {}>>, <<"b2x:infinitepushscratchbookmarks", {}>>,
     <<"pushkey", {}>>, <<"treemanifestserver", {"True"}>>,
     <<"b2x:rebase", {}>>, <<"b2x:rebasepackpart", {}>>,
     <<"phases", {"heads"}>>}

\* bundle2caps: the sub-capabilities of "bundle2=", as name/value pairs.
\* listkeys is left out so that clients fetch bookmarks before discovery.
Bundle2Caps ==
    {<<"HG20", {}>>, <<"changegroup", {"02"}>>,
     <<"b2x:infinitepush", {}>>, <<"b2x:infinitepushscratchbookmarks", {}>>,
     <<"pushkey", {}>>, <<"treemanifestserver", {"True"}>>,
     <<"b2x:rebase", {}>>, <<"b2x:rebasepackpart", {}>>,
     <<"phases", {"heads"}>>}

Bundle2CapNames == {cap[1] : cap \in Bundle2Caps}

(* parse_utf8_getbundle_caps.  A bundlecap is the bytes "name=value"     *)
(* where value, once percent-decoded, is lines "key=v1,v2,..." whose key  *)
(* and values are percent-encoded again.  The bytes are abstracted to    *)
(* their structure: name; hasEq (an '=' is present); nameOk, bodyOk      *)
(* (the name, the decoded value, is valid UTF-8); lines, each a key with *)
(* keyOk and its values, each a value v with ok (it decodes).  A line    *)
(* without '=' has no values; "key=" has the one value "" (split(',')   *)
(* of "" yields one empty piece).                                        *)

NoParse == [ok |-> FALSE]

EmptyCaps == [k \in {} |-> {}]

\* A line's decoded values.
LineValues(l) == {l.values[i].v : i \in DOMAIN l.values}

\* The loop over the lines: a key or a value that fails to decode makes
\* the whole bundlecap None (the ? operators); HashMap::insert replaces the
\* values of a key seen before.
RECURSIVE ParseCapLinesFirstWins(_, _)
ParseCapLinesFirstWins(lines, ans) ==
    IF lines = <<>> THEN [ok |-> TRUE, caps |-> ans]
    ELSE LET l == Head(lines)
         IN IF ~l.keyOk \/ \E i \in DOMAIN l.values : ~l.values[i].ok
            THEN NoParse
            ELSE ParseCapLinesFirstWins(Tail(lines), ans @@ (l.key :> LineValues(l)))

RECURSIVE ParseCapLines(_, _)
ParseCapLines(lines, ans) ==
    IF lines = <<>> THEN [ok |-> TRUE, caps |-> ans]
    ELSE LET l == Head(lines)
         IN IF ~l.keyOk \/ \E i \in DOMAIN l.values : ~l.values[i].ok
            THEN NoParse
            ELSE ParseCapLines(Tail(lines), (l.key :> LineValues(l)) @@ ans)

\* Without '=' the whole bundlecap is the name and the map is empty;
\* with it the name and the decoded value must be UTF-8.
ParseGetbundleCaps(raw) ==
    CASE ~raw.hasEq /\ raw.nameOk -> [ok |-> TRUE, name |-> raw.name, caps |-> EmptyCaps]
      [] ~raw.hasEq \/ ~raw.nameOk \/ ~raw.bodyOk -> NoParse
      [] OTHER -> LET m == ParseCapLines(raw.lines, EmptyCaps)
                  IN IF m.ok THEN [ok |-> TRUE, name |-> raw.name, caps |-> m.caps]
                     ELSE NoParse

\* create_bundle's loop over the bundlecaps: one that does not parse or
\* is not named bundle2 is skipped; the first with a phases entry decides
\* (break); without one, use_phases stays true.
RECURSIVE PhasesFromBundlecaps(_)
PhasesFromBundlecaps(bundlecaps) ==
    IF bundlecaps = <<>> THEN TRUE
    ELSE LET c == ParseGetbundleCaps(Head(bundlecaps))
         IN IF ~c.ok \/ c.name # "bundle2" \/ "phases" \notin DOMAIN c.caps
            THEN PhasesFromBundlecaps(Tail(bundlecaps))
            ELSE "heads" \in c.caps["phases"]

\* create_bundle: use_phases starts as the phases argument and the loop
\* runs only when it is true.
UsePhases(phases, bundlecaps) == phases /\ PhasesFromBundlecaps(bundlecaps)

\* The reference reading of a getbundle's bundlecaps, stated over the
\* whole input rather than as create_bundle's and
\* parse_utf8_getbundle_caps's loops: a bundlecap parses when every piece
\* of it decodes; a key's values are those of its last line; phases are
\* sent when asked for and, if some parsed bundle2 capability has a phases
\* entry, the first such one lists "heads".
RefParse(raw) ==
    LET L == raw.lines
        keys == {L[i].key : i \in DOMAIN L}
        lastLine(k) == CHOOSE i \in DOMAIN L :
                           L[i].key = k /\ \A j \in DOMAIN L : L[j].key = k => j <= i
    IN IF raw.nameOk /\ (raw.hasEq => raw.bodyOk /\ \A i \in DOMAIN L :
                              L[i].keyOk /\ \A j \in DOMAIN L[i].values : L[i].values[j].ok)
       THEN [ok |-> TRUE, name |-> raw.name,
             caps |-> IF raw.hasEq THEN [k \in keys |-> LineValues(L[lastLine(k)])]
                      ELSE EmptyCaps]
       ELSE NoParse

RefUsePhases(phases, bundlecaps) ==
    LET P == [i \in DOMAIN bundlecaps |-> RefParse(bundlecaps[i])]
        deciding == {i \in DOMAIN P : P[i].ok /\ P[i].name = "bundle2"
                                      /\ "phases" \in DOMAIN P[i].caps}
    IN phases /\ (deciding # {} =>
                  "heads" \in P[CHOOSE i \in deciding : \A j \in deciding : i <= j].caps["phases"])

\* The bundlecaps of one getbundle.
BundleCapSeqs == SeqOf(RawBundleCaps, MaxBundleCaps)

-----------------------------------------------------------------------------

Init ==
    /\ stored = {Root}
    /\ books = InitialBooks
    /\ view = [stored |-> {Root}, books |-> books]
    /\ locked = FALSE
    /\ pusher = [p \in Pushers |-> [pc |-> "idle", moves |-> 0, rw |-> FALSE,
                   c |-> Root, b |-> CHOOSE b \in BookmarkNames : TRUE,
                   blobs |-> <<>>, lockedAtStart |-> FALSE, statusOk |-> TRUE]]
    /\ client = [pc |-> "start", have |-> {Root}, heads |-> {}, common |-> {},
                 books |-> [b \in BookmarkNames |-> NoCommit], phased |-> FALSE,
                 askedPhases |-> FALSE]
    /\ reader = [pc |-> "idle", key |-> CHOOSE k \in Keys : TRUE,
                 storedAtStart |-> FALSE, ok |-> FALSE, val |-> NoCommit,
                 calls |-> 0]

-----------------------------------------------------------------------------
(* Pushers: unbundle                                                       *)

\* The bundle's file blobs for changeset c: each once, or one provided twice.
Bundles(c) == {<<c>>, <<c, c>>}

\* upload_blobs with a map that keeps the last value of a repeated key.
RECURSIVE UploadBlobsOverwrite(_, _)
UploadBlobsOverwrite(blobs, keys) ==
    IF blobs = <<>> THEN [ok |-> TRUE, keys |-> keys]
    ELSE UploadBlobsOverwrite(Tail(blobs), keys \cup {Head(blobs)})

\* upload_blobs: folds the blob stream into a map keyed by node hash; a
\* key inserted twice is the error "Blob already provided before".
RECURSIVE UploadBlobs(_, _)
UploadBlobs(blobs, keys) ==
    IF blobs = <<>> THEN [ok |-> TRUE, keys |-> keys]
    ELSE IF Head(blobs) \in keys THEN [ok |-> FALSE, keys |-> keys]
    ELSE UploadBlobs(Tail(blobs), keys \cup {Head(blobs)})

\* unbundle with a lock-status error taken for ReadWrite.
UnbundleStartAssumeWritable(p, c, b, blobs, statusOk) ==
    /\ pusher[p].pc = "idle"
    /\ pusher[p].moves < MaxMoves
    /\ pusher' = [pusher EXCEPT ![p] =
                    [pc |-> "resolve", moves |-> @.moves + 1,
                     rw |-> ~statusOk \/ ~locked, c |-> c, b |-> b, blobs |-> blobs,
                     lockedAtStart |-> locked, statusOk |-> statusOk]]
    /\ UNCHANGED <<stored, books, view, locked, client, reader>>

\* unbundle: repo.readonly() is read once, a failure to read it counts as
\* ReadOnly, and bundle2_resolver::resolve runs with that answer.
UnbundleStart(p, c, b, blobs, statusOk) ==
    /\ pusher[p].pc = "idle"
    /\ pusher[p].moves < MaxMoves
    /\ pusher' = [pusher EXCEPT ![p] =
                    [pc |-> "resolve", moves |-> @.moves + 1,
                     rw |-> statusOk /\ ~locked, c |-> c, b |-> b, blobs |-> blobs,
                     lockedAtStart |-> locked, statusOk |-> statusOk]]
    /\ UNCHANGED <<stored, books, view, locked, client, reader>>

\* resolve: a read-only push fails; otherwise the blobs are uploaded and
\* the changeset, whose parents must be stored, is created.  Any failure
\* aborts the push.
Resolve(p) ==
    LET u == pusher[p]
    IN /\ u.pc = "resolve"
       /\ IF u.rw /\ UploadBlobs(u.blobs, {}).ok /\ Parents[u.c] \subseteq stored
          THEN /\ stored' = stored \cup {u.c}
               /\ pusher' = [pusher EXCEPT ![p].pc = "book"]
          ELSE /\ pusher' = [pusher EXCEPT ![p].pc = "idle"]
               /\ UNCHANGED stored
       /\ UNCHANGED <<books, view, locked, client, reader>>

\* The pushkey part: the bookmark is created or moved forward to the
\* pushed changeset; a non-fast-forward move fails the push.
MoveBookmark(p) ==
    LET u == pusher[p]
    IN /\ u.pc = "book"
       /\ books' = IF books[u.b] \in Ancestors({u.c}) \cup {NoCommit}
                   THEN [books EXCEPT ![u.b] = u.c] ELSE books
       /\ pusher' = [pusher EXCEPT ![p].pc = "idle"]
       /\ UNCHANGED <<stored, view, locked, client, reader>>

\* res.timeout(timeout_duration()): the push fails with Timeout and the
\* resolve future is dropped where it stands.
UnbundleTimeout(p) ==
    /\ pusher[p].pc \in {"resolve", "book"}
    /\ pusher' = [pusher EXCEPT ![p].pc = "idle"]
    /\ UNCHANGED <<stored, books, view, locked, client, reader>>

\* An administrator locks or unlocks the repository for writes.
SetLock ==
    /\ locked' = ~locked
    /\ UNCHANGED <<stored, books, view, pusher, client, reader>>

\* The cache behind the maybe-stale reads catches up with the repository.
Refresh ==
    /\ view # [stored |-> stored, books |-> books]
    /\ view' = [stored |-> stored, books |-> books]
    /\ UNCHANGED <<stored, books, locked, pusher, client, reader>>

-----------------------------------------------------------------------------
(* The pulling client and the commands it calls                           *)

\* The client reads the capabilities from hello; without a bundle2
\* listkeys capability it first calls listkeys("bookmarks"):
\* get_bookmarks_maybe_stale collected into a map.
ListKeys ==
    /\ client.pc = "start"
    /\ client' = [client EXCEPT !.pc = "heads",
                     !.books = IF "listkeys" \in Bundle2CapNames THEN @ ELSE view.books]
    /\ UNCHANGED <<stored, books, view, locked, pusher, reader>>

\* heads: get_heads_maybe_stale collected into a set.
Heads ==
    /\ client.pc = "heads"
    /\ client' = [client EXCEPT !.pc = "known", !.heads = DagHeads(view.stored)]
    /\ UNCHANGED <<stored, books, view, locked, pusher, reader>>

\* known(nodes): a node is known when it maps to a bonsai changeset whose
\* phase is Public.
Known(n) == n \in stored /\ n \in Public

\* knownnodes(nodes): a node is known when it maps to a bonsai changeset,
\* whatever its phase.
KnownNodes(n) == n \in stored

\* Discovery: the client asks known, or knownnodes, for its changesets;
\* the known ones are common.
Discovery ==
    /\ client.pc = "known"
    /\ \E viaKnownNodes \in BOOLEAN :
          client' = [client EXCEPT !.pc = "getbundle",
                        !.common = {n \in client.have :
                                      IF viaKnownNodes THEN KnownNodes(n) ELSE Known(n)}]
    /\ UNCHANGED <<stored, books, view, locked, pusher, reader>>

\* getbundle(common, heads, listkeys, phases, bundlecaps) via
\* create_bundle: the changesets reachable from heads and not from common,
\* the bookmarks part when listkeys asks for bookmarks, phases when
\* UsePhases says so.  askedPhases records, for the properties, whether the
\* request asked for phases by the reference reading of its arguments.
GetBundle(phases, bundlecaps) ==
    LET wantBooks == "listkeys" \in Bundle2CapNames
    IN /\ client.pc = "getbundle"
       /\ client' = [client EXCEPT
                        !.pc = "done",
                        !.have = @ \cup (Ancestors(client.heads) \ Ancestors(client.common)),
                        !.books = IF wantBooks THEN view.books ELSE @,
                        !.phased = UsePhases(phases, bundlecaps),
                        !.askedPhases = RefUsePhases(phases, bundlecaps)]
       /\ UNCHANGED <<stored, books, view, locked, pusher, reader>>

\* getbundle's other outcome: create_bundle fails (a requested head the
\* repository cannot resolve) and the stream is that one error, or
\* whole_stream_timeout ends the stream with "timeout".  The client
\* aborts the pull and applies nothing it received.
GetBundleFails ==
    /\ client.pc = "getbundle"
    /\ client' = [client EXCEPT !.pc = "failed"]
    /\ UNCHANGED <<stored, books, view, locked, pusher, reader>>

-----------------------------------------------------------------------------
(* lookup(key)                                                             *)

\* A lookup that resolves bookmarks before hashes.
LookupStartBookmarkFirst(key) ==
    /\ reader.pc = "idle"
    /\ reader.calls < MaxLookups
    /\ reader' = [reader EXCEPT
                    !.key = key, !.calls = @ + 1,
                    !.storedAtStart = key.hash \in stored,
                    !.pc = IF key.name # NoName THEN "bookmark" ELSE "done",
                    !.ok = FALSE, !.val = NoCommit]
    /\ UNCHANGED <<stored, books, view, locked, pusher, client>>

\* The key is parsed as a hash and as a bookmark name: both parse ->
\* changeset_exists first; only a bookmark -> get_bookmark; else invalid.
LookupStart(key) ==
    /\ reader.pc = "idle"
    /\ reader.calls < MaxLookups
    /\ reader' = [reader EXCEPT
                    !.key = key, !.calls = @ + 1,
                    !.storedAtStart = key.hash \in stored,
                    !.pc = CASE key.hash # NoCommit /\ key.name # NoName -> "exists"
                             [] key.hash = NoCommit /\ key.name # NoName -> "bookmark"
                             [] OTHER -> "done",
                    !.ok = FALSE, !.val = NoCommit]
    /\ UNCHANGED <<stored, books, view, locked, pusher, client>>

\* A lookup that answers the parsed hash without changeset_exists.
LookupExistsUnchecked ==
    /\ reader.pc = "exists"
    /\ reader' = [reader EXCEPT !.pc = "done", !.ok = TRUE, !.val = reader.key.hash]
    /\ UNCHANGED <<stored, books, view, locked, pusher, client>>

\* changeset_exists answers "1 <hex>", or falls back to the bookmark.
LookupExists ==
    /\ reader.pc = "exists"
    /\ reader' = IF reader.key.hash \in stored
                  THEN [reader EXCEPT !.pc = "done", !.ok = TRUE, !.val = reader.key.hash]
                  ELSE [reader EXCEPT !.pc = "bookmark"]
    /\ UNCHANGED <<stored, books, view, locked, pusher, client>>

\* check_bookmark_exists: "1 <hex>" of the target, or "0 <name> not found".
LookupBookmark ==
    LET target == BookmarkOf(books, reader.key.name)
    IN /\ reader.pc = "bookmark"
       /\ reader' = [reader EXCEPT !.pc = "done", !.ok = target # NoCommit,
                                    !.val = target]
       /\ UNCHANGED <<stored, books, view, locked, pusher, client>>

\* The caller reads the response.
LookupReturn ==
    /\ reader.pc = "done"
    /\ reader' = [reader EXCEPT !.pc = "idle"]
    /\ UNCHANGED <<stored, books, view, locked, pusher, client>>

\* The pull and every lookup have been answered.
SessionsEnd ==
    /\ client.pc \in {"done", "failed"}
    /\ reader.pc = "idle" /\ reader.calls = MaxLookups
    /\ UNCHANGED vars

Next ==
    \/ \E p \in Pushers, c \in Commits, b \in BookmarkNames, statusOk \in BOOLEAN :
          \E blobs \in Bundles(c) : UnbundleStart(p, c, b, blobs, statusOk)
    \/ \E p \in Pushers : Resolve(p) \/ MoveBookmark(p) \/ UnbundleTimeout(p)
    \/ SetLock \/ Refresh
    \/ ListKeys \/ Heads \/ Discovery
    \/ \E phases \in BOOLEAN, bundlecaps \in BundleCapSeqs : GetBundle(phases, bundlecaps)
    \/ GetBundleFails
    \/ \E key \in Keys : LookupStart(key)
    \/ LookupExists \/ LookupBookmark \/ LookupReturn
    \/ SessionsEnd

Spec == Init /\ [][Next]_vars

-----------------------------------------------------------------------------
(* Properties                                                              *)

TypeOK ==
    /\ stored \subseteq Commits
    /\ books \in [BookmarkNames -> Commits \cup {NoCommit}]
    /\ client.pc \in {"start", "heads", "known", "getbundle", "done", "failed"}
    /\ client.have \subseteq Commits
    /\ reader.pc \in {"idle", "exists", "bookmark", "done"}
    \* a successful lookup names a changeset of the repository
    /\ reader.ok => reader.val \in stored
    /\ \A p \in Pushers : pusher[p].pc \in {"idle", "resolve", "book"}
                         /\ pusher[p].moves \in 0..MaxMoves

\* At the end of a pull every bookmark the client received points at a
\* changeset the pull gave it: a push moving a bookmark between discovery
\* and getbundle never leaves the client with a dangling bookmark (the
\* race the comment in bundle2caps describes).
PulledBookmarksResolve ==
    client.pc = "done" =>
        \A b \in BookmarkNames : client.books[b] \in client.have \cup {NoCommit}

\* lookup of the hex of a changeset the repository already stored answers
\* that changeset, even when a bookmark has the same name.
LookupFindsStoredChangeset ==
    reader.pc = "done" /\ reader.storedAtStart =>
        reader.ok /\ reader.val = reader.key.hash

\* unbundle changes the repository only for a push that began while the
\* repository was unlocked, that could read the lock status (a failed read
\* counts as read-only), and whose bundle provides every blob once
\* (upload_blobs refuses a repeated node hash): no refused push stores a
\* changeset or moves a bookmark, whatever else runs meanwhile.
OnlyAcceptedPushesWrite ==
    [][(stored' # stored \/ books' # books) =>
         \E p \in Pushers :
            LET u == pusher[p]
            IN /\ u.pc \in {"resolve", "book"}
               /\ ~u.lockedAtStart /\ u.statusOk
               /\ \A i, j \in 1..Len(u.blobs) : i # j => u.blobs[i] # u.blobs[j]]_vars

\* A completed pull carries phases exactly when its getbundle asked for
\* them by the reference reading of its phases flag and bundlecaps:
\* create_bundle's loop and parse_utf8_getbundle_caps skip a bundlecap
\* with one badly encoded value as a whole, keep a repeated key's last
\* values and let the first bundle2 capability with phases decide.
PhasesFollowBundlecaps ==
    client.pc = "done" => client.phased = client.askedPhases
====

# TLA+ models of Mononoke

Mononoke is a Mercurial-compatible source-control server. This directory holds TLA+
models of the parts of the code under `src/` whose behaviour depends on
interleavings, replication lag, partial failure or subtle index arithmetic,
and the TLC configurations that check them. `PROJECT.json` lists every
component, every run, the mutant that shows each property can fail, the source
lines each definition translates, the findings and the hazards.

## Inventory of the system

| Part | Source | State | Operations | Hard behaviour |
|---|---|---|---|---|
| A. SQL blob store | `src/blobstore/sqlblob/src/store.rs` | per-shard `data` and `chunk` tables on a master and a lagging read replica | `DataSqlStore::get/put/is_present`, `ChunkSqlStore::get/put` | replica lag with master fallback, header and chunks on different shards, row-wise `INSERT OR IGNORE`, failures between statements, i32 chunk count |
| B. Caches | `src/common/rust/caching_ext/src/cachelib_utils.rs`, `src/apiserver/src/actor/model.rs` | cachelib / LRU pool keyed by string | `get_multiple_from_cachelib`, `fill_multiple_cachelib`, `materialize_future` | key collisions, concurrent fills without coalescing, eviction, a pool that declines a store |
| D. Reachability index | `src/reachabilityindex/genbfs/src/lib.rs` | BFS layer, seen set | `query_reachability`, `process_bfs_layer` | generation-number pruning bound, revisiting nodes reached on several paths |
| E/F. Wire protocol | `src/repo_client/src/client/mod.rs` | per-connection session; reads bookmarks, phases, changesets | `between`, `lookup`, `known`, `knownnodes`, `heads`, `listkeys`, `getbundle`, `gettreepack`, `getfiles`, `getpackv1`, `stream_out_shallow`, `unbundle`, `hello` | bookmark race between discovery and getbundle, timeouts, buffered out-of-order fetches, pipe deadlock in getfiles against a send-all-then-read client, sampling arithmetic in between |
| G. Bundle resolver | `src/bundle2-resolver/src/upload_blobs.rs` | map of uploaded node hashes | `upload_hg_blobs` | duplicate blob aborts a push midway |
| Revset validation | `src/revset/src/validation.rs` | seen hashes, last generation | `ValidateNodeStream::new`, `poll` | whole-stream order checked by comparing neighbours, equal generations |
| Hooks content | `src/hooks/content-stores/src/lib.rs` | none (reads) | `get_changed_files`, file content lookups | merges diffed against p1 only |
| Blobimport, admin, HTTP front end, type crates | see `PROJECT.json` | — | — | sequential I/O or declarations only; not modelled |

Interactions: the wire protocol commands read changesets and bookmarks that
`unbundle` writes; all reads and writes of content end in the blob store; the
API server and the reachability index read through caches in front of the blob
store.

## Modules and how they correspond to the code

### `SqlBlobStore` (part A)
State: `log[s]` is the sequence of rows committed on shard `s`'s master;
`applied[s]` is how much of it the replica has applied (asynchronous
replication, `Replicate`). A row is `DataRow` (InsertData, store.rs:75-83:
either an inline value or `InChunk(n)`) or `ChunkRow` (InsertChunk, 85-93).
`InsertOrIgnore` is MySQL's `INSERT IGNORE` on the table's primary key.
`writer[w]` and `reader[r]` are the in-flight calls.

Actions: `StartPut` chooses the value layout (the chunking caller lives in
the sqlblob crate root, outside `src/`, so it is taken from the specification:
chunk rows first, header last); `PutChunk` is `ChunkSqlStore::put`; `PutData`
is `DataSqlStore::put` and confirms the key; `PutFails` is an error of any
statement, ending the put after whatever rows it has committed.
`StartGet`/`GetDataReplica`/`GetDataMaster`/`DecodeData` are
`DataSqlStore::get`: replica query, master fallback on a miss, and the decode
of an inline value or a chunk count; `GetChunkReplica`/`GetChunkMaster` are
`ChunkSqlStore::get`, where a miss on the master is the "Missing chunk"
error. `StartIsPresent`/`IsPresentReplica`/`IsPresentMaster` are
`is_present`. Shard choice (XxHash32 modulo shard count, 1-based) is the
constant maps `DataShard` and `ChunkShard`.

### `BlobStore` (abstract contract of part A)
What the blob store promises: a map from keys to values where a put of a
stored key changes nothing (first write wins), a put takes effect at once,
and `get`/`is_present` answer from the map at one instant of the call
(`ReadGet`, `AnswerIsPresent`), a get never failing. `SqlBlobStore` is
checked to implement it (`Refinement == Abs!Spec`): the map is the master's
data rows (`StoredValue`), a get has read it once its data row read hit
(`AbsOp`), and its chunk reads must then deliver the value the header
announced (`ValueWithChunks`, `ValueOfPieces`; "torn" or "error" have no
abstract counterpart).

### `ValidateNodeStream` (revset validation)
`revset/src/validation.rs`. State: `last_generation` (`None` first),
`seen_hashes`, the items the wrapped stream has yielded (`input`) and those
passed on (`emitted`), and `pc`. The wrapped stream is the environment: any
changeset of the repository (with the generation `add_generations_by_bonsai`
attaches, `Gen`), the end, or an error. `PollItem` is `poll` on an item: the
hash insert, the two asserts (a failure is `pc = "panicked"`), the update of
`last_generation` and the hash passed on; `GenerationIncreased` is the
assert of line 62 (Rust orders `None` below every `Some`). `PollEnd` and
`PollError` are the other arms. `IsRevsetOrder` is the reference definition
of the order the specification states.

### `ReachabilityQuery` and `GenBFS` (part D)
`ReachabilityQuery` is the abstract contract: one step answers `error` if the
source changeset is unknown, otherwise whether `dst` is an ancestor-or-self of
`src`. `GenBFS` follows `query_reachability` step by step: `CheckSrc`
(check_if_node_exists), `FetchGeneration`, and the `loop_fn` body as `Found`,
`Exhausted` and `ProcessLayer` (process_bfs_layer: mark the layer seen, fetch
parents, keep the unseen ones whose generation is at least dst's). `fetched`
counts parent fetches per node. `GenBFS` is shown to implement the contract by
`Refinement == Abs!Spec`, with the result hidden until the loop ends.

### `Between` (part F)
Follows `RepoClient::between`: per pair, `ParentStream` walks first parents
from `top` until `bottom` or the null hash, the enumerate/filter keeps indices
1, 2, 4, 8, ... and the pair's list is collected; an unknown changeset is an
error that fails the whole request. `Chain` and `Sample` are the reference
definition (Mercurial's `between`), `BetweenMatchesReference` compares.

### `EntryCache` (part B)
Follows `EntryWithSizeAndContentHash::materialize_future` and
`get_cached_or_fill` on an LRU pool: lookup by `CacheKey`, compute on a miss,
store (which the pool may decline), evict at any time. `Computing(h)` is the
set of callers whose lookup or fill of key `h` is under way: the code spawns
the fetch (`spawn_future`, model.rs:139) before it consults the cache, so two
callers of one key both compute it; `AtMostOneComputePerKey` states the
coalescing the specification promises and its run finds it violated.
The error paths are kept: an entry without a name fails before anything is
spawned, a failed content fetch fails the call and stores nothing, and
without a cache pool (`UseCache`) the spawned future is the answer
(`Compute`). Both EntryCache runs set `UseCache = TRUE`, since their
questions are about the cache; `Compute` is in the model for completeness
and no run takes it.

### `ResponseStream` (abstract contract)
What every streaming command promises its client: responses `1..total` in
order, then the end of the stream, or a failure at any point. `total` is
fixed by the request, or decided by the server once (`Plan`), which is how
`stream_out_shallow` works. `FetchStreams` is checked to implement it.

### `PullSession` (parts E/F and G)
State: `stored` (changesets over a fixed commit DAG), `books` (bookmarks),
`view` (the maybe-stale `[stored, books]` that `get_bookmarks_maybe_stale`
and `get_heads_maybe_stale` serve; `Refresh` brings it up to date), `locked`
(the repository's lock status), `pusher[p]` (the push in progress), `client`
(a pulling hg client) and `reader` (a client calling `lookup`).

Pushes follow `unbundle` (mod.rs:927-971): `UnbundleStart` reads
`readonly()` once, an error counting as ReadOnly; `Resolve` is
`bundle2_resolver::resolve` (outside `src/`, from the specification):
read-only refusal, `UploadBlobs` (the fold of upload_blobs.rs, which refuses
a node hash provided twice), creation of the changeset; `MoveBookmark` is
the fast-forward pushkey; `UnbundleTimeout` drops the resolve wherever it
stands. `SetLock` is an administrator locking the repository.

The pull follows Mercurial's client against `hello`'s capabilities
(`Bundle2Caps`, mod.rs:144-199): `ListKeys` fetches bookmarks first because
`listkeys` is not a bundle2 capability, then `Heads`, `Discovery` with
`known` (stored and public) or `knownnodes` (stored), and `GetBundle` (`create_bundle`: the
changesets reachable from heads and not from common; the phases decision
`UsePhases`) or `GetBundleFails` (create_bundle's error as a one-item
stream, or `whole_stream_timeout`; the client applies nothing).
`UsePhases` is create_bundle's loop (`PhasesFromBundlecaps`, mod.rs:339-357)
over the client's bundlecaps, each read by `ParseGetbundleCaps`
(`parse_utf8_getbundle_caps`, mod.rs:1551-1587). A bundlecap's bytes are
abstracted to their structure: the name, whether it has `=`, whether the
name and the decoded value are UTF-8, and its lines, each a key and values
that do or do not percent-decode. Every `?` of the parser is a `NoParse`
result, and a repeated key replaces the earlier one, as `HashMap::insert`
does. `RefUsePhases` is an independent reading of the same arguments,
stated over the whole input: every piece decodes, a key's last line counts,
and the first parsed bundle2 capability with phases decides. `GetBundle`
records it as `askedPhases`.
`LookupStart`/`LookupExists`/`LookupBookmark` are `lookup`: a key that parses
as a hash is checked with `changeset_exists` first, then as a bookmark.

### `GetTreePack` (part F)
`gettreepack_untimed` with `get_changed_manifests_stream`: one walk per
requested manifest against the first base (`StartFrontier`, depth 1 yields
the root only), run as one `select_all` stream (`Step(i, e)` for any walk
`i`) with a shared `VisitedPruner` when there are several manifests; each
walk ends with its root (`Root`). `Emit` is the `used_hashes` filter and
`fetch_treepack_part_input`'s sampled validation (`Validates`: a corrupt
non-root tree is DataCorruption). `Timeout` is the whole-stream timeout.
`Changed`/`Needed` are the reference: every changed (path, tree) within the
depth.

### `FetchStreams` (part F)
`getfiles`, `getpackv1` and `stream_out_shallow` between a client and the
server over two bounded pipes (`toServer`, `toClient`, capacities
`ReqCap`/`RespCap`). As the comment in getpackv1 says (mod.rs:1238-1240), the
hg client writes every argument before reading (`ClientSend`, then
`ClientRead`). `GetfilesRead` maps arguments lazily into fetches;
`GetpackRead` collects the whole request, then `GetpackStartFetch` starts
fetches; `StreamOutStart` loads the changelog chunk list (or fails, or is
empty without a streaming clone config) and `StreamOutFeed` follows the
chained header and per-file `buffered(100)` streams (`StreamLayout` is the
response's item sequence). `inflight` is the `buffered` queue: `FetchDone(j)`
completes any fetch, `Yield` emits the oldest completed one. `ServerEnd`
ends the response; `Timeout` is `whole_stream_timeout`.

`Progress` is every step of the client and the server while the exchange is
open, `Next` adds `Timeout` and the terminal stutter `Ended`, and `FairSpec`
adds `WF_vars(Progress)`. The refinement mapping `Abs` sends `received` to
`delivered`, `ResponseTotal` (the argument count, or the length of the
stream_out layout once `StreamOutStart` has loaded it, -1 = `Unknown`
before) to `total`, and `pc` to `status`.

## Runs

| Run | Expect | What it shows |
|---|---|---|
| `sqlblob_content_addressed` | pass | With one value per key (content addressing), two writers, two readers, two shards with independently lagging replicas and failing puts: `GetReturnsAPutValue` (a get returns exactly a value some put stored), `ConfirmedKeyIsFound` (a key whose put completed before the get started, or that `is_present` reported, is found), `NoMissingChunk` (no get ever reports a missing chunk), `Refinement` (the store implements `BlobStore`: each put takes effect at its data row insert, each get and is_present answers from the map at one instant of the call). |
| `sqlblob_overwrite` | violation | Two different chunked values under one key tear: the get returns chunk 0 of one and chunk 1 of the other. |
| `genbfs_all_dags` | pass | For every DAG of five changesets with at most two parents and every query, the BFS refines the contract, and no changeset's parents are fetched twice. |
| `between_reference` | pass | Every first-parent history of four changesets, every request of up to two pairs including unknown and null hashes: between equals the reference. |
| `entry_cache_same_hash` | violation | Two entries with one content hash get each other's name from the cache. |
| `pull_bookmark_race` | pass | A pull and a lookup interleaved with pushes, lock changes and cache refreshes: `PulledBookmarksResolve` (no bookmark the client received points at a changeset it did not receive: the race the bundle2caps comment describes), `LookupFindsStoredChangeset` (a stored changeset's hex is answered as that changeset even when a bookmark has that name), `OnlyAcceptedPushesWrite` (only a push begun on an unlocked repository, with a readable lock status and no repeated blob, stores a changeset or moves a bookmark), `PhasesFollowBundlecaps` (a completed pull carries phases exactly when its phases flag and bundlecaps ask for them by the reference reading, over every sequence of up to two bundlecaps: well-formed, with a value that does not decode, with phases listed twice, without `=`, with a name that is not UTF-8). |
| `entry_cache_concurrent_fill` | violation | `AtMostOneComputePerKey`: two callers of one key both compute it, because the fetch is spawned before the cache is consulted |
| `gettreepack_walks` | pass | One, two, reordered or repeated manifests, zero to two bases, depths 1, 2 and the default, a sampled corrupt tree: `TreepackHashesExactlyOnce` (a completed treepack carries every needed tree hash exactly once). |
| `gettreepack_shared_subtree` | violation | Two directories with the same subtree: `used_hashes` sends only one of the two (path, tree) entries. |
| `fetch_streams` | pass | under `FairSpec`: `TypeOK`; `Refinement` (every exchange of getfiles, getpackv1 and stream_out_shallow is a behaviour of `ResponseStream`: responses in request order, none lost or duplicated, end only after the last); `ExchangeCompletes` (getfiles with a three-argument request, getpackv1 with five and stream_out_shallow finish or fail without relying on the timeout) |
| `revset_validation` | pass | Every wrapped stream of up to four items over a root, a child and two siblings of equal generation: `EmittedIsRevsetOrder` (what the consumer receives has no repeated hash and non-increasing generations over the whole stream, though poll compares neighbours only), `PanicsOnlyOnInvalidInput` (poll panics only once the input has left revset order, never on equal-generation siblings, and passes every item on until then). |
| `getfiles_large_request` | violation | getfiles with a request larger than pipes and buffer: the client and server block each other until the timeout. |

Each property of a passing run has a mutant in `PROJECT.json`: a variant of
the action it is about, placed just before it (`DecodeDataLastIndex`,
`GetDataReplicaOnly`, `GetChunkReplicaOnly`, `ProcessLayerStrict`,
`ProcessLayerNoSeen`, `PollFromOne`, `GotChunkPastEnd`, `CheckSrcSkipped`, `EndPairKeepFilter`,
`Bundle2CapsWithListkeys`, `LookupStartBookmarkFirst`, `LookupExistsUnchecked`,
`UnbundleStartAssumeWritable`, `UploadBlobsOverwrite`, `StartFrontierAnyDepth`,
`EmitUnfiltered`, `YieldUnordered`, `GetpackReadLazy`, `GetpackStartFetchUnbounded`, `ServerEndEarly`,
`GetfilesReadUnbounded`, `PollItemNoUpdate`,
`GenerationIncreasedEq`, `StartPutHeaderFirst`, `ParseCapLinesFirstWins`), for which TLC finds the violation.

### Bounds
- Blob store: two keys are enough for one on each shard; the chunked value has
  two chunks on different shards so the header and each chunk lag
  independently; one put per writer and two gets per reader let a get race a
  put, a failed put, and a retry by the other writer. Writers and readers are
  symmetric.
- GenBFS: five nodes give diamonds, paths of different length to the same
  node (where the seen set matters) and ancestors at equal generation (where
  the `>=` bound matters).
- Between: four nodes give chains of length four, so the filter keeps indices
  1 and 2 and skips 3; two pairs per request show one failing pair failing
  the request.
- PullSession: four changesets (a root, a child, and two children of it)
  let a bookmark move forward past what the client discovered; a bookmark
  named like a changeset's hex makes lookup's hash/bookmark order matter;
  one pusher with two pushes, each choosing the changeset, bookmark, lock
  status read and a repeated blob, and an unbounded lock toggle. Six
  bundlecaps in sequences of up to two put a skipped capability before a
  deciding one, and two deciding ones in both orders.
- GetTreePack: two manifests sharing a subtree and differing in another,
  two levels deep, so the shared pruner, `used_hashes` and the depth cut all
  act; one tree is corrupt so validation fails on sampled requests.
- ValidateNodeStream: four changesets with generations 1, 2, 3, 3 and four
  items per stream give a repeat, a rise, a drop, equal siblings, and a rise
  after a drop that only a remembered `last_generation` catches.
- FetchStreams: pipes of one message and a buffer of two are smaller than a
  five-argument request, which is what a real request is against OS pipe
  buffers and `buffered(100)`; three data blobs exceed the buffer.

### Fairness
Only `fetch_streams` checks liveness, under `WF_vars(Progress)`: a step of
the client or the server that stays enabled is eventually taken, which is
what the tokio executor gives a future that is woken (a ready pipe, a
completed fetch). `Timeout` is not fair: `ExchangeCompletes` must hold
without it, so the timeout cannot be what makes the exchange finish.
`Progress` is guarded by the exchange being open, so fairness never forces a
step after the client has given up. getfiles runs there with a
three-argument request, which the pipes and the buffer hold; with a request
larger than both it does not complete without the timeout, which
`getfiles_large_request` shows.

## Findings
See `PROJECT.json` for each with its source line:
- two puts of different chunked values under one key in the SQL blob store
  can tear (the specification says first write wins);
- the `between` indices differ by one from the specification's scenario 5
  (seen in the code; the run on the 20-commit chain that showed it was
  retired to make room for the revset validation run, and
  `between_reference` pins the code's indices 1, 2, 4, ...);
- the API entry cache key omits the entry's name and type;
- the API entry cache does not coalesce concurrent fills of one key: the
  fetch is spawned before the cache lookup (model.rs:139);
- hello advertises changegroup 02 only, the specification says 01,02 (seen
  in the code, a constant with no run of its own);
- gettreepack deduplicates by tree hash only, so identical subtrees at two
  paths are sent once;
- getfiles reads its arguments lazily and deadlocks, until the timeout, with
  a client that writes the whole request before reading (the client
  getpackv1's comment describes).

## Not modelled
- Blobimport (out of scope per the specification, one sequential pipeline),
  the admin `config_repo` command and the HTTP front end (process, file and
  request plumbing), the type and error crates (no state), logging, scuba,
  telemetry and `clienttelemetry` (no state the commands read).
- The cachelib handler: `get_multiple_from_cachelib` and
  `fill_multiple_cachelib` are a loop of lookups and a loop of stores whose
  result is ignored; what happens under concurrency is decided by their
  callers in caching_ext, outside `src/`. The at-most-once contract they
  would be held to is checked on the API server path (`EntryCache`).
- The `i32` cast of a chunk count in the SQL blob store (store.rs:187): its
  edge (counts from 2^31) is beyond TLC's 32-bit integers.
- Hook content stores: read-only lookups with no shared state;
  `get_changed_files` diffing a merge against p1 only is a per-call function
  for a unit test.
- Percent-decoding and UTF-8 validation themselves: `ParseGetbundleCaps`
  takes whether each piece decodes as part of its input, since the
  decoders are library code outside `src/`.
- `wireprotocaps` and `hello`'s other capabilities: constants that no
  modelled client decision reads except `bundle2`.

## Further work
1. Liveness of the pull session (`PullSession`) under the same executor
   fairness as `FetchStreams`, and whether the unbundle timeout leaving a
   stored changeset without its bookmark move contradicts the
   specification's "a timeout does not leave partial state".
2. Larger instances of `GetTreePack` and `FetchStreams` (several commands in
   a row over one connection).

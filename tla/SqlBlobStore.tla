--------------------------- MODULE SqlBlobStore ---------------------------
(***************************************************************************)
(* The sharded SQL blob store of src/blobstore/sqlblob/src/store.rs.       *)
(*                                                                         *)
(* Each shard has one master and one replica.  The master's contents are  *)
(* kept as its replication log (the rows in commit order); the replica    *)
(* has applied a prefix of that log.  Rows are never updated: inserts are *)
(* INSERT OR IGNORE on the primary key, so a second insert of the same    *)
(* key is a no-op and writes nothing to the log.                          *)
(*                                                                         *)
(* Writers run the chunked put of the sqlblob crate (chunk rows first,    *)
(* then the header row) and may fail between any two SQL statements.     *)
(* Readers run DataSqlStore::get (replica, then master on a miss), then   *)
(* one ChunkSqlStore::get per chunk (replica, then master, MissingChunk   *)
(* when the master has no row), and DataSqlStore::is_present.             *)
(***************************************************************************)
EXTENDS Naturals, Sequences, FiniteSets

CONSTANTS
    Keys,          \* blob keys
    Values,        \* blob values
    ValuesOf,      \* ValuesOf[k]: the values writers put under key k
    NumChunks,     \* NumChunks[v]: 0 when v is stored inline, else chunk count
    NumShards,     \* shard_num
    DataShard,     \* DataShard[k]: DataSqlStore::shard(k), in 1..NumShards
    ChunkShard,    \* ChunkShard[k][c]: ChunkSqlStore::shard(k, c)
    Writers,       \* concurrent callers of put
    Readers,       \* concurrent callers of get / is_present
    MaxPuts,       \* bound on put calls per writer
    MaxGets        \* bound on get / is_present calls per reader

Shards == 1..NumShards
MaxChunk == CHOOSE m \in {NumChunks[v] : v \in Values} :
                \A v \in Values : NumChunks[v] <= m
ChunkIds == 0..(MaxChunk - 1)

\* The bytes of a value as the store returns them: one inline piece, or the
\* chunks in chunk_id order.
Pieces(v) == IF NumChunks[v] = 0 THEN <<v>>
             ELSE [i \in 1..NumChunks[v] |-> <<v, i - 1>>]

DataRow(k, dtype, val) == [table |-> "data", key |-> k, dtype |-> dtype, value |-> val]
ChunkRow(k, c, val) == [table |-> "chunk", key |-> k, chunk |-> c, value |-> val]

VARIABLES
    log,        \* log[s]: rows of shard s's master, in commit order
    applied,    \* applied[s]: length of the log prefix shard s's replica has
    writer,     \* writer[w]: state of writer w's put
    reader,     \* reader[r]: state of reader r's get or is_present
    confirmed   \* keys some put completed on, or is_present returned true for

vars == <<log, applied, writer, reader, confirmed>>

MasterRows(s) == {log[s][j] : j \in 1..Len(log[s])}
ReplicaRows(s) == {log[s][j] : j \in 1..applied[s]}

\* Rows with the primary key (repo_id, id) or (repo_id, id, chunk_id).
DataRowsOf(rows, k) == {x \in rows : x.table = "data" /\ x.key = k}
ChunkRowsOf(rows, k, c) == {x \in rows : x.table = "chunk" /\ x.key = k /\ x.chunk = c}

SamePrimaryKey(x, y) ==
    /\ x.table = y.table /\ x.key = y.key
    /\ x.table = "chunk" => x.chunk = y.chunk

\* insert_or_ignore: the row is committed unless its primary key exists.
InsertOrIgnore(s, row) ==
    IF \E x \in MasterRows(s) : SamePrimaryKey(x, row)
    THEN log
    ELSE [log EXCEPT ![s] = Append(@, row)]

WriterIdle == [pc |-> "idle", key |-> CHOOSE k \in Keys : TRUE,
               val |-> CHOOSE v \in Values : TRUE, pending |-> {}, puts |-> 0]
ReaderIdle == [pc |-> "idle", key |-> CHOOSE k \in Keys : TRUE, n |-> 0, i |-> 0,
               parts |-> <<>>, res |-> "none", expect |-> FALSE, ops |-> 0]

Init ==
    /\ log = [s \in Shards |-> <<>>]
    /\ applied = [s \in Shards |-> 0]
    /\ writer = [w \in Writers |-> WriterIdle]
    /\ reader = [r \in Readers |-> ReaderIdle]
    /\ confirmed = {}

-----------------------------------------------------------------------------
(* Writers: the chunked put.                                               *)

\* A put that writes its header row before its chunk rows.
StartPutHeaderFirst(w, k, v) ==
    /\ writer[w].pc = "idle"
    /\ writer[w].puts < MaxPuts
    /\ writer' = [writer EXCEPT ![w] =
                    [pc |-> "header", key |-> k, val |-> v,
                     pending |-> 0..(NumChunks[v] - 1), puts |-> @.puts + 1]]
    /\ UNCHANGED <<log, applied, reader, confirmed>>

\* A put of v under k: an inline value goes straight to its header row,
\* a large one first writes its chunk rows.
StartPut(w, k, v) ==
    /\ writer[w].pc = "idle"
    /\ writer[w].puts < MaxPuts
    /\ writer' = [writer EXCEPT ![w] =
                    [pc |-> IF NumChunks[v] = 0 THEN "header" ELSE "chunks",
                     key |-> k, val |-> v,
                     pending |-> 0..(NumChunks[v] - 1), puts |-> @.puts + 1]]
    /\ UNCHANGED <<log, applied, reader, confirmed>>

\* ChunkSqlStore::put: InsertChunk on the chunk's shard.
PutChunk(w, c) ==
    LET k == writer[w].key
        v == writer[w].val
    IN /\ writer[w].pc = "chunks"
       /\ c \in writer[w].pending
       /\ log' = InsertOrIgnore(ChunkShard[k][c], ChunkRow(k, c, <<v, c>>))
       /\ writer' = [writer EXCEPT
                        ![w].pending = @ \ {c},
                        ![w].pc = IF writer[w].pending = {c} THEN "header" ELSE "chunks"]
       /\ UNCHANGED <<applied, reader, confirmed>>

\* DataSqlStore::put: InsertData of Data(value) or of the InChunk(n) header.
PutData(w) ==
    LET k == writer[w].key
        v == writer[w].val
        row == IF NumChunks[v] = 0 THEN DataRow(k, "Data", v)
               ELSE DataRow(k, "InChunk", NumChunks[v])
    IN /\ writer[w].pc = "header"
       /\ log' = InsertOrIgnore(DataShard[k], row)
       /\ writer' = [writer EXCEPT ![w].pc = "idle", ![w].pending = {}]
       /\ confirmed' = confirmed \cup {k}
       /\ UNCHANGED <<applied, reader>>

\* An SQL error ends the put; rows already committed stay.
PutFails(w) ==
    /\ writer[w].pc \in {"chunks", "header"}
    /\ writer' = [writer EXCEPT ![w].pc = "idle", ![w].pending = {}]
    /\ UNCHANGED <<log, applied, reader, confirmed>>

\* A replica applies the next row of its master's log.
Replicate(s) ==
    /\ applied[s] < Len(log[s])
    /\ applied' = [applied EXCEPT ![s] = @ + 1]
    /\ UNCHANGED <<log, writer, reader, confirmed>>

-----------------------------------------------------------------------------
(* Readers: DataSqlStore::get, ChunkSqlStore::get, DataSqlStore::is_present *)

StartGet(r, k) ==
    /\ reader[r].pc = "idle"
    /\ reader[r].ops < MaxGets
    /\ reader' = [reader EXCEPT ![r] =
                    [ReaderIdle EXCEPT !.pc = "data_replica", !.key = k,
                                       !.expect = k \in confirmed,
                                       !.ops = reader[r].ops + 1]]
    /\ UNCHANGED <<log, applied, writer, confirmed>>

\* A decoder that takes num_of_chunks as the last chunk index.
DecodeDataLastIndex(rd, row) ==
    IF row.dtype = "Data"
    THEN [rd EXCEPT !.pc = "done", !.res = "value", !.parts = <<row.value>>]
    ELSE IF row.value - 1 <= 0
         THEN [rd EXCEPT !.pc = "done", !.res = "error"]
         ELSE [rd EXCEPT !.pc = "chunk_replica", !.n = row.value - 1, !.i = 0,
                         !.parts = <<>>]

\* The match on a data row: Data(value) is returned whole; InChunk decodes
\* num_of_chunks, rejected unless it converts to a non-zero usize.
DecodeData(rd, row) ==
    IF row.dtype = "Data"
    THEN [rd EXCEPT !.pc = "done", !.res = "value", !.parts = <<row.value>>]
    ELSE IF row.value <= 0
         THEN [rd EXCEPT !.pc = "done", !.res = "error"]
         ELSE [rd EXCEPT !.pc = "chunk_replica", !.n = row.value, !.i = 0,
                         !.parts = <<>>]

\* A replica read that takes a miss as the answer.
GetDataReplicaOnly(r) ==
    LET k == reader[r].key
        rows == DataRowsOf(ReplicaRows(DataShard[k]), k)
    IN /\ reader[r].pc = "data_replica"
       /\ reader' = [reader EXCEPT ![r] =
                       IF rows = {} THEN [@ EXCEPT !.pc = "done", !.res = "none"]
                       ELSE DecodeData(@, CHOOSE x \in rows : TRUE)]
       /\ UNCHANGED <<log, applied, writer, confirmed>>

\* SelectData on the replica; a miss goes on to the master.
GetDataReplica(r) ==
    LET k == reader[r].key
        rows == DataRowsOf(ReplicaRows(DataShard[k]), k)
    IN /\ reader[r].pc = "data_replica"
       /\ reader' = [reader EXCEPT ![r] =
                       IF rows = {} THEN [@ EXCEPT !.pc = "data_master"]
                       ELSE DecodeData(@, CHOOSE x \in rows : TRUE)]
       /\ UNCHANGED <<log, applied, writer, confirmed>>

\* SelectData on the master; a miss is Ok(None).
GetDataMaster(r) ==
    LET k == reader[r].key
        rows == DataRowsOf(MasterRows(DataShard[k]), k)
    IN /\ reader[r].pc = "data_master"
       /\ reader' = [reader EXCEPT ![r] =
                       IF rows = {} THEN [@ EXCEPT !.pc = "done", !.res = "none"]
                       ELSE DecodeData(@, CHOOSE x \in rows : TRUE)]
       /\ UNCHANGED <<log, applied, writer, confirmed>>

\* A reassembly loop that stops one chunk late, asking for chunk n.
GotChunkPastEnd(rd, row) ==
    [rd EXCEPT !.parts = Append(@, row.value), !.i = @ + 1,
               !.pc = IF rd.i = rd.n THEN "done" ELSE "chunk_replica",
               !.res = IF rd.i = rd.n THEN "value" ELSE "none"]

\* A fetched chunk is appended; the get is done after chunk n - 1.
GotChunk(rd, row) ==
    [rd EXCEPT !.parts = Append(@, row.value), !.i = @ + 1,
               !.pc = IF rd.i + 1 = rd.n THEN "done" ELSE "chunk_replica",
               !.res = IF rd.i + 1 = rd.n THEN "value" ELSE "none"]

\* A chunk read that reports a replica miss as a missing chunk.
GetChunkReplicaOnly(r) ==
    LET k == reader[r].key
        c == reader[r].i
        rows == ChunkRowsOf(ReplicaRows(ChunkShard[k][c]), k, c)
    IN /\ reader[r].pc = "chunk_replica"
       /\ reader' = [reader EXCEPT ![r] =
                       IF rows = {} THEN [@ EXCEPT !.pc = "done", !.res = "error"]
                       ELSE GotChunk(@, CHOOSE x \in rows : TRUE)]
       /\ UNCHANGED <<log, applied, writer, confirmed>>

\* SelectChunk on the replica; a miss goes on to the master.
GetChunkReplica(r) ==
    LET k == reader[r].key
        c == reader[r].i
        rows == ChunkRowsOf(ReplicaRows(ChunkShard[k][c]), k, c)
    IN /\ reader[r].pc = "chunk_replica"
       /\ reader' = [reader EXCEPT ![r] =
                       IF rows = {} THEN [@ EXCEPT !.pc = "chunk_master"]
                       ELSE GotChunk(@, CHOOSE x \in rows : TRUE)]
       /\ UNCHANGED <<log, applied, writer, confirmed>>

\* SelectChunk on the master; a miss is the "Missing chunk" error.
GetChunkMaster(r) ==
    LET k == reader[r].key
        c == reader[r].i
        rows == ChunkRowsOf(MasterRows(ChunkShard[k][c]), k, c)
    IN /\ reader[r].pc = "chunk_master"
       /\ reader' = [reader EXCEPT ![r] =
                       IF rows = {} THEN [@ EXCEPT !.pc = "done", !.res = "error"]
                       ELSE GotChunk(@, CHOOSE x \in rows : TRUE)]
       /\ UNCHANGED <<log, applied, writer, confirmed>>

StartIsPresent(r, k) ==
    /\ reader[r].pc = "idle"
    /\ reader[r].ops < MaxGets
    /\ reader' = [reader EXCEPT ![r] =
                    [ReaderIdle EXCEPT !.pc = "present_replica", !.key = k,
                                       !.ops = reader[r].ops + 1]]
    /\ UNCHANGED <<log, applied, writer, confirmed>>

\* SelectIsDataPresent on the replica: a hit answers true.
IsPresentReplica(r) ==
    LET k == reader[r].key
    IN /\ reader[r].pc = "present_replica"
       /\ IF DataRowsOf(ReplicaRows(DataShard[k]), k) # {}
          THEN /\ reader' = [reader EXCEPT ![r].pc = "idle"]
               /\ confirmed' = confirmed \cup {k}
          ELSE /\ reader' = [reader EXCEPT ![r].pc = "present_master"]
               /\ UNCHANGED confirmed
       /\ UNCHANGED <<log, applied, writer>>

\* SelectIsDataPresent on the master answers the call.
IsPresentMaster(r) ==
    LET k == reader[r].key
        found == DataRowsOf(MasterRows(DataShard[k]), k) # {}
    IN /\ reader[r].pc = "present_master"
       /\ reader' = [reader EXCEPT ![r].pc = "idle"]
       /\ confirmed' = IF found THEN confirmed \cup {k} ELSE confirmed
       /\ UNCHANGED <<log, applied, writer>>

\* The caller takes the result of a finished get.
FinishGet(r) ==
    /\ reader[r].pc = "done"
    /\ reader' = [reader EXCEPT ![r].pc = "idle"]
    /\ UNCHANGED <<log, applied, writer, confirmed>>

\* Every call has been made and answered and the replicas have caught up.
Quiescent ==
    /\ \A w \in Writers : writer[w].pc = "idle" /\ writer[w].puts = MaxPuts
    /\ \A r \in Readers : reader[r].pc = "idle" /\ reader[r].ops = MaxGets
    /\ \A s \in Shards : applied[s] = Len(log[s])
    /\ UNCHANGED vars

Next ==
    \/ \E w \in Writers :
          \/ \E k \in Keys, v \in Values : v \in ValuesOf[k] /\ StartPut(w, k, v)
          \/ \E c \in ChunkIds : PutChunk(w, c)
          \/ PutData(w)
          \/ PutFails(w)
    \/ \E s \in Shards : Replicate(s)
    \/ \E r \in Readers :
          \/ \E k \in Keys : StartGet(r, k) \/ StartIsPresent(r, k)
          \/ GetDataReplica(r) \/ GetDataMaster(r)
          \/ GetChunkReplica(r) \/ GetChunkMaster(r)
          \/ IsPresentReplica(r) \/ IsPresentMaster(r)
          \/ FinishGet(r)
    \/ Quiescent

Spec == Init /\ [][Next]_vars

-----------------------------------------------------------------------------
(* Properties                                                              *)

TypeOK ==
    /\ \A s \in Shards : applied[s] \in 0..Len(log[s])
    /\ \A w \in Writers : writer[w].pc \in {"idle", "chunks", "header"}
                          /\ writer[w].puts \in 0..MaxPuts
    /\ \A r \in Readers :
          /\ reader[r].pc \in {"idle", "data_replica", "data_master",
                               "chunk_replica", "chunk_master",
                               "present_replica", "present_master", "done"}
          /\ reader[r].res \in {"none", "value", "error"}
          /\ reader[r].ops \in 0..MaxGets
          \* a chunk read only asks for a chunk id the header announced
          /\ reader[r].pc \in {"chunk_replica", "chunk_master"}
                => reader[r].i \in 0..(reader[r].n - 1)
    /\ confirmed \subseteq Keys

\* A get that returns a value returns exactly the bytes of one value some
\* put stored under that key: the header's chunk count and the chunk rows,
\* read from replicas and masters of different shards, belong together.
GetReturnsAPutValue ==
    \A r \in Readers :
        reader[r].pc = "done" /\ reader[r].res = "value"
            => \E v \in ValuesOf[reader[r].key] : reader[r].parts = Pieces(v)

\* A get of a key that a put already stored, or that is_present already
\* reported, finds it: replica lag never turns into Ok(None) or an error.
ConfirmedKeyIsFound ==
    \A r \in Readers :
        reader[r].pc = "done" /\ reader[r].expect => reader[r].res = "value"

\* No get fails with "Missing chunk", whatever puts run or fail beside it
\* and however far each shard's replica lags.
NoMissingChunk ==
    \A r \in Readers : reader[r].pc = "done" => reader[r].res # "error"

-----------------------------------------------------------------------------
(* Refinement of BlobStore                                                 *)

\* The value a header announcing n chunks stands for, and the value a
\* sequence of pieces reassembles into; "torn" when no put wrote it.
ValueWithChunks(k, n) ==
    IF \E v \in ValuesOf[k] : NumChunks[v] = n
    THEN CHOOSE v \in ValuesOf[k] : NumChunks[v] = n ELSE "torn"

ValueOfPieces(k, parts) ==
    IF \E v \in ValuesOf[k] : Pieces(v) = parts
    THEN CHOOSE v \in ValuesOf[k] : Pieces(v) = parts ELSE "torn"

\* The abstract map: a key is stored once its master holds its data row.
StoredValue(k) ==
    LET rows == DataRowsOf(MasterRows(DataShard[k]), k)
        row == CHOOSE x \in rows : TRUE
    IN IF rows = {} THEN "absent"
       ELSE IF row.dtype = "Data" THEN row.value
       ELSE ValueWithChunks(k, row.value)

\* A get has read the map once its data row read hit; the chunk reads
\* that follow must deliver the value that row announced.
AbsOp(rd) ==
    LET call(pc, res) == [pc |-> pc, key |-> rd.key, res |-> res]
    IN CASE rd.pc = "idle" -> call("idle", "absent")
         [] rd.pc \in {"data_replica", "data_master"} -> call("get", "absent")
         [] rd.pc \in {"present_replica", "present_master"} -> call("present", "absent")
         [] rd.pc \in {"chunk_replica", "chunk_master"} ->
               call("got", ValueWithChunks(rd.key, rd.n))
         [] rd.res = "value" -> call("got", ValueOfPieces(rd.key, rd.parts))
         [] rd.res = "none" -> call("got", "absent")
         [] OTHER -> call("got", "error")

Abs == INSTANCE BlobStore WITH
           Absent <- "absent",
           store <- [k \in Keys |-> StoredValue(k)],
           op <- [r \in Readers |-> AbsOp(reader[r])]

\* The SQL store implements the blob store's contract: with replicas that
\* lag, chunks on other shards than their header, and puts failing between
\* statements, every put takes effect at the one INSERT of its data row,
\* and every get and is_present answers from the map as it is at one
\* instant of the call (the replica read, or the master read after a
\* replica miss), a get never failing.
Refinement == Abs!Spec
=============================================================================

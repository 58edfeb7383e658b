---------------------------- MODULE FetchStreams ----------------------------
(***************************************************************************)
(* The streaming file commands getfiles and getpackv1 of                  *)
(* src/repo_client/src/client/mod.rs, between an hg client and the       *)
(* server over two bounded pipes.                                         *)
(*                                                                         *)
(* As the comment in getpackv1 says, the hg client writes every argument *)
(* (and the end marker) before it reads any response.  getfiles maps the *)
(* argument stream lazily into fetches; getpackv1 first collects the     *)
(* whole request.  Both run the fetches through .buffered(n): at most n  *)
(* in flight, completing in any order, yielded in request order.  The    *)
(* output goes to the response pipe only when it has room (the writer    *)
(* polls the stream only then).  whole_stream_timeout fails the command  *)
(* when it runs too long.                                                 *)
(***************************************************************************)
EXTENDS Integers, Sequences

CONSTANTS
    Commands,     \* commands to check, of "getfiles", "getpackv1", "stream_out_shallow"
    NumArgsOf,    \* NumArgsOf[c]: arguments the client sends with command c
    ReqCap,       \* capacity of the request pipe, in messages
    RespCap,      \* capacity of the response pipe, in messages
    BufferSize,   \* getfiles_buffer_size / getpackv1_buffer_size
    IndexChunks,  \* stream_out_shallow: blobs of 00changelog.i
    DataChunks,   \* stream_out_shallow: blobs of 00changelog.d
    End           \* the end marker of the arguments and of the response


VARIABLES
    cmd,        \* the command the client called
    sentArgs,   \* arguments the client has written
    toServer,   \* the request pipe
    collected,  \* getpackv1: arguments collected so far
    layout,     \* stream_out_shallow: the kind of every response item
    inputDone,  \* the server's argument stream has ended
    next,       \* getpackv1: index of the next collected argument to fetch
    inflight,   \* the buffered queue: <<[arg, done]>> in request order
    toClient,   \* the response pipe
    served,     \* the server has written its end marker
    received,   \* responses the client has read
    pc          \* client: "send", "read", "done" or "failed"

vars == <<cmd, sentArgs, toServer, collected, layout, inputDone, next, inflight, toClient,
          served, received, pc>>

\* Arguments of the request: (node, path) pairs or (path, nodes) groups.
NumArgs == NumArgsOf[cmd]

Init ==
    /\ cmd \in Commands
    /\ sentArgs = 0
    /\ toServer = <<>>
    /\ collected = <<>>
    /\ layout = <<>>
    /\ inputDone = FALSE
    /\ next = 1
    /\ inflight = <<>>
    /\ toClient = <<>>
    /\ served = FALSE
    /\ received = <<>>
    /\ pc = "send"

-----------------------------------------------------------------------------
(* The hg client                                                           *)

\* The client writes its next argument, then the end marker, into the
\* request pipe when it has room; after the marker it starts reading.
ClientSend ==
    /\ pc = "send"
    /\ Len(toServer) < ReqCap
    /\ IF sentArgs < NumArgs
       THEN toServer' = Append(toServer, sentArgs + 1) /\ sentArgs' = sentArgs + 1
            /\ UNCHANGED pc
       ELSE toServer' = Append(toServer, End) /\ pc' = "read" /\ UNCHANGED sentArgs
    /\ UNCHANGED <<cmd, layout, collected, inputDone, next, inflight, toClient, served, received>>

\* The client reads a response; the end marker completes the command.
ClientRead ==
    /\ pc = "read"
    /\ toClient # <<>>
    /\ toClient' = Tail(toClient)
    /\ IF Head(toClient) = End
       THEN pc' = "done" /\ UNCHANGED received
       ELSE received' = Append(received, Head(toClient)) /\ UNCHANGED pc
    /\ UNCHANGED <<cmd, layout, sentArgs, toServer, collected, inputDone, next, inflight, served>>

-----------------------------------------------------------------------------
(* The server                                                              *)

\* getpackv1 reading its arguments as getfiles does, without collecting.
GetpackReadLazy ==
    /\ toServer # <<>>
    /\ ~inputDone
    /\ Len(inflight) < BufferSize
    /\ toServer' = Tail(toServer)
    /\ IF Head(toServer) = End
       THEN inputDone' = TRUE /\ UNCHANGED inflight
       ELSE inflight' = Append(inflight, [arg |-> Head(toServer), done |-> FALSE])
            /\ UNCHANGED inputDone
    /\ UNCHANGED <<cmd, layout, sentArgs, collected, next, toClient, served, received, pc>>

\* A getfiles read that ignores the buffer bound.
GetfilesReadUnbounded ==
    /\ toServer # <<>>
    /\ ~inputDone
    /\ toServer' = Tail(toServer)
    /\ IF Head(toServer) = End
       THEN inputDone' = TRUE /\ UNCHANGED inflight
       ELSE inflight' = Append(inflight, [arg |-> Head(toServer), done |-> FALSE])
            /\ UNCHANGED inputDone
    /\ UNCHANGED <<cmd, layout, sentArgs, collected, next, toClient, served, received, pc>>

\* getfiles: buffered polls the argument stream while fewer than
\* BufferSize fetches are queued, starting create_remotefilelog_blob for
\* each argument; the end marker ends the stream.
GetfilesRead ==
    /\ toServer # <<>>
    /\ ~inputDone
    /\ Len(inflight) < BufferSize
    /\ toServer' = Tail(toServer)
    /\ IF Head(toServer) = End
       THEN inputDone' = TRUE /\ UNCHANGED inflight
       ELSE inflight' = Append(inflight, [arg |-> Head(toServer), done |-> FALSE])
            /\ UNCHANGED inputDone
    /\ UNCHANGED <<cmd, layout, sentArgs, collected, next, toClient, served, received, pc>>

\* getpackv1: params.collect() reads the whole request before any fetch.
GetpackRead ==
    /\ toServer # <<>>
    /\ ~inputDone
    /\ toServer' = Tail(toServer)
    /\ IF Head(toServer) = End
       THEN inputDone' = TRUE /\ UNCHANGED collected
       ELSE collected' = Append(collected, Head(toServer)) /\ UNCHANGED inputDone
    /\ UNCHANGED <<cmd, layout, sentArgs, next, inflight, toClient, served, received, pc>>

\* A getpackv1 fetch start that ignores the buffer bound.
GetpackStartFetchUnbounded ==
    /\ inputDone
    /\ next <= Len(collected)
    /\ inflight' = Append(inflight, [arg |-> collected[next], done |-> FALSE])
    /\ next' = next + 1
    /\ UNCHANGED <<cmd, layout, sentArgs, toServer, collected, inputDone, toClient, served,
                   received, pc>>

\* getpackv1: buffered takes the next collected argument and starts its
\* history and content fetches.
GetpackStartFetch ==
    /\ inputDone
    /\ next <= Len(collected)
    /\ Len(inflight) < BufferSize
    /\ inflight' = Append(inflight, [arg |-> collected[next], done |-> FALSE])
    /\ next' = next + 1
    /\ UNCHANGED <<cmd, layout, sentArgs, toServer, collected, inputDone, toClient, served,
                   received, pc>>

\* stream_out_shallow's response: "0\n", the "<files> <size>" header, then
\* each file's "<name>\0<size>" line followed by its blobs.
StreamLayout(withClone) ==
    LET ni == IF withClone THEN IndexChunks ELSE 0
        nd == IF withClone THEN DataChunks ELSE 0
    IN <<"ok", "header", "index_name">> \o [k \in 1..ni |-> "index"]
       \o <<"data_name">> \o [k \in 1..nd |-> "data"]

\* stream_out_shallow: without a streaming clone config the changelog is
\* empty; otherwise fetch_changelog loads the chunk list, or fails.
StreamOutStart ==
    /\ toServer # <<>>
    /\ ~inputDone
    /\ toServer' = Tail(toServer)
    /\ inputDone' = TRUE
    /\ \E withClone \in BOOLEAN, fetchFails \in BOOLEAN :
          IF withClone /\ fetchFails
          THEN pc' = "failed" /\ UNCHANGED <<layout, collected>>
          ELSE /\ layout' = StreamLayout(withClone)
               /\ collected' = [k \in 1..Len(layout') |-> k]
               /\ UNCHANGED pc
    /\ UNCHANGED <<cmd, sentArgs, next, inflight, toClient, served, received>>

\* The chained stream polls its next item: a header line is ready at once
\* and waits for the previous file to finish; a blob of a file starts its
\* fetch while fewer than 100 of that file's blobs are queued.
StreamOutFeed ==
    LET kind == layout[next]
        isBlob == kind \in {"index", "data"}
    IN /\ inputDone
       /\ next <= Len(collected)
       /\ IF isBlob
          THEN /\ Len(inflight) < BufferSize
               /\ \A j \in 1..Len(inflight) : layout[inflight[j].arg] = kind
          ELSE inflight = <<>>
       /\ inflight' = Append(inflight, [arg |-> next, done |-> ~isBlob])
       /\ next' = next + 1
       /\ UNCHANGED <<cmd, layout, sentArgs, toServer, collected, inputDone,
                      toClient, served, received, pc>>

\* A fetch in flight completes; fetches complete in any order.
FetchDone(j) ==
    /\ ~inflight[j].done
    /\ inflight' = [inflight EXCEPT ![j].done = TRUE]
    /\ UNCHANGED <<cmd, layout, sentArgs, toServer, collected, inputDone, next, toClient,
                   served, received, pc>>

\* A buffer that yields whichever fetch completes first.
YieldUnordered(j) ==
    /\ inflight[j].done
    /\ Len(toClient) < RespCap
    /\ toClient' = Append(toClient, inflight[j].arg)
    /\ inflight' = [k \in 1..(Len(inflight) - 1) |->
                      IF k < j THEN inflight[k] ELSE inflight[k + 1]]
    /\ UNCHANGED <<cmd, layout, sentArgs, toServer, collected, inputDone, next, served,
                   received, pc>>

\* buffered yields the oldest fetch once it has completed, and the writer
\* puts it in the response pipe when there is room.
Yield(j) ==
    /\ j = 1
    /\ inflight[j].done
    /\ Len(toClient) < RespCap
    /\ toClient' = Append(toClient, inflight[j].arg)
    /\ inflight' = Tail(inflight)
    /\ UNCHANGED <<cmd, layout, sentArgs, toServer, collected, inputDone, next, served,
                   received, pc>>

\* A stream that ends as soon as no fetch is in flight.
ServerEndEarly ==
    /\ inputDone
    /\ inflight = <<>>
    /\ ~served
    /\ Len(toClient) < RespCap
    /\ toClient' = Append(toClient, End)
    /\ served' = TRUE
    /\ UNCHANGED <<cmd, layout, sentArgs, toServer, collected, inputDone, next, inflight,
                   received, pc>>

\* The stream ends after the last response (getpackv1 chains Part::End).
ServerEnd ==
    /\ inputDone
    /\ inflight = <<>>
    /\ cmd \in {"getpackv1", "stream_out_shallow"} => next > Len(collected)
    /\ ~served
    /\ Len(toClient) < RespCap
    /\ toClient' = Append(toClient, End)
    /\ served' = TRUE
    /\ UNCHANGED <<cmd, layout, sentArgs, toServer, collected, inputDone, next, inflight,
                   received, pc>>

\* whole_stream_timeout: the command fails.
Timeout ==
    /\ pc \in {"send", "read"}
    /\ pc' = "failed"
    /\ UNCHANGED <<cmd, layout, sentArgs, toServer, collected, inputDone, next, inflight,
                   toClient, served, received>>

\* The command has completed or failed.
Ended ==
    /\ pc \in {"done", "failed"}
    /\ UNCHANGED vars

\* A step of the exchange; once the command has failed (the timeout drops
\* the stream) neither side takes another.
Progress ==
    /\ pc \in {"send", "read"}
    /\ \/ ClientSend \/ ClientRead
       \/ cmd = "getfiles" /\ GetfilesRead
       \/ cmd = "getpackv1" /\ (GetpackRead \/ GetpackStartFetch)
       \/ cmd = "stream_out_shallow" /\ (StreamOutStart \/ StreamOutFeed)
       \/ \E j \in 1..Len(inflight) : FetchDone(j) \/ Yield(j)
       \/ ServerEnd

Next == Progress \/ Timeout \/ Ended

Spec == Init /\ [][Next]_vars

\* The executor polls every future that can make progress: a pipe with
\* room is written, a ready fetch completes and is yielded.  The timeout
\* is a failure that may happen, never one that must.
FairSpec == Spec /\ WF_vars(Progress)

-----------------------------------------------------------------------------
(* Properties                                                              *)

\* The responses the stream carries: one per argument, and for
\* stream_out_shallow the items of the layout fetch_changelog decided.
ResponseTotal ==
    IF cmd = "stream_out_shallow"
    THEN IF layout = <<>> THEN -1 ELSE Len(layout)
    ELSE NumArgs

Abs == INSTANCE ResponseStream
         WITH delivered <- received, total <- ResponseTotal, Unknown <- -1,
              status <- CASE pc \in {"send", "read"} -> "open"
                          [] pc = "done" -> "done"
                          [] pc = "failed" -> "failed"

TypeOK ==
    /\ cmd \in Commands /\ sentArgs \in 0..NumArgs
    /\ Len(toServer) <= ReqCap /\ Len(toClient) <= RespCap
    /\ pc \in {"send", "read", "done", "failed"}
    \* buffered never holds more than its bound
    /\ Len(inflight) <= BufferSize

\* The client reads exactly the responses of its request, in the order
\* it sent the arguments (or the order of the layout), then the end of
\* the stream, though the fetches complete in any order: the commands
\* implement the ResponseStream contract.
Refinement == Abs!Spec

\* Until the client has its last response, the exchange can progress
\* without the timeout: client and server are never both blocked on a
\* full pipe.
NoStuckExchange ==
    pc \in {"send", "read"} => ENABLED Progress


\* Under a fair executor, every exchange ends with the client reading the
\* last response, unless the whole-stream timeout ends it first: the
\* buffered fetches, the collect of getpackv1 and the chained files of
\* stream_out_shallow never leave client and server waiting on each other.
ExchangeCompletes == pc \in {"send", "read"} ~> pc \in {"done", "failed"}
====

-------------------------- MODULE MC_FetchStreams --------------------------
(* Pipes holding one message each and two fetches in flight.  getpackv1  *)
(* sends five arguments, more than the pipes and the buffer hold         *)
(* together, as a real request is larger than the OS pipe buffers and    *)
(* the 100 buffered fetches; getfiles sends three, which they hold.       *)
(* stream_out_shallow takes no arguments and streams a changelog of two  *)
(* index blobs and three data blobs, more than the buffer holds.          *)
EXTENDS FetchStreams
CONSTANT end

MCCommands == {"getfiles", "getpackv1", "stream_out_shallow"}
MCNumArgsOf == [c \in MCCommands |->
                  CASE c = "getpackv1" -> 5 [] c = "getfiles" -> 3 [] OTHER -> 0]

\* getfiles with the larger request.
MCGetfiles == {"getfiles"}
MCLargeRequest == [c \in MCGetfiles |-> 5]
====

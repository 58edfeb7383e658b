--------------------------- MODULE ResponseStream ---------------------------
(***************************************************************************)
(* What a streaming wire-protocol command promises its client: the        *)
(* responses 1, 2, ..., total in order, then the end of the stream, or a  *)
(* failure at any point.  total is fixed by the request, or, for a        *)
(* command whose length the server decides (stream_out_shallow), by the  *)
(* server when it starts answering.                                      *)
(***************************************************************************)
EXTENDS Naturals, Sequences

CONSTANT Unknown    \* the length is not decided yet

VARIABLES
    delivered,  \* the responses the client has read
    total,      \* the number of responses the stream carries, or Unknown
    status      \* "open", "done" or "failed"

vars == <<delivered, total, status>>

Init ==
    /\ delivered = <<>>
    /\ total \in Nat \cup {Unknown}
    /\ status = "open"

\* The server decides how long the response is.
Plan ==
    /\ status = "open"
    /\ total = Unknown
    /\ total' \in Nat
    /\ UNCHANGED <<delivered, status>>

\* The client reads the next response.
Deliver ==
    /\ status = "open"
    /\ total # Unknown
    /\ Len(delivered) < total
    /\ delivered' = Append(delivered, Len(delivered) + 1)
    /\ UNCHANGED <<total, status>>

\* The client reads the end of the stream after the last response.
Finish ==
    /\ status = "open"
    /\ total # Unknown
    /\ Len(delivered) = total
    /\ status' = "done"
    /\ UNCHANGED <<delivered, total>>

\* The command fails.
Fail ==
    /\ status = "open"
    /\ status' = "failed"
    /\ UNCHANGED <<delivered, total>>

Next == Plan \/ Deliver \/ Finish \/ Fail

Spec == Init /\ [][Next]_vars
====

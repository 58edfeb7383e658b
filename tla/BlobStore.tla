------------------------------ MODULE BlobStore ------------------------------
(***************************************************************************)
(* What a blob store promises its callers (the blobstore interface the    *)
(* SQL store implements): a map from keys to values in which a put of a  *)
(* key that is already stored changes nothing (the first write wins), and *)
(* get and is_present each answer from the map as it is at one instant   *)
(* between their call and their return.  A put takes effect at once or   *)
(* not at all; a get never fails.                                          *)
(***************************************************************************)
CONSTANTS
    Keys,       \* blob keys
    Values,     \* blob values
    Readers,    \* callers of get and is_present
    Absent      \* the answer of get for a key that is not stored

VARIABLES
    store,      \* store[k]: the value stored under k, or Absent
    op,         \* op[r]: reader r's call: pc, key and the answer of a get
    confirmed   \* keys a put completed on, or is_present answered true for

vars == <<store, op, confirmed>>

OpIdle == [pc |-> "idle", key |-> CHOOSE k \in Keys : TRUE, res |-> Absent]

Init ==
    /\ store = [k \in Keys |-> Absent]
    /\ op = [r \in Readers |-> OpIdle]
    /\ confirmed = {}

\* put(k, v) takes effect: first write wins.
Put(k, v) ==
    /\ store' = IF store[k] = Absent THEN [store EXCEPT ![k] = v] ELSE store
    /\ confirmed' = confirmed \cup {k}
    /\ UNCHANGED op

StartGet(r, k) ==
    /\ op[r].pc = "idle"
    /\ op' = [op EXCEPT ![r] = [pc |-> "get", key |-> k, res |-> Absent]]
    /\ UNCHANGED <<store, confirmed>>

\* The instant the get reads the map.
ReadGet(r) ==
    /\ op[r].pc = "get"
    /\ op' = [op EXCEPT ![r].pc = "got", ![r].res = store[op[r].key]]
    /\ UNCHANGED <<store, confirmed>>

ReturnGet(r) ==
    /\ op[r].pc = "got"
    /\ op' = [op EXCEPT ![r] = [OpIdle EXCEPT !.key = op[r].key]]
    /\ UNCHANGED <<store, confirmed>>

StartIsPresent(r, k) ==
    /\ op[r].pc = "idle"
    /\ op' = [op EXCEPT ![r] = [pc |-> "present", key |-> k, res |-> Absent]]
    /\ UNCHANGED <<store, confirmed>>

\* is_present reads the map and returns.
AnswerIsPresent(r) ==
    LET k == op[r].key
    IN /\ op[r].pc = "present"
       /\ op' = [op EXCEPT ![r] = [OpIdle EXCEPT !.key = k]]
       /\ confirmed' = IF store[k] # Absent THEN confirmed \cup {k} ELSE confirmed
       /\ UNCHANGED store

Next ==
    \/ \E k \in Keys, v \in Values : Put(k, v)
    \/ \E r \in Readers :
          \/ \E k \in Keys : StartGet(r, k) \/ StartIsPresent(r, k)
          \/ ReadGet(r) \/ ReturnGet(r) \/ AnswerIsPresent(r)

Spec == Init /\ [][Next]_vars
====

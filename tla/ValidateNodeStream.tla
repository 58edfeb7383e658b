------------------------- MODULE ValidateNodeStream -------------------------
(***************************************************************************)
(* revset/src/validation.rs: ValidateNodeStream wraps a revset's stream   *)
(* of changesets, attaches each one's generation number                  *)
(* (add_generations_by_bonsai) and asserts the two revset invariants on   *)
(* every item it passes on: the generation never increases and no hash   *)
(* is seen twice.  A failed assert panics.                                *)
(*                                                                         *)
(* The wrapped stream is the environment: each poll returns NotReady (a  *)
(* stutter here), the end of the stream, an error (the generation fetch  *)
(* failed) or any changeset, so every stream a revset could produce is   *)
(* among the behaviours, well-ordered or not.                             *)
(***************************************************************************)
EXTENDS Naturals, Sequences

CONSTANTS
    Changesets,     \* the changesets of the repository
    Gen,            \* Changesets -> Nat, the generation the fetcher returns
    None,           \* last_generation before the first item
    MaxItems        \* bound on the items the wrapped stream yields

VARIABLES
    last_generation,  \* Option<Generation>
    seen_hashes,      \* HashSet<ChangesetId>
    input,            \* the items the wrapped stream has yielded so far
    emitted,          \* the items ValidateNodeStream has passed on
    pc                \* "polling", "ended", "failed" or "panicked"

vars == <<last_generation, seen_hashes, input, emitted, pc>>

\* ValidateNodeStream::new: nothing seen yet.
Init ==
    /\ last_generation = None
    /\ seen_hashes = {}
    /\ input = <<>>
    /\ emitted = <<>>
    /\ pc = "polling"

\* The assert of line 62 fails: a generation is known and the new one is
\* larger (Rust orders None below every Some).
GenerationIncreasedEq(c) ==
    last_generation # None /\ last_generation <= Gen[c]

GenerationIncreased(c) ==
    last_generation # None /\ last_generation < Gen[c]

\* poll, on Async::Ready(Some((hash, gen))): insert the hash (the assert of
\* line 57 fails when it was already there), check the generation, record
\* it and pass the hash on.
PollItemNoUpdate(c) ==
    /\ pc = "polling"
    /\ Len(input) < MaxItems
    /\ input' = Append(input, c)
    /\ seen_hashes' = seen_hashes \cup {c}
    /\ IF c \in seen_hashes \/ GenerationIncreased(c)
          THEN /\ pc' = "panicked"
               /\ UNCHANGED <<last_generation, emitted>>
          ELSE /\ last_generation' = IF last_generation = None
                                        THEN Gen[c] ELSE last_generation
               /\ emitted' = Append(emitted, c)
               /\ UNCHANGED pc

PollItem(c) ==
    /\ pc = "polling"
    /\ Len(input) < MaxItems
    /\ input' = Append(input, c)
    /\ seen_hashes' = seen_hashes \cup {c}
    /\ IF c \in seen_hashes \/ GenerationIncreased(c)
          THEN /\ pc' = "panicked"
               /\ UNCHANGED <<last_generation, emitted>>
          ELSE /\ last_generation' = Gen[c]
               /\ emitted' = Append(emitted, c)
               /\ UNCHANGED pc

\* poll, on Async::Ready(None): the stream ends.
PollEnd ==
    /\ pc = "polling"
    /\ pc' = "ended"
    /\ UNCHANGED <<last_generation, seen_hashes, input, emitted>>

\* poll, on an error of the wrapped stream: the ? returns it.
PollError ==
    /\ pc = "polling"
    /\ pc' = "failed"
    /\ UNCHANGED <<last_generation, seen_hashes, input, emitted>>

\* The stream is finished: nothing more happens.
Finished ==
    /\ pc # "polling"
    /\ UNCHANGED vars

Next ==
    \/ \E c \in Changesets : PollItem(c)
    \/ PollEnd
    \/ PollError
    \/ Finished

Spec == Init /\ [][Next]_vars

-----------------------------------------------------------------------------
\* The revset order of the specification: no changeset twice, generations
\* non-increasing along the stream.
IsRevsetOrder(s) ==
    \A i, j \in 1..Len(s) :
        i < j => s[i] # s[j] /\ Gen[s[i]] >= Gen[s[j]]

\* What the consumer of ValidateNodeStream receives is in revset order: the
\* two asserts of poll (lines 57-65) hold over the whole emitted stream,
\* not only between neighbours, although poll remembers just the last
\* generation.
EmittedIsRevsetOrder == IsRevsetOrder(emitted)

\* poll panics only on an input that is not in revset order, and until it
\* does it passes on every item the wrapped stream yielded: the validator
\* never rejects a well-ordered revset (siblings of equal generation
\* included) and never drops an item.
PanicsOnlyOnInvalidInput ==
    /\ pc = "panicked" => ~IsRevsetOrder(input)
    /\ pc # "panicked" => emitted = input
====

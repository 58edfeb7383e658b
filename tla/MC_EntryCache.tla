----------------------------- MODULE MC_EntryCache -----------------------------
(* Two files with identical content and no parents, as two fresh empty    *)
(* files added by one commit: Mercurial gives them the same filenode hash. *)
EXTENDS EntryCache

CONSTANTS c1, c2, noname

MCEntries == {[name |-> "a.txt", ttype |-> "file", hash |-> "h0"],
              [name |-> "b.txt", ttype |-> "file", hash |-> "h0"]}
MCCallers == {c1, c2}
=============================================================================

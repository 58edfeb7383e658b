------------------------ MODULE MC_ValidateNodeStream ------------------------
(* The linear fixture's root r (generation 1), its child m (2) and two    *)
(* children s1, s2 of m (3 each): siblings of equal generation, a drop,  *)
(* a rise and a repeat all occur within four items.                       *)
EXTENDS ValidateNodeStream, TLC

CONSTANTS r, m, s1, s2, none

MCChangesets == {r, m, s1, s2}
MCGen == (r :> 1) @@ (m :> 2) @@ (s1 :> 3) @@ (s2 :> 3)
=============================================================================

------------------------------ MODULE MC_GenBFS ------------------------------
(* Every commit DAG on five changesets with at most two parents each, and  *)
(* every query between them or a changeset the repository lacks.          *)
EXTENDS GenBFS

CONSTANT absent

MCNodes == 1..5
=============================================================================

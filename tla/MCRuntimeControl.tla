-------------------------- MODULE MCRuntimeControl --------------------------
(* RuntimeControl on small instances. *)
EXTENDS RuntimeControl, TLC
CONSTANTS codex, cline
CatalogInOrder == <<codex, cline>>
Messages == Permutations(Msg)
=============================================================================

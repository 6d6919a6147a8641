---------------------------- MODULE MCRuntimeDeck ----------------------------
(* RuntimeDeck on small instances. *)
EXTENDS RuntimeDeck
CONSTANTS codex, cline
CatalogInOrder == <<codex, cline>>
=============================================================================

----------------------------- MODULE MCCodexExec -----------------------------
(* CodexExec on a few prompts. *)
EXTENDS CodexExec
=============================================================================

--------------------------- MODULE MCApprovalFlow ----------------------------
(* ApprovalFlow on small instances. *)
EXTENDS ApprovalFlow, TLC

Interchangeable == Permutations(Page) \cup Permutations(Runtime) \cup Permutations(Text)
=============================================================================

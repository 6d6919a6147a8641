---------------------------- MODULE MCShellExecution -----------------------
(***************************************************************************)
(* TLC's instance of ShellExecution: two script commands that may share a  *)
(* terminal, a cap of one line with up to three printed, and a second     *)
(* terminal for after the first is closed.                                 *)
(***************************************************************************)
EXTENDS ShellExecution
=============================================================================

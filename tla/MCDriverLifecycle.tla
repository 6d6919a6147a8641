-------------------------- MODULE MCDriverLifecycle --------------------------
(* DriverLifecycle on small instances. *)
EXTENDS DriverLifecycle
=============================================================================

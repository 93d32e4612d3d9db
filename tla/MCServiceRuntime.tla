-------------------------- MODULE MCServiceRuntime --------------------------
(* TLC instances of ServiceRuntime. *)
EXTENDS ServiceRuntime
=============================================================================

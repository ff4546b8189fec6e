---------------------------- MODULE MCEventStream ----------------------------
(* Module EventStream on a small instance. *)
EXTENDS EventStream
=============================================================================

---------------------------- MODULE MCExecution ----------------------------
(* Module Execution on a small instance: two phases, one lens.             *)
EXTENDS Execution
=============================================================================

---------------------------- MODULE MCServer ----------------------------
(* Module Server on a small instance. *)
EXTENDS Server
=============================================================================

----------------------------- MODULE MCWorkspace -----------------------------
(* Module Workspace on a small instance. *)
EXTENDS Workspace
=============================================================================

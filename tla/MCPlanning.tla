---------------------------- MODULE MCPlanning ----------------------------
(* Module Planning on a small instance: one question, one lens.            *)
EXTENDS Planning
MCQuestions == {"q"}
=============================================================================

---------------------------- MODULE MCWorkspace -----------------------------
(* Workspace with two runs that share one file, and the four kinds of      *)
(* timeout: missing, ordinary, over the maximum, negative.                 *)
EXTENDS Workspace

MCTimeouts == {-1, 0, 30, 900}
=============================================================================

----------------------------- MODULE MCDataDir -----------------------------
(* DataDir with two processes, which may be of any command, and one more   *)
(* start than processes, so that one of them comes back after a death.     *)
EXTENDS DataDir
=============================================================================

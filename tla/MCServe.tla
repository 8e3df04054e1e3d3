------------------------------ MODULE MCServe -------------------------------
(* Serve with a buffer of one, so that two messages overflow it, and two   *)
(* requests and two publishers.                                            *)
EXTENDS Serve
=============================================================================

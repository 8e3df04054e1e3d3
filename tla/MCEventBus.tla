----------------------------- MODULE MCEventBus -----------------------------
(* EventBus with a buffer of one, so that two messages overflow it, and    *)
(* two handlers and two publishers over two runs.                          *)
EXTENDS EventBus
=============================================================================
